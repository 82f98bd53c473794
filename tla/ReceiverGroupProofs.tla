------------------------- MODULE ReceiverGroupProofs -------------------------
(***************************************************************************)
(* Proofs about ReceiverGroup: the walk of _receive over sockets, intervals *)
(* and members, and the deadline of receive(), for any members, numbers of  *)
(* sockets, timeouts and bounds.                                            *)
(***************************************************************************)
EXTENDS ReceiverGroup, FiniteSetsExt, FiniteSetTheorems, NaturalsInduction,
        WellFoundedInduction, TLAPS, FunctionTheorems, SequenceTheorems

(* Sets of natural numbers *)

\* A set of natural numbers that has an element has a least one.
LEMMA LeastNumber ==
    ASSUME NEW T, T \subseteq Nat, T # {}
    PROVE  \E x \in T : \A y \in T : x <= y
<1> DEFINE R == {ss \in Nat \X Nat : ss[1] < ss[2]}
<1>1. IsWellFoundedOn(R, Nat)
    BY NatLessThanWellFounded DEF OpToRel
<1>2. \A x, y \in Nat : y < x => <<y, x>> \in R
    OBVIOUS
<1> HIDE DEF R
<1>3. PICK x \in T : \A y \in T : ~ (<<y, x>> \in R)
    BY <1>1, WFMin, Zenon
<1>4. \A y \in T : ~ (y < x)
    BY <1>2, <1>3
<1> QED
    BY <1>4

\* Min gives it.
LEMMA MinFacts ==
    ASSUME NEW T, T \subseteq Nat, T # {}
    PROVE  Min(T) \in T /\ \A y \in T : Min(T) <= y
<1>1. \E x \in T : \A y \in T : x <= y
    BY LeastNumber
<1> QED
    BY <1>1 DEF Min

(* The walk *)

\* The intervals rest cut the sockets q into pieces behind the first n: cut[k] is
\* where the piece of the k-th interval ends.
Cuts(cut, q, n, rest) ==
    /\ cut \in [0 .. Len(rest) -> 0 .. Len(q)]
    /\ cut[0] = n
    /\ cut[Len(rest)] = Len(q)
    /\ \A k \in 1 .. Len(rest) : cut[k] = cut[k - 1] + rest[k]

\* The k-th piece is of the member k places behind position a of the group g.
Owned(cut, q, rest, g, a) ==
    \A k \in 0 .. Len(rest), j \in 1 .. Len(q) :
        (k = 0 \/ cut[k - 1] < j) /\ j <= cut[k] => q[j][1] = g[a + k]

\* Sockets, intervals and members are in step.
InStep(q, n, rest, a) ==
    \E cut \in [0 .. Len(rest) -> 0 .. Len(q)] :
        /\ Cuts(cut, q, n, rest)
        /\ ~ changed => Owned(cut, q, rest, shared, a)

\* Where the local variables of a pass have a value.
Scope ==
    /\ pc \notin {"collect", "poll", "pass", "function"} =>
          polled = <<>> /\ intervals = <<>>
    /\ pc \notin {"pass", "function"} =>
          interval = 0 /\ at = 1 /\ ~ changed /\ ~ dangling
    /\ dangling => changed

\* While the sockets are collected, and until zmq_poll returns.
Collecting ==
    pc \in {"collect", "poll"} =>
        /\ InStep(polled, 0, intervals, 0)
        /\ Len(intervals) <= Len(shared)
        /\ pc = "poll" => Len(intervals) = Len(shared)
        /\ \A j \in DOMAIN polled :
              \E i \in 1 .. Len(intervals) : polled[j][1] = shared[i]

\* During the pass.
Walking ==
    /\ pc = "pass" => InStep(polled, interval, intervals, at)
    /\ pc = "function" =>
          polled # <<>> /\ InStep(Tail(polled), interval, intervals, at)
    /\ pc \in {"pass", "function"} =>
          /\ at + Len(intervals) <= Cardinality(Receivers)
          /\ ~ changed => at + Len(intervals) <= Len(shared)

\* No socket is in the list twice, no socket holds more than has arrived, and the
\* group is not empty.
Counted ==
    /\ IsInjective(polled)
    /\ shared # <<>>
    /\ \A s \in Sockets : pending[s] <= arrived

(* The deadline *)

\* One function for each socket.
AllWork == Cardinality(Sockets) * MaxWork

\* The latest time the sockets can begin to be collected.
Begin == IF expired THEN timeout + 3 * MaxWork + AllWork ELSE timeout

\* The functions of the sockets passed so far.
Worked == (Cardinality(Sockets) - Len(polled)) * MaxWork

\* No stage takes longer than its bound, and zmq_poll no longer than the
\* collection did.
Stage ==
    /\ lap <= MaxWork
    /\ pc = "poll" => lap <= remaining /\ remaining <= MaxWork

\* The time in each stage.
Timed ==
    timeout # Indefinite =>
        /\ pc = "update" => now <= timeout + 2 * MaxWork + AllWork + lap
        /\ pc = "collect" => now <= Begin + lap
        /\ pc = "poll" => now <= Begin + MaxWork + lap
        /\ pc = "pass" => now <= Begin + 2 * MaxWork + Worked
        /\ pc = "function" => now <= Begin + 2 * MaxWork + Worked + lap
        /\ pc = "return" => now <= Begin + 2 * MaxWork + AllWork

WalkInv == TypeOK /\ Scope /\ Collecting /\ Walking /\ Counted /\ OwnSocket

GroupInv == WalkInv /\ Stage /\ Timed

-----------------------------------------------------------------------------
(* Counting *)

\* There are finitely many sockets.
LEMMA SocketsFinite ==
    /\ IsFiniteSet(Sockets) /\ Cardinality(Sockets) \in Nat
    /\ Cardinality(Receivers) \in Nat
<1> DEFINE Of(r) == {<<r, k>> : k \in 1 .. Supplied[r]}
           f == [r \in Receivers |-> Of(r)]
           Images == {Of(r) : r \in Receivers}
<1>1. ASSUME NEW r \in Receivers PROVE IsFiniteSet(Of(r))
    <2> DEFINE g == [k \in 1 .. Supplied[r] |-> <<r, k>>]
    <2>1. g \in Surjection(1 .. Supplied[r], Of(r))
        BY DEF Surjection
    <2>2. IsFiniteSet(1 .. Supplied[r])
        <3>1. 1 \in Int /\ Supplied[r] \in Int
            BY GroupAssumption
        <3> QED
            BY <3>1, FS_Interval
    <2> HIDE DEF g, Of
    <2> QED
        BY <2>1, <2>2, FS_Surjection
<1>2. IsFiniteSet(Images)
    <2>1. f \in Surjection(Receivers, Images)
        BY DEF Surjection
    <2> HIDE DEF f, Images
    <2> QED
        BY <2>1, FS_Surjection, GroupAssumption
<1>3. \A T \in Images : IsFiniteSet(T)
    BY <1>1
<1>4. IsFiniteSet(UNION Images)
    <2> HIDE DEF Images
    <2> QED
        BY <1>2, <1>3, FS_UNION
<1>5. Sockets = UNION Images
    BY DEF Sockets
<1> QED
    BY <1>4, <1>5, FS_CardinalityType, GroupAssumption

\* A sequence without repetition is no longer than what it is made of.
LEMMA NoLonger ==
    ASSUME NEW S, IsFiniteSet(S), NEW q \in Seq(S), IsInjective(q)
    PROVE  Len(q) <= Cardinality(S)
<1>1. q \in Injection(1 .. Len(q), S)
    BY DEF Injection, IsInjective
<1>2. Cardinality(1 .. Len(q)) <= Cardinality(S)
    BY <1>1, FS_Injection
<1>3. Len(q) \in Nat /\ 1 \in Int /\ Len(q) \in Int
    OBVIOUS
<1>4. Cardinality(1 .. Len(q)) = IF 1 > Len(q) THEN 0 ELSE Len(q) - 1 + 1
    BY <1>3, FS_Interval
<1> QED
    BY <1>2, <1>3, <1>4

\* A socket is its owner and a number.
LEMMA SocketOwner ==
    /\ \A s \in Sockets : s[1] \in Receivers
    /\ \A r \in Receivers :
          /\ SocketsOf(r) \in Seq(Sockets)
          /\ Len(SocketsOf(r)) = Supplied[r]
          /\ \A k \in 1 .. Supplied[r] : SocketsOf(r)[k] = <<r, k>>
<1>1. \A s \in Sockets : s[1] \in Receivers
    BY DEF Sockets
<1>2. ASSUME NEW r \in Receivers
      PROVE  /\ SocketsOf(r) \in Seq(Sockets)
             /\ Len(SocketsOf(r)) = Supplied[r]
             /\ \A k \in 1 .. Supplied[r] : SocketsOf(r)[k] = <<r, k>>
    <2>1. Supplied[r] \in Nat
        BY GroupAssumption
    <2>2. \A k \in 1 .. Supplied[r] : <<r, k>> \in Sockets
        BY DEF Sockets
    <2>3. SocketsOf(r) \in [1 .. Supplied[r] -> Sockets]
        BY <2>2 DEF SocketsOf
    <2> QED
        BY <2>1, <2>3 DEF SocketsOf
<1> QED
    BY <1>1, <1>2

-----------------------------------------------------------------------------
(* Cutting the sockets by the intervals *)

\* Nothing is in step with nothing.
LEMMA EmptyCut ==
    ASSUME NEW g, NEW a
    PROVE  \E d : Cuts(d, <<>>, 0, <<>>) /\ Owned(d, <<>>, <<>>, g, a)
<1> DEFINE d == [k \in 0 .. 0 |-> 0]
<1>1. Len(<<>>) = 0
    OBVIOUS
<1>2. Cuts(d, <<>>, 0, <<>>) /\ Owned(d, <<>>, <<>>, g, a)
    BY <1>1 DEF Cuts, Owned
<1> QED
    BY <1>2

\* A member appends its sockets and their number.
LEMMA ExtendCut ==
    ASSUME NEW q \in Seq(Sockets), NEW rest \in Seq(Nat), NEW c, NEW g,
           NEW r \in Receivers, g[Len(rest) + 1] = r,
           Cuts(c, q, 0, rest), Owned(c, q, rest, g, 0)
    PROVE  \E d : /\ Cuts(d, q \o SocketsOf(r), 0, Append(rest, Supplied[r]))
                  /\ Owned(d, q \o SocketsOf(r), Append(rest, Supplied[r]), g, 0)
<1> DEFINE m == Len(rest)
           z == Len(q)
           n == Supplied[r]
           Q == q \o SocketsOf(r)
           R == Append(rest, n)
           d == [k \in 0 .. m + 1 |-> IF k <= m THEN c[k] ELSE z + n]
<1>1. m \in Nat /\ z \in Nat /\ n \in Nat
    BY GroupAssumption
<1>2. /\ Len(R) = m + 1
      /\ \A k \in 1 .. m : R[k] = rest[k]
      /\ R[m + 1] = n
    BY <1>1
<1>3. /\ Len(Q) = z + n
      /\ \A j \in 1 .. z : Q[j] = q[j]
      /\ \A j \in (z + 1) .. (z + n) : Q[j][1] = r
    <2>1. /\ SocketsOf(r) \in Seq(Sockets) /\ Len(SocketsOf(r)) = n
          /\ \A k \in 1 .. n : SocketsOf(r)[k] = <<r, k>>
        BY SocketOwner
    <2>2. \A t \in Seq(Sockets) :
             /\ Len(q \o t) = z + Len(t)
             /\ \A j \in 1 .. z + Len(t) :
                   (q \o t)[j] = IF j <= z THEN q[j] ELSE t[j - z]
        BY ConcatProperties
    <2>3. \A j \in (z + 1) .. (z + n) : j - z \in 1 .. n /\ j \in 1 .. (z + n) /\ ~ (j <= z)
        BY <1>1
    <2>4. \A j \in 1 .. z : j \in 1 .. (z + n) /\ j <= z
        BY <1>1
    <2>5. /\ Len(Q) = z + n
          /\ \A j \in 1 .. (z + n) :
                /\ j <= z => Q[j] = q[j]
                /\ ~ (j <= z) => Q[j] = SocketsOf(r)[j - z]
        BY <2>1, <2>2
    <2> HIDE DEF Q, z, n
    <2> QED
        BY <2>1, <2>3, <2>4, <2>5
<1>4. /\ c \in [0 .. m -> 0 .. z] /\ c[0] = 0 /\ c[m] = z
      /\ \A k \in 1 .. m : c[k] = c[k - 1] + rest[k]
    BY DEF Cuts
<1>5. /\ \A k \in 0 .. m : d[k] = c[k]
      /\ d[m + 1] = z + n
    BY <1>1
<1>6. d \in [0 .. m + 1 -> 0 .. z + n]
    <2>1. \A k \in 0 .. m + 1 : (IF k <= m THEN c[k] ELSE z + n) \in 0 .. z + n
        <3> HIDE DEF m, z, n
        <3>1. ASSUME NEW k \in 0 .. m + 1, k <= m PROVE c[k] \in 0 .. z
            BY <1>1, <1>4, <3>1
        <3> QED
            BY <1>1, <3>1
    <2> QED
        BY <2>1
<1> HIDE DEF d, R, Q, m, z, n
<1>7. Cuts(d, Q, 0, R)
    <2>1. \A k \in 1 .. m + 1 : d[k] = d[k - 1] + R[k]
        <3>1. ASSUME NEW k \in 1 .. m PROVE d[k] = d[k - 1] + R[k]
            <4>1. k \in 0 .. m /\ k - 1 \in 0 .. m
                BY <1>1
            <4> QED
                BY <1>2, <1>4, <1>5, <4>1
        <3>2. ASSUME NEW k, k = m + 1 PROVE d[k] = d[k - 1] + R[k]
            BY <1>1, <1>2, <1>4, <1>5, <3>2
        <3>3. \A k \in 1 .. m + 1 : k \in 1 .. m \/ k = m + 1
            BY <1>1
        <3> QED
            BY <3>1, <3>2, <3>3, Zenon
    <2>2. d[0] = 0 /\ d[Len(R)] = Len(Q)
        BY <1>1, <1>2, <1>3, <1>4, <1>5
    <2> QED
        BY <1>2, <1>3, <1>6, <2>1, <2>2 DEF Cuts
<1>8. Owned(d, Q, R, g, 0)
    <2> SUFFICES ASSUME NEW k \in 0 .. m + 1, NEW j \in 1 .. z + n,
                        k = 0 \/ d[k - 1] < j, j <= d[k]
                 PROVE  Q[j][1] = g[0 + k]
        BY <1>2, <1>3 DEF Owned
    <2>1. CASE k \in 0 .. m
        <3>1. k = 0 \/ c[k - 1] < j
            <4>1. k = 0 \/ k - 1 \in 0 .. m
                BY <1>1, <2>1
            <4> QED
                BY <1>5, <4>1
        <3>2. j <= c[k]
            BY <1>5, <2>1
        <3>3. j \in 1 .. z
            BY <1>1, <1>4, <2>1, <3>2
        <3> QED
            BY <1>3, <2>1, <3>1, <3>2, <3>3 DEF Owned, m, z
    <2>2. CASE k = m + 1
        <3>1. d[k - 1] = z
            BY <1>1, <1>4, <1>5, <2>2
        <3>2. j \in (z + 1) .. (z + n)
            BY <1>1, <2>2, <3>1
        <3> QED
            BY <1>1, <1>3, <2>2, <3>2 DEF m
    <2>3. k \in 0 .. m \/ k = m + 1
        BY <1>1
    <2> QED
        BY <2>1, <2>2, <2>3
<1> QED
    BY <1>7, <1>8 DEF R, Q, n

\* The first interval is taken, with the first member (receiver.cpp 125-127).
LEMMA OpenCut ==
    ASSUME NEW q \in Seq(Sockets), NEW rest \in Seq(Nat), rest # <<>>, NEW c, NEW g,
           Cuts(c, q, 0, rest), Owned(c, q, rest, g, 0)
    PROVE  \E d : /\ Cuts(d, q, Head(rest), Tail(rest))
                  /\ Owned(d, q, Tail(rest), g, 1)
<1> DEFINE m == Len(rest)
           z == Len(q)
           R == Tail(rest)
           d == [k \in 0 .. m - 1 |-> c[k + 1]]
<1>1. m \in Nat /\ z \in Nat /\ m >= 1
    <2>1. m \in Nat /\ z \in Nat /\ m # 0
        BY EmptySeq, LenProperties
    <2> QED
        BY <2>1
<1>2. /\ Len(R) = m - 1 /\ Head(rest) = rest[1]
      /\ \A k \in 1 .. m - 1 : R[k] = rest[k + 1]
    BY HeadTailProperties, <1>1
<1>4. /\ c \in [0 .. m -> 0 .. z] /\ c[0] = 0 /\ c[m] = z
      /\ \A k \in 1 .. m : c[k] = c[k - 1] + rest[k]
    BY DEF Cuts
<1>5. \A k \in 0 .. m - 1 : d[k] = c[k + 1]
    BY <1>1
<1>6. d \in [0 .. m - 1 -> 0 .. z]
    <2>1. \A k \in 0 .. m - 1 : c[k + 1] \in 0 .. z
        BY <1>1, <1>4
    <2> QED
        BY <2>1
<1> HIDE DEF d, R, m, z
<1>7. Cuts(d, q, Head(rest), R)
    <2>1. \A k \in 1 .. m - 1 : d[k] = d[k - 1] + R[k]
        <3>1. ASSUME NEW k \in 1 .. m - 1 PROVE d[k] = d[k - 1] + R[k]
            <4>1. k + 1 \in 1 .. m /\ k \in 0 .. m - 1 /\ k - 1 \in 0 .. m - 1
                  /\ k - 1 + 1 = k /\ k + 1 - 1 = k
                BY <1>1
            <4> QED
                BY <1>2, <1>4, <1>5, <4>1
        <3> QED
            BY <3>1
    <2>2. d[0] = Head(rest) /\ d[m - 1] = z
        <3>1. 0 \in 0 .. m - 1 /\ m - 1 \in 0 .. m - 1 /\ 0 + 1 = 1 /\ m - 1 + 1 = m
              /\ 1 \in 1 .. m /\ 1 - 1 = 0
            BY <1>1
        <3>2. c[1] = c[0] + rest[1] /\ rest[1] \in Nat
            BY <1>4, <3>1 DEF m
        <3> QED
            BY <1>2, <1>4, <1>5, <3>1, <3>2
    <2> QED
        BY <1>2, <1>6, <2>1, <2>2 DEF Cuts, z
<1>8. Owned(d, q, R, g, 1)
    <2> SUFFICES ASSUME NEW k \in 0 .. m - 1, NEW j \in 1 .. z,
                        k = 0 \/ d[k - 1] < j, j <= d[k]
                 PROVE  q[j][1] = g[1 + k]
        BY <1>2 DEF Owned, z
    <2>1. k + 1 \in 0 .. m /\ 1 + k = 0 + (k + 1) /\ k + 1 - 1 = k
          /\ (k # 0 => k - 1 \in 0 .. m - 1 /\ k - 1 + 1 = k)
        BY <1>1
    <2>2. j <= c[k + 1]
        BY <1>5
    <2>3. c[k] < j
        <3>1. CASE k = 0
            BY <1>4, <3>1
        <3>2. CASE k # 0
            BY <1>5, <2>1, <3>2
        <3> QED
            BY <3>1, <3>2
    <2> QED
        BY <2>1, <2>2, <2>3 DEF Owned, m, z
<1> QED
    BY <1>7, <1>8 DEF R

\* Behind the end of a piece that is not empty, every piece ends later.
LEMMA CutsGrow ==
    ASSUME NEW q \in Seq(Sockets), NEW rest \in Seq(Nat), NEW n, NEW c,
           Cuts(c, q, n, rest), NEW i \in 0 .. Len(rest), c[i] >= 1
    PROVE  \A k \in i .. Len(rest) : c[k] >= 1
<1> DEFINE m == Len(rest)
           z == Len(q)
           T == {k \in i .. m : ~ (c[k] >= 1)}
<1>1. m \in Nat /\ z \in Nat /\ i \in Nat /\ i <= m
    OBVIOUS
<1>2. /\ c \in [0 .. m -> 0 .. z]
      /\ \A k \in 1 .. m : c[k] = c[k - 1] + rest[k]
    BY DEF Cuts
<1> SUFFICES ASSUME T # {} PROVE FALSE
    BY <1>1, <1>2
<1>3. PICK x \in T : \A y \in T : x <= y
    <2>1. T \subseteq Nat
        BY <1>1
    <2> HIDE DEF T
    <2> QED
        BY <2>1, LeastNumber
<1>4. x \in i .. m /\ ~ (c[x] >= 1) /\ x # i
    OBVIOUS
<1>5. /\ x \in 1 .. m /\ x - 1 \in i .. m /\ x - 1 \in 0 .. m /\ ~ (x <= x - 1)
      /\ x \in 0 .. m
    <2> HIDE DEF m
    <2> QED
        BY <1>1, <1>4
<1>6. c[x - 1] >= 1
    BY <1>3, <1>5
<1>7. c[x] = c[x - 1] + rest[x] /\ rest[x] \in Nat /\ c[x - 1] \in Nat
    <2>1. rest[x] \in Nat
        BY <1>5
    <2>2. c[x - 1] \in 0 .. z
        BY <1>2, <1>5
    <2>3. c[x] = c[x - 1] + rest[x]
        BY <1>2, <1>5
    <2> QED
        BY <2>1, <2>2, <2>3
<1> QED
    BY <1>4, <1>6, <1>7

\* When the interval is used up, the loop finds the next member that supplied a
\* socket, and the next socket is the first of its piece (receiver.cpp 136-141).
LEMMA SkipFacts ==
    ASSUME NEW q \in Seq(Sockets), q # <<>>, NEW rest \in Seq(Nat), NEW c,
           Cuts(c, q, 0, rest)
    PROVE  LET next == Min({k \in DOMAIN rest : rest[k] > 0})
           IN  next \in 1 .. Len(rest) /\ c[next] = rest[next] /\ rest[next] >= 1
               /\ c[next - 1] = 0
<1> DEFINE m == Len(rest)
           z == Len(q)
           T == {k \in 0 .. m : c[k] >= 1}
           D == {k \in DOMAIN rest : rest[k] > 0}
           next == Min(D)
<1>1. m \in Nat /\ z \in Nat /\ z >= 1 /\ DOMAIN rest = 1 .. m
    <2>1. m \in Nat /\ z \in Nat /\ z # 0 /\ DOMAIN rest = 1 .. m
        BY EmptySeq, LenProperties
    <2> QED
        BY <2>1
<1>2. /\ c \in [0 .. m -> 0 .. z] /\ c[0] = 0 /\ c[m] = z
      /\ \A k \in 1 .. m : c[k] = c[k - 1] + rest[k]
      /\ \A k \in 1 .. m : rest[k] \in Nat
    BY DEF Cuts
<1> HIDE DEF m, z
<1>3. PICK x \in T : \A y \in T : x <= y
    <2>1. m \in T
        BY <1>1, <1>2
    <2>2. T \subseteq Nat
        BY <1>1
    <2> HIDE DEF T
    <2> QED
        BY <2>1, <2>2, LeastNumber
<1>4. \A k \in 0 .. m : k < x => c[k] = 0
    <2> SUFFICES ASSUME NEW k \in 0 .. m, k < x PROVE c[k] = 0
        OBVIOUS
    <2>1. ~ (x <= k)
        BY <1>1
    <2>2. ~ (c[k] >= 1)
        BY <1>3, <2>1
    <2> QED
        BY <1>1, <1>2, <2>2
<1>5. x \in 1 .. m /\ x - 1 \in 0 .. m /\ x - 1 < x
    BY <1>1, <1>2
<1>6. c[x - 1] = 0 /\ c[x] >= 1 /\ c[x] = c[x - 1] + rest[x]
    BY <1>2, <1>4, <1>5
<1>7. x \in D
    BY <1>1, <1>2, <1>5, <1>6
<1>8. next \in D /\ \A y \in D : next <= y
    <2>1. D \subseteq Nat
        BY <1>1
    <2> HIDE DEF D
    <2> QED
        BY <1>7, <2>1, MinFacts
<1>9. next \in 1 .. m /\ rest[next] >= 1 /\ next <= x
    <2>1. next \in 1 .. m /\ rest[next] > 0 /\ next <= x
        BY <1>1, <1>7, <1>8
    <2> HIDE DEF next
    <2> QED
        BY <1>2, <2>1
<1> HIDE DEF next
<1>10. next - 1 \in 0 .. m /\ next - 1 < x
    BY <1>1, <1>5, <1>9
<1>11. c[next - 1] = 0
    BY <1>4, <1>10
<1>12. c[next] = rest[next]
    BY <1>2, <1>9, <1>11
<1> QED
    BY <1>9, <1>11, <1>12 DEF next, m

\* The next socket is taken, i intervals on: it is of the member i places on, and
\* the rest stays in step.
LEMMA NextCut ==
    ASSUME NEW q \in Seq(Sockets), q # <<>>, NEW rest \in Seq(Nat), NEW n, NEW c,
           Cuts(c, q, n, rest), NEW i \in 0 .. Len(rest), c[i] >= 1,
           i = 0 \/ c[i - 1] = 0
    PROVE  \E d :
             /\ Cuts(d, Tail(q), c[i] - 1, SubSeq(rest, i + 1, Len(rest)))
             /\ \A g : \A a \in Nat : Owned(c, q, rest, g, a) =>
                   /\ Owned(d, Tail(q), SubSeq(rest, i + 1, Len(rest)), g, a + i)
                   /\ Head(q)[1] = g[a + i]
<1> DEFINE m == Len(rest)
           z == Len(q)
           Q == Tail(q)
           R == SubSeq(rest, i + 1, m)
           d == [k \in 0 .. m - i |-> c[k + i] - 1]
<1>1. m \in Nat /\ z \in Nat /\ z >= 1 /\ i \in Nat /\ i <= m
    <2>1. m \in Nat /\ z \in Nat /\ z # 0
        BY EmptySeq, LenProperties
    <2> QED
        BY <2>1
<1>2. /\ Len(R) = m - i
      /\ \A k \in 1 .. m - i : R[k] = rest[k + i]
    <2>1. i + 1 \in 1 .. m + 1 /\ m \in i .. m
        <3> HIDE DEF m
        <3> QED
            BY <1>1
    <2>2. /\ Len(R) = IF i + 1 <= m THEN m - (i + 1) + 1 ELSE 0
          /\ \A k \in 1 .. m - (i + 1) + 1 : R[k] = rest[i + 1 + k - 1]
        BY <2>1, SubSeqProperties
    <2>3. m - (i + 1) + 1 = m - i /\ (~ (i + 1 <= m) => m - i = 0)
          /\ \A k \in Nat : i + 1 + k - 1 = k + i
        <3> HIDE DEF m
        <3> QED
            BY <1>1
    <2> HIDE DEF R, m
    <2> QED
        BY <2>2, <2>3
<1>3. /\ Len(Q) = z - 1 /\ Head(q) = q[1]
      /\ \A j \in 1 .. z - 1 : Q[j] = q[j + 1]
    BY HeadTailProperties, <1>1
<1>4. /\ c \in [0 .. m -> 0 .. z] /\ c[m] = z
      /\ \A k \in 1 .. m : c[k] = c[k - 1] + rest[k]
    BY DEF Cuts
<1>5. \A k \in i .. m : c[k] >= 1
    BY CutsGrow
<1>6. \A k \in 1 .. m : rest[k] \in Nat
    OBVIOUS
<1> HIDE DEF m, z, Q, R
<1>7. \A k \in 0 .. m - i : d[k] = c[k + i] - 1
    OBVIOUS
<1>8. d \in [0 .. m - i -> 0 .. z - 1]
    <2>1. ASSUME NEW k \in 0 .. m - i PROVE c[k + i] - 1 \in 0 .. z - 1
        <3>1. k + i \in i .. m /\ k + i \in 0 .. m
            BY <1>1
        <3>2. c[k + i] \in 0 .. z /\ c[k + i] >= 1
            BY <1>4, <1>5, <3>1
        <3> QED
            BY <1>1, <3>2
    <2> QED
        BY <2>1
<1> HIDE DEF d
<1>9. Cuts(d, Q, c[i] - 1, R)
    <2>1. ASSUME NEW k \in 1 .. m - i PROVE d[k] = d[k - 1] + R[k]
        <3>1. k + i \in 1 .. m /\ k \in 0 .. m - i /\ k - 1 \in 0 .. m - i
              /\ k - 1 + i = k + i - 1 /\ k + i - 1 \in 0 .. m /\ k + i \in 0 .. m
            BY <1>1
        <3>2. c[k + i] = c[k + i - 1] + rest[k + i]
            BY <1>4, <3>1
        <3>3. d[k] = c[k + i] - 1 /\ d[k - 1] = c[k + i - 1] - 1 /\ R[k] = rest[k + i]
            BY <1>2, <1>7, <3>1
        <3>4. c[k + i - 1] \in Int /\ rest[k + i] \in Int
            BY <1>1, <1>4, <1>6, <3>1
        <3> QED
            BY <3>2, <3>3, <3>4
    <2>2. d[0] = c[i] - 1
        <3>1. 0 \in 0 .. m - i /\ 0 + i = i
            BY <1>1
        <3> QED
            BY <1>7, <3>1
    <2>3. d[m - i] = z - 1
        <3>1. m - i \in 0 .. m - i /\ m - i + i = m
            BY <1>1
        <3> QED
            BY <1>4, <1>7, <3>1
    <2> QED
        BY <1>2, <1>3, <1>8, <2>1, <2>2, <2>3 DEF Cuts
<1>10. ASSUME NEW g, NEW a \in Nat, Owned(c, q, rest, g, a)
       PROVE  Owned(d, Q, R, g, a + i) /\ Head(q)[1] = g[a + i]
    <2>0. \A k \in 0 .. m, j \in 1 .. z :
             (k = 0 \/ c[k - 1] < j) /\ j <= c[k] => q[j][1] = g[a + k]
        BY <1>10 DEF Owned, m, z
    <2>1. Head(q)[1] = g[a + i]
        <3>1. i \in 0 .. m /\ 1 \in 1 .. z /\ 1 <= c[i] /\ (i = 0 \/ c[i - 1] < 1)
            <4>1. i \in 0 .. m /\ 1 \in 1 .. z /\ (i # 0 => i - 1 \in 0 .. m)
                BY <1>1
            <4> QED
                BY <1>4, <4>1
        <3> QED
            BY <1>3, <2>0, <3>1
    <2>2. ASSUME NEW k \in 0 .. m - i, NEW j \in 1 .. z - 1,
                 k = 0 \/ d[k - 1] < j, j <= d[k]
          PROVE  Q[j][1] = g[a + i + k]
        <3>1. k + i \in 0 .. m /\ j + 1 \in 1 .. z /\ a + (k + i) = a + i + k
              /\ j \in Int
            BY <1>1
        <3>2. j + 1 <= c[k + i]
            <4>1. c[k + i] \in Int
                BY <1>1, <1>4, <3>1
            <4> QED
                BY <1>7, <2>2, <3>1, <4>1
        <3>3. k + i = 0 \/ c[k + i - 1] < j + 1
            <4>1. CASE k = 0
                <5>1. i = 0 \/ c[i - 1] < j + 1
                    BY <3>1
                <5>2. 0 + i = i
                    BY <1>1
                <5> QED
                    BY <4>1, <5>1, <5>2
            <4>2. CASE k # 0
                <5>1. k - 1 \in 0 .. m - i /\ k - 1 + i = k + i - 1 /\ k + i - 1 \in 0 .. m
                    BY <1>1, <4>2
                <5>2. d[k - 1] = c[k + i - 1] - 1 /\ c[k + i - 1] \in Int
                    <6>1. d[k - 1] = c[k - 1 + i] - 1
                        BY <1>7, <5>1
                    <6>2. c[k + i - 1] \in 0 .. z
                        BY <1>4, <5>1
                    <6> QED
                        BY <1>1, <5>1, <6>1, <6>2
                <5> QED
                    BY <2>2, <3>1, <4>2, <5>2
            <4> QED
                BY <4>1, <4>2
        <3>4. q[j + 1][1] = g[a + (k + i)]
            BY <2>0, <3>1, <3>2, <3>3
        <3> QED
            BY <1>3, <3>1, <3>4
    <2>3. Owned(d, Q, R, g, a + i)
        BY <1>2, <1>3, <2>2 DEF Owned
    <2> QED
        BY <2>1, <2>3
<1> QED
    BY <1>9, <1>10 DEF Q, R, m

-----------------------------------------------------------------------------
(* The walk, step by step *)

MemberTypes ==
    /\ IsInjective(shared) /\ shared \in Seq(Receivers) /\ tail \in Seq(Receivers)
    /\ dangling \in BOOLEAN /\ changed \in BOOLEAN
    /\ changes \in 0 .. MaxChanges

QueueTypes ==
    /\ pending \in [Sockets -> 0 .. MaxMessages]
    /\ arrived \in 0 .. MaxMessages /\ threw \in 0 .. MaxThrows

CallTypes ==
    /\ pc \in PC
    /\ timeout \in Timeouts \cup {0}
    /\ now \in Nat /\ lap \in 0 .. (now + MaxWork)
    /\ expired \in BOOLEAN
    /\ remaining \in Nat
    /\ hadData \in BOOLEAN

PassTypes ==
    /\ polled \in Seq(Sockets) /\ signalled \in SUBSET Sockets
    /\ intervals \in Seq(Nat) /\ interval \in Nat
    /\ at \in 1 .. (Cardinality(Receivers) + 1)
    /\ callee \in Receivers \cup {Garbage}

Walk == Scope /\ Collecting /\ Walking /\ OwnSocket

\* The invariant is its parts.
LEMMA Parts ==
    GroupInv <=> /\ MemberTypes /\ QueueTypes /\ CallTypes /\ PassTypes
                 /\ Walk /\ Counted /\ Stage /\ Timed
BY DEF GroupInv, WalkInv, TypeOK, MemberTypes, QueueTypes, CallTypes, PassTypes, Walk

\* Also after a step.
LEMMA PartsNext ==
    MemberTypes' /\ QueueTypes' /\ CallTypes' /\ PassTypes'
    /\ Walk' /\ Counted' /\ Stage' /\ Timed' => GroupInv'
BY DEF GroupInv, WalkInv, TypeOK, MemberTypes, QueueTypes, CallTypes, PassTypes, Walk

\* A step that leaves the pass alone.
LEMMA QuietWalk ==
    ASSUME Walk, UNCHANGED <<shared, changed, dangling, passVars, pc>>
    PROVE  Walk'
<1>1. UNCHANGED <<shared, changed, dangling, polled, intervals, interval, at, callee, pc>>
    BY DEF passVars
<1>2. Scope' /\ OwnSocket'
    BY <1>1 DEF Walk, Scope, OwnSocket
<1>3. \A q, n, rest, a : InStep(q, n, rest, a) => InStep(q, n, rest, a)'
    BY <1>1 DEF InStep
<1>4. Collecting'
    BY <1>1, <1>3 DEF Walk, Collecting
<1>5. Walking'
    BY <1>1, <1>3 DEF Walk, Walking
<1> QED
    BY <1>2, <1>4, <1>5 DEF Walk

\* No pass is running.
LEMMA OutsideWalk ==
    ASSUME polled' = <<>>, intervals' = <<>>, interval' = 0, at' = 1,
           ~ changed', ~ dangling', pc' \in {"idle", "update", "return"}
    PROVE  Walk'
BY DEF Walk, Scope, Collecting, Walking, OwnSocket

\* The group changes between two calls, or under a pass, which then no longer
\* says whose sockets are whose.
LEMMA ChangeWalk ==
    ASSUME Walk, pc \in {"idle", "function"}, UNCHANGED <<passVars, pc>>,
           dangling' \in BOOLEAN, pc = "idle" => ~ dangling',
           changed' = (pc = "function")
    PROVE  Walk'
<1>1. UNCHANGED <<polled, intervals, interval, at, callee, pc>>
    BY DEF passVars
<1>2. CASE pc = "idle"
    <2>1. ~ changed' /\ ~ dangling' /\ pc' \in {"idle", "update", "return"}
        BY <1>1, <1>2
    <2>2. polled' = <<>> /\ intervals' = <<>> /\ interval' = 0 /\ at' = 1
        BY <1>1, <1>2 DEF Walk, Scope
    <2> QED
        BY <2>1, <2>2, OutsideWalk
<1>3. CASE pc = "function"
    <2>1. changed' = TRUE
        BY <1>3
    <2>2. Scope' /\ OwnSocket' /\ Collecting'
        BY <1>1, <1>3, <2>1 DEF Walk, Scope, OwnSocket, Collecting
    <2>3. \A q, n, rest, a : InStep(q, n, rest, a) => InStep(q, n, rest, a)'
        BY <2>1 DEF InStep
    <2>4. Walking'
        BY <1>1, <1>3, <2>1, <2>3 DEF Walk, Walking
    <2> QED
        BY <2>2, <2>4 DEF Walk
<1> QED
    BY <1>2, <1>3

\* A cut shows that the lists are in step.
LEMMA CutInStepNext ==
    ASSUME NEW q, NEW n, NEW rest, NEW a, NEW d, Cuts(d, q, n, rest),
           ~ changed' => Owned(d, q, rest, shared', a)
    PROVE  InStep(q, n, rest, a)'
BY DEF InStep, Cuts

\* _receive is entered.
LEMMA UpdateWalk ==
    ASSUME GroupInv, Update
    PROVE  Walk'
<1>1. /\ UNCHANGED <<shared, changed, dangling, polled, intervals, interval, at>>
      /\ pc = "update" /\ pc' = "collect"
    BY DEF Update, groupVars, passVars
<1>2. /\ polled' = <<>> /\ intervals' = <<>> /\ interval' = 0 /\ at' = 1
      /\ ~ changed' /\ ~ dangling'
    BY <1>1, Parts DEF Walk, Scope
<1>3. InStep(<<>>, 0, <<>>, 0)'
    <2>1. PICK d : Cuts(d, <<>>, 0, <<>>) /\ Owned(d, <<>>, <<>>, shared', 0)
        BY EmptyCut
    <2> QED
        BY <2>1, CutInStepNext
<1>4. Scope' /\ Walking' /\ OwnSocket'
    BY <1>1, <1>2 DEF Scope, Walking, OwnSocket
<1>5. Collecting'
    <2>1. Len(intervals') = 0 /\ DOMAIN polled' = {} /\ Len(shared') \in Nat
        <3>1. \A q : q = <<>> => Len(q) = 0 /\ DOMAIN q = {}
            OBVIOUS
        <3>2. Len(shared) \in Nat
            BY Parts DEF MemberTypes
        <3> QED
            BY <1>1, <1>2, <3>1, <3>2, Zenon
    <2>2. InStep(polled, 0, intervals, 0)'
        BY <1>2, <1>3 DEF InStep
    <2>3. 0 <= Len(shared')
        BY <2>1
    <2> QED
        BY <1>1, <2>1, <2>2, <2>3 DEF Collecting
<1> QED
    BY <1>4, <1>5 DEF Walk

\* A member appends its sockets.
LEMMA AddSocketsWalk ==
    ASSUME GroupInv, AddSockets
    PROVE  Walk' /\ PassTypes' /\ IsInjective(polled')
<1> DEFINE m == Len(intervals)
           r == shared[m + 1]
           t == SocketsOf(r)
<1>0. MemberTypes /\ PassTypes /\ Walk /\ Counted
    BY Parts
<1>1. /\ UNCHANGED <<shared, changed, dangling, signalled, interval, at, callee, pc>>
      /\ pc = "collect" /\ m # Len(shared)
      /\ polled' = polled \o t
      /\ intervals' = Append(intervals, Supplied[r])
    BY DEF AddSockets, groupVars, Collected
<1>2. /\ InStep(polled, 0, intervals, 0) /\ m <= Len(shared)
      /\ \A j \in DOMAIN polled : \E i \in 1 .. m : polled[j][1] = shared[i]
      /\ interval = 0 /\ at = 1 /\ ~ changed /\ ~ dangling
    BY <1>0, <1>1 DEF Walk, Collecting, Scope
<1>3. m \in Nat /\ Len(shared) \in Nat /\ Len(polled) \in Nat
      /\ DOMAIN shared = 1 .. Len(shared) /\ DOMAIN polled = 1 .. Len(polled)
    BY <1>0 DEF MemberTypes, PassTypes
<1>4. m + 1 \in 1 .. Len(shared)
    BY <1>1, <1>2, <1>3
<1>5. r \in Receivers /\ Supplied[r] \in Nat
    <2>1. r \in Receivers
        BY <1>0, <1>4 DEF MemberTypes
    <2> HIDE DEF r
    <2> QED
        BY <2>1, GroupAssumption
<1> HIDE DEF r
<1>6. /\ t \in Seq(Sockets) /\ Len(t) = Supplied[r]
      /\ \A k \in 1 .. Supplied[r] : t[k] = <<r, k>>
    BY <1>5, SocketOwner
<1> HIDE DEF t
<1>7. /\ polled' \in Seq(Sockets) /\ Len(polled') = Len(polled) + Len(t)
      /\ \A j \in 1 .. Len(polled) + Len(t) :
            /\ j <= Len(polled) => polled'[j] = polled[j]
            /\ ~ (j <= Len(polled)) => polled'[j] = t[j - Len(polled)]
    <2>1. polled \in Seq(Sockets)
        BY <1>0 DEF PassTypes
    <2> QED
        BY <1>1, <1>6, <2>1, ConcatProperties
<1>8. intervals' \in Seq(Nat) /\ Len(intervals') = m + 1
    BY <1>0, <1>1, <1>5 DEF PassTypes
<1>9. PassTypes'
    BY <1>0, <1>1, <1>7, <1>8 DEF PassTypes
<1> HIDE DEF m
<1>10. \A j \in 1 .. Len(polled') :
          \/ /\ j \in 1 .. Len(polled) /\ polled'[j] = polled[j]
             /\ \E i \in 1 .. m : polled'[j][1] = shared[i]
          \/ /\ j - Len(polled) \in 1 .. Supplied[r]
             /\ polled'[j] = <<r, j - Len(polled)>>
    <2> SUFFICES ASSUME NEW j \in 1 .. Len(polled')
                 PROVE  \/ /\ j \in 1 .. Len(polled) /\ polled'[j] = polled[j]
                           /\ \E i \in 1 .. m : polled'[j][1] = shared[i]
                        \/ /\ j - Len(polled) \in 1 .. Supplied[r]
                           /\ polled'[j] = <<r, j - Len(polled)>>
        OBVIOUS
    <2>1. j \in 1 .. Len(polled) + Len(t)
        BY <1>7
    <2>2. CASE j <= Len(polled)
        <3>1. j \in 1 .. Len(polled)
            BY <1>3, <1>5, <1>6, <2>1, <2>2
        <3> QED
            BY <1>2, <1>3, <1>7, <2>1, <2>2, <3>1
    <2>3. CASE ~ (j <= Len(polled))
        <3>1. j - Len(polled) \in 1 .. Supplied[r]
            BY <1>3, <1>5, <1>6, <2>1, <2>3
        <3> QED
            BY <1>6, <1>7, <2>1, <2>3, <3>1
    <2> QED
        BY <2>2, <2>3
<1>11. \A i \in 1 .. m : shared[i] # r
    <2>1. \A i \in 1 .. m : i \in 1 .. Len(shared) /\ i # m + 1
        BY <1>3, <1>4
    <2> QED
        BY <1>0, <1>3, <1>4, <2>1 DEF MemberTypes, IsInjective, r
<1>12. IsInjective(polled')
    <2>1. DOMAIN polled' = 1 .. Len(polled')
        BY <1>7
    <2> SUFFICES ASSUME NEW j \in 1 .. Len(polled'), NEW k \in 1 .. Len(polled'),
                        polled'[j] = polled'[k]
                 PROVE  j = k
        BY <2>1 DEF IsInjective
    <2>2. \A x, y : <<x, y>>[1] = x /\ <<x, y>>[2] = y
        OBVIOUS
    <2>3. CASE j \in 1 .. Len(polled) /\ k \in 1 .. Len(polled)
        <3>1. polled[j] = polled[k]
            BY <1>3, <1>7, <2>3
        <3> QED
            BY <1>0, <1>3, <2>3, <3>1 DEF Counted, IsInjective
    <2>4. CASE ~ (j \in 1 .. Len(polled)) /\ ~ (k \in 1 .. Len(polled))
        <3>1. \A x \in 1 .. Len(polled') :
                 ~ (x \in 1 .. Len(polled)) => polled'[x][2] = x - Len(polled)
            BY <1>10
        <3>2. j - Len(polled) = k - Len(polled)
            BY <2>4, <3>1
        <3> QED
            BY <1>3, <3>2
    <2>5. CASE j \in 1 .. Len(polled) /\ ~ (k \in 1 .. Len(polled))
        <3>1. polled'[k][1] = r
            BY <1>10, <2>5, <2>2
        <3>2. \E i \in 1 .. m : polled'[j][1] = shared[i]
            <4>1. polled'[j] = polled[j]
                BY <1>3, <1>6, <1>7, <2>5
            <4> QED
                BY <1>2, <1>3, <2>5, <4>1
        <3> QED
            BY <1>11, <3>1, <3>2
    <2>6. CASE ~ (j \in 1 .. Len(polled)) /\ k \in 1 .. Len(polled)
        <3>1. polled'[j][1] = r
            BY <1>10, <2>6, <2>2
        <3>2. \E i \in 1 .. m : polled'[k][1] = shared[i]
            <4>1. polled'[k] = polled[k]
                BY <1>3, <1>6, <1>7, <2>6
            <4> QED
                BY <1>2, <1>3, <2>6, <4>1
        <3> QED
            BY <1>11, <3>1, <3>2
    <2> QED
        BY <2>3, <2>4, <2>5, <2>6
<1>13. InStep(polled, 0, intervals, 0)'
    <2>1. PICK c : Cuts(c, polled, 0, intervals) /\ Owned(c, polled, intervals, shared, 0)
        BY <1>2 DEF InStep
    <2>2. PICK d : /\ Cuts(d, polled \o SocketsOf(r), 0, Append(intervals, Supplied[r]))
                   /\ Owned(d, polled \o SocketsOf(r), Append(intervals, Supplied[r]),
                            shared, 0)
        <3>1. polled \in Seq(Sockets) /\ intervals \in Seq(Nat)
            BY <1>0 DEF PassTypes
        <3>2. shared[Len(intervals) + 1] = r
            BY DEF r, m
        <3> QED
            BY <1>5, <2>1, <3>1, <3>2, ExtendCut
    <2>3. Cuts(d, polled', 0, intervals') /\ Owned(d, polled', intervals', shared', 0)
        BY <1>1, <2>2 DEF t
    <2> QED
        BY <2>3 DEF InStep, Cuts
<1>14. Collecting'
    <2>1. \A j \in DOMAIN polled' : \E i \in 1 .. m + 1 : polled'[j][1] = shared[i]
        <3> SUFFICES ASSUME NEW j \in 1 .. Len(polled')
                     PROVE  \E i \in 1 .. m + 1 : polled'[j][1] = shared[i]
            BY <1>7
        <3>1. \A i \in 1 .. m : i \in 1 .. m + 1
            BY <1>3
        <3>2. m + 1 \in 1 .. m + 1
            BY <1>3
        <3>3. \A k : <<r, k>>[1] = shared[m + 1]
            BY DEF r
        <3> QED
            BY <1>10, <3>1, <3>2, <3>3
    <2>2. m + 1 <= Len(shared)
        BY <1>3, <1>4
    <2> QED
        BY <1>1, <1>8, <1>13, <2>1, <2>2 DEF Collecting
<1>15. Scope' /\ Walking' /\ OwnSocket'
    BY <1>1, <1>2 DEF Scope, Walking, OwnSocket
<1> QED
    BY <1>9, <1>12, <1>14, <1>15 DEF Walk

\* zmq_poll has found a message: the pass begins.
LEMMA PollEventsWalk ==
    ASSUME GroupInv, PollEvents
    PROVE  Walk' /\ PassTypes' /\ polled' = polled
<1>0. MemberTypes /\ PassTypes /\ Walk /\ Counted
    BY Parts
<1>1. /\ UNCHANGED <<shared, changed, dangling, callee, polled>>
      /\ pc = "poll" /\ pc' = "pass"
      /\ signalled' = Ready /\ at' = 1
      /\ interval' = Head(intervals) /\ intervals' = Tail(intervals)
    BY DEF PollEvents, groupVars
<1>2. /\ InStep(polled, 0, intervals, 0) /\ Len(intervals) = Len(shared)
      /\ ~ changed /\ ~ dangling
    BY <1>0, <1>1 DEF Walk, Collecting, Scope
<1>3. intervals # <<>> /\ Len(shared) \in Nat /\ Len(shared) # 0
    <2>1. Len(shared) \in Nat /\ Len(shared) # 0
        BY <1>0, EmptySeq, LenProperties DEF MemberTypes, Counted
    <2>2. \A q : q = <<>> => Len(q) = 0
        OBVIOUS
    <2> QED
        BY <1>2, <2>1, <2>2, Zenon
<1>4. /\ interval' \in Nat /\ intervals' \in Seq(Nat)
      /\ Len(intervals') = Len(shared) - 1
    <2>1. intervals \in Seq(Nat)
        BY <1>0 DEF PassTypes
    <2> QED
        BY <1>1, <1>2, <1>3, <2>1, HeadTailProperties
<1>5. PassTypes'
    <2>1. Ready \subseteq Sockets
        BY <1>0 DEF Ready, Range, PassTypes
    <2>2. 1 \in 1 .. (Cardinality(Receivers) + 1)
        BY SocketsFinite
    <2> QED
        BY <1>0, <1>1, <1>4, <2>1, <2>2 DEF PassTypes
<1>6. Len(shared) <= Cardinality(Receivers)
    BY <1>0, NoLonger, GroupAssumption DEF MemberTypes
<1>7. InStep(polled, interval, intervals, at)'
    <2>1. PICK c : Cuts(c, polled, 0, intervals) /\ Owned(c, polled, intervals, shared, 0)
        BY <1>2 DEF InStep
    <2>2. PICK d : /\ Cuts(d, polled, Head(intervals), Tail(intervals))
                   /\ Owned(d, polled, Tail(intervals), shared, 1)
        <3>1. polled \in Seq(Sockets) /\ intervals \in Seq(Nat)
            BY <1>0 DEF PassTypes
        <3> QED
            BY <1>3, <2>1, <3>1, OpenCut
    <2>3. /\ Cuts(d, polled', interval', intervals')
          /\ Owned(d, polled', intervals', shared', at')
        BY <1>1, <2>2
    <2> QED
        BY <2>3 DEF InStep, Cuts
<1>8. Walking'
    <2>1. 1 + Len(intervals') = Len(shared)
        BY <1>3, <1>4
    <2> QED
        BY <1>1, <1>3, <1>6, <1>7, <2>1, SocketsFinite DEF Walking
<1>9. Scope' /\ Collecting' /\ OwnSocket'
    BY <1>1, <1>2 DEF Scope, Collecting, OwnSocket
<1> QED
    BY <1>1, <1>5, <1>8, <1>9 DEF Walk

\* The position the loop of _receive finds for the next socket.
LEMMA FoundFacts ==
    ASSUME GroupInv, pc = "pass", polled # <<>>
    PROVE  /\ Found.skip \in 0 .. Len(intervals) /\ Found.left \in Nat
           /\ \E d : LET rest == SubSeq(intervals, Found.skip + 1, Len(intervals))
                     IN  /\ Cuts(d, Tail(polled), Found.left, rest)
                         /\ ~ changed =>
                              /\ Owned(d, Tail(polled), rest, shared, at + Found.skip)
                              /\ Head(polled)[1] = shared[at + Found.skip]
<1> DEFINE next == Min({k \in DOMAIN intervals : intervals[k] > 0})
           i == Found.skip
<1>0. PassTypes /\ Walk
    BY Parts
<1>1. /\ polled \in Seq(Sockets) /\ intervals \in Seq(Nat) /\ interval \in Nat
      /\ at \in Nat
    BY <1>0, SocketsFinite DEF PassTypes
<1>2. PICK c : /\ Cuts(c, polled, interval, intervals)
               /\ ~ changed => Owned(c, polled, intervals, shared, at)
    BY <1>0 DEF Walk, Walking, InStep
<1>3. c[0] = interval
    BY <1>2 DEF Cuts
<1>4. /\ i \in 0 .. Len(intervals) /\ c[i] >= 1 /\ Found.left = c[i] - 1
      /\ Found.left \in Nat /\ (i = 0 \/ c[i - 1] = 0)
    <2>1. CASE interval > 0
        <3>1. Found.skip = 0 /\ Found.left = interval - 1
            BY <2>1 DEF Found
        <3>2. 0 \in 0 .. Len(intervals)
            BY <1>1
        <3> QED
            BY <1>1, <1>3, <2>1, <3>1, <3>2
    <2>2. CASE ~ (interval > 0)
        <3>1. Found.skip = next /\ Found.left = intervals[next] - 1
            BY <2>2 DEF Found
        <3>2. interval = 0
            BY <1>1, <2>2
        <3>3. next \in 1 .. Len(intervals) /\ c[next] = intervals[next]
              /\ intervals[next] >= 1 /\ c[next - 1] = 0
            <4>1. Cuts(c, polled, 0, intervals)
                BY <1>2, <3>2
            <4> QED
                BY <1>1, <4>1, SkipFacts
        <3> HIDE DEF next
        <3>4. intervals[next] \in Nat /\ next \in 0 .. Len(intervals)
            BY <1>1, <3>3
        <3> QED
            BY <3>1, <3>3, <3>4
    <2> QED
        BY <2>1, <2>2
<1> HIDE DEF i
<1>5. PICK d : /\ Cuts(d, Tail(polled), c[i] - 1,
                       SubSeq(intervals, i + 1, Len(intervals)))
               /\ \A g : \A a \in Nat : Owned(c, polled, intervals, g, a) =>
                     /\ Owned(d, Tail(polled), SubSeq(intervals, i + 1, Len(intervals)),
                              g, a + i)
                     /\ Head(polled)[1] = g[a + i]
    BY <1>1, <1>2, <1>4, NextCut
<1>6. ~ changed =>
        /\ Owned(d, Tail(polled), SubSeq(intervals, i + 1, Len(intervals)), shared, at + i)
        /\ Head(polled)[1] = shared[at + i]
    BY <1>1, <1>2, <1>5
<1>7. Cuts(d, Tail(polled), Found.left, SubSeq(intervals, i + 1, Len(intervals)))
    BY <1>4, <1>5
<1> QED
    BY <1>4, <1>6, <1>7 DEF i

\* The next socket is reached, and its own member called.
LEMMA NextSocketWalk ==
    ASSUME GroupInv, NextSocket
    PROVE  /\ Walk' /\ PassTypes' /\ IsInjective(polled') /\ Len(polled) <= Cardinality(Sockets)
           /\ pc' \in {"pass", "function"}
<1> DEFINE i == Found.skip
           rest == SubSeq(intervals, i + 1, Len(intervals))
<1>0. MemberTypes /\ PassTypes /\ Walk /\ Counted
    BY Parts
<1>1. /\ UNCHANGED <<shared, tail, changed, dangling, signalled>>
      /\ pc = "pass" /\ polled # <<>>
      /\ at' = at + i /\ interval' = Found.left /\ intervals' = rest
      /\ \/ callee' \in Pointee(at + i) /\ pc' = "function" /\ polled' = polled
         \/ callee' = callee /\ pc' = "pass" /\ polled' = Tail(polled)
    BY DEF NextSocket, groupVars
<1>2. /\ i \in 0 .. Len(intervals) /\ Found.left \in Nat
      /\ \E d : /\ Cuts(d, Tail(polled), Found.left, rest)
                /\ ~ changed =>
                      /\ Owned(d, Tail(polled), rest, shared, at + i)
                      /\ Head(polled)[1] = shared[at + i]
    BY <1>1, FoundFacts
<1>3. /\ at + Len(intervals) <= Cardinality(Receivers)
      /\ ~ changed => at + Len(intervals) <= Len(shared)
      /\ dangling => changed
    BY <1>0, <1>1 DEF Walk, Walking, Scope
<1>4. /\ at \in Nat /\ at >= 1 /\ Len(intervals) \in Nat /\ Len(shared) \in Nat
      /\ Cardinality(Receivers) \in Nat /\ i \in Nat /\ i <= Len(intervals)
      /\ shared \in Seq(Receivers) /\ tail \in Seq(Receivers)
    BY <1>0, <1>2, SocketsFinite DEF PassTypes, MemberTypes
<1>5. rest \in Seq(Nat) /\ Len(rest) = Len(intervals) - i
    <2>1. intervals \in Seq(Nat)
        BY <1>0 DEF PassTypes
    <2>2. i + 1 \in 1 .. Len(intervals) + 1
        <3> HIDE DEF i
        <3> QED
            BY <1>4
    <2>3. /\ rest \in Seq(Nat)
          /\ Len(rest) = IF i + 1 <= Len(intervals) THEN Len(intervals) - (i + 1) + 1 ELSE 0
        <3> HIDE DEF i
        <3>1. Len(intervals) \in i .. Len(intervals)
            BY <1>4
        <3> QED
            BY <2>1, <2>2, <3>1, SubSeqProperties
    <2> HIDE DEF i, rest
    <2> QED
        BY <1>4, <2>3
<1> HIDE DEF i, rest
<1>6. /\ polled \in Seq(Sockets) /\ Tail(polled) \in Seq(Sockets)
      /\ Len(Tail(polled)) = Len(polled) - 1 /\ Len(polled) \in Nat
      /\ \A j \in 1 .. Len(polled) - 1 : Tail(polled)[j] = polled[j + 1]
      /\ \A j \in 1 .. Len(polled) - 1 : j + 1 \in 1 .. Len(polled)
    BY <1>0, <1>1, HeadTailProperties DEF PassTypes
<1>7. IsInjective(polled')
    <2>1. IsInjective(Tail(polled))
        <3> SUFFICES ASSUME NEW j \in 1 .. Len(polled) - 1, NEW k \in 1 .. Len(polled) - 1,
                            Tail(polled)[j] = Tail(polled)[k]
                     PROVE  j = k
            BY <1>6 DEF IsInjective
        <3>1. polled[j + 1] = polled[k + 1]
            BY <1>6
        <3>2. j + 1 = k + 1
            BY <1>0, <1>6, <3>1 DEF Counted, IsInjective
        <3> QED
            BY <3>2
    <2> QED
        BY <1>0, <1>1, <2>1 DEF Counted
<1>8. at + i \in 1 .. Cardinality(Receivers) /\ (~ changed => at + i \in 1 .. Len(shared))
    BY <1>3, <1>4
<1>9. /\ Pointee(at + i) \subseteq Receivers \cup {Garbage}
      /\ ~ changed => Pointee(at + i) = {shared[at + i]}
    <2> DEFINE cells == shared \o tail
    <2>1. /\ cells \in Seq(Receivers) /\ Len(cells) = Len(shared) + Len(tail)
          /\ \A p \in 1 .. Len(shared) : p \in 1 .. Len(shared) + Len(tail)
          /\ \A p \in 1 .. Len(shared) : cells[p] = shared[p]
        BY <1>4, ConcatProperties
    <2>2. DOMAIN cells = 1 .. Len(cells)
        BY <2>1
    <2>3. \A p \in DOMAIN cells : cells[p] \in Receivers
        BY <2>1
    <2> HIDE DEF cells
    <2>4. /\ dangling => Pointee(at + i) = Receivers \cup {Garbage}
          /\ ~ dangling /\ at + i \in DOMAIN cells => Pointee(at + i) = {cells[at + i]}
          /\ ~ dangling /\ at + i \notin DOMAIN cells => Pointee(at + i) = {Garbage}
        BY DEF Pointee, cells
    <2>5. ~ changed => /\ at + i \in DOMAIN cells /\ cells[at + i] = shared[at + i]
                       /\ ~ dangling
        BY <1>3, <1>8, <2>1, <2>2
    <2> QED
        BY <2>3, <2>4, <2>5
<1>10. PassTypes'
    <2>1. at + i \in 1 .. (Cardinality(Receivers) + 1)
        BY <1>4, <1>8
    <2>2. callee' \in Receivers \cup {Garbage}
        BY <1>0, <1>1, <1>9 DEF PassTypes
    <2>3. polled' \in Seq(Sockets)
        BY <1>1, <1>6
    <2> QED
        BY <1>0, <1>1, <1>2, <1>5, <2>1, <2>2, <2>3 DEF PassTypes
<1>11. \E d \in [0 .. Len(intervals') -> 0 .. Len(Tail(polled))] :
          /\ Cuts(d, Tail(polled), interval', intervals')
          /\ ~ changed' => Owned(d, Tail(polled), intervals', shared', at')
    <2>1. PICK d : /\ Cuts(d, Tail(polled), Found.left, rest)
                   /\ ~ changed => Owned(d, Tail(polled), rest, shared, at + i)
        BY <1>2
    <2>2. /\ Cuts(d, Tail(polled), interval', intervals')
          /\ ~ changed' => Owned(d, Tail(polled), intervals', shared', at')
        BY <1>1, <2>1
    <2> QED
        BY <2>2 DEF Cuts
<1>12. Walking'
    <2>1. /\ pc' = "pass" => InStep(polled, interval, intervals, at)'
          /\ pc' = "function" => polled' # <<>> /\ InStep(Tail(polled), interval, intervals, at)'
        BY <1>1, <1>11 DEF InStep
    <2>2. at + i + Len(rest) = at + Len(intervals)
        BY <1>4, <1>5
    <2> QED
        BY <1>1, <1>3, <2>1, <2>2 DEF Walking
<1>13. OwnSocket'
    <2> SUFFICES ASSUME pc' = "function", ~ changed' PROVE callee' = Head(polled')[1]
        BY DEF OwnSocket
    <2>1. ~ changed /\ polled' = polled /\ callee' \in Pointee(at + i)
        BY <1>1
    <2> QED
        BY <1>2, <1>9, <2>1
<1>14. Scope' /\ Collecting'
    BY <1>1, <1>3 DEF Scope, Collecting
<1>15. Len(polled) <= Cardinality(Sockets)
    BY <1>0, <1>6, NoLonger, SocketsFinite DEF Counted
<1> QED
    BY <1>1, <1>7, <1>10, <1>12, <1>13, <1>14, <1>15 DEF Walk

-----------------------------------------------------------------------------
(* The deadline, step by step *)

\* The bounds of time are numbers.
LEMMA WorkTypes == MaxWork \in Nat /\ AllWork \in Nat
BY SocketsFinite, GroupAssumption DEF AllWork

\* The functions still to come are some of all.
LEMMA WorkedFacts ==
    ASSUME NEW n \in Nat, NEW w \in Nat, NEW l \in Nat, l <= n
    PROVE  /\ (n - l) * w \in Nat /\ (n - l) * w <= n * w
           /\ l >= 1 => (n - (l - 1)) * w = (n - l) * w + w
<1> DEFINE m == n - l
<1>1. m \in Nat /\ n = m + l /\ n - (l - 1) = m + 1
    OBVIOUS
<1> HIDE DEF m
<1>2. m * w \in Nat /\ l * w \in Nat
    BY <1>1
<1>3. (m + l) * w = m * w + l * w /\ (m + 1) * w = m * w + w
    BY <1>1
<1> QED
    BY <1>1, <1>2, <1>3 DEF m

\* In any state.
LEMMA TimeFacts ==
    ASSUME GroupInv
    PROVE  /\ Worked \in Nat /\ Worked <= AllWork
           /\ timeout # Indefinite => timeout \in Nat /\ Begin \in Nat
           /\ timeout # Indefinite /\ ~ expired => Begin = timeout
           /\ timeout # Indefinite /\ expired => Begin = timeout + 3 * MaxWork + AllWork
           /\ now \in Nat /\ lap \in Nat /\ remaining \in Nat
<1>0. PassTypes /\ CallTypes /\ Counted
    BY Parts
<1>1. Worked \in Nat /\ Worked <= AllWork
    <2>1. Len(polled) <= Cardinality(Sockets) /\ Len(polled) \in Nat
        BY <1>0, NoLonger, SocketsFinite DEF PassTypes, Counted
    <2> QED
        BY <2>1, SocketsFinite, WorkedFacts, GroupAssumption DEF Worked, AllWork
<1>2. /\ timeout # Indefinite => timeout \in Nat
      /\ now \in Nat /\ lap \in Nat /\ remaining \in Nat /\ expired \in BOOLEAN
    BY <1>0, GroupAssumption DEF CallTypes
<1>3. /\ expired => Begin = timeout + 3 * MaxWork + AllWork
      /\ ~ expired => Begin = timeout
    BY DEF Begin
<1>4. timeout # Indefinite => Begin \in Nat
    BY <1>2, <1>3, WorkTypes
<1> QED
    BY <1>1, <1>2, <1>3, <1>4

\* Passing one socket makes room for one more function.
LEMMA TailWorked ==
    ASSUME GroupInv, polled # <<>>, polled' = Tail(polled)
    PROVE  Worked' = Worked + MaxWork
<1>0. PassTypes /\ Counted
    BY Parts
<1>1. Len(polled) \in Nat /\ Len(polled) >= 1 /\ Len(polled') = Len(polled) - 1
    <2>1. polled \in Seq(Sockets)
        BY <1>0 DEF PassTypes
    <2>2. Len(polled) \in Nat /\ Len(polled) # 0 /\ Len(Tail(polled)) = Len(polled) - 1
        BY <2>1, EmptySeq, LenProperties, HeadTailProperties
    <2> QED
        BY <2>2
<1>2. Len(polled) <= Cardinality(Sockets)
    BY <1>0, NoLonger, SocketsFinite DEF PassTypes, Counted
<1> QED
    BY <1>1, <1>2, SocketsFinite, WorkedFacts, GroupAssumption DEF Worked

\* The call has ended.
LEMMA RestTime ==
    ASSUME GroupInv, now' = 0, lap' = 0, timeout' = 0, expired' = FALSE, pc' = "idle"
    PROVE  Stage' /\ Timed'
BY WorkTypes DEF Stage, Timed

\* No time passes and the stage stays the same.
LEMMA SameTime ==
    ASSUME GroupInv, UNCHANGED <<now, lap, timeout, expired, remaining, pc, polled>>
    PROVE  Stage' /\ Timed'
<1>1. Begin' = Begin /\ Worked' = Worked
    BY DEF Begin, Worked
<1> QED
    BY <1>1, Parts DEF Stage, Timed

\* The start time is taken.
LEMMA ReceiveTime ==
    ASSUME GroupInv, NEW t \in Timeouts, Receive(t)
    PROVE  CallTypes' /\ Stage' /\ Timed'
<1>1. /\ pc' = "update" /\ timeout' = t /\ now' = 0 /\ lap' = 0 /\ hadData' = FALSE
      /\ UNCHANGED <<expired, remaining>>
    BY DEF Receive
<1>2. t # Indefinite => t \in Nat
    BY GroupAssumption
<1>3. t # Indefinite => 0 <= t + 2 * MaxWork + AllWork + 0
    BY <1>2, WorkTypes
<1>4. Stage' /\ Timed'
    BY <1>1, <1>3, WorkTypes DEF Stage, Timed
<1>5. CallTypes'
    <2>1. 0 \in 0 .. (0 + MaxWork)
        BY WorkTypes
    <2> QED
        BY <1>1, <2>1, Parts DEF CallTypes, PC
<1> QED
    BY <1>4, <1>5

\* The members have been updated; whether the timeout has come is decided here.
LEMMA UpdateTime ==
    ASSUME GroupInv, Update
    PROVE  CallTypes' /\ Stage' /\ Timed'
<1>1. /\ pc = "update" /\ pc' = "collect" /\ lap' = 0
      /\ UNCHANGED <<timeout, now, remaining, hadData>>
      /\ expired' = (timeout # Indefinite /\ now >= timeout)
    BY DEF Update
<1>2. Stage'
    BY <1>1, WorkTypes DEF Stage
<1>3. timeout # Indefinite => now <= Begin' + 0
    <2> SUFFICES ASSUME timeout # Indefinite PROVE now <= Begin' + 0
        OBVIOUS
    <2>1. /\ now <= timeout + 2 * MaxWork + AllWork + lap /\ lap <= MaxWork
          /\ timeout \in Nat /\ now \in Nat /\ lap \in Nat
        BY <1>1, Parts, TimeFacts DEF Timed, Stage
    <2>2. CASE now >= timeout
        <3>1. Begin' = timeout + 3 * MaxWork + AllWork
            BY <1>1, <2>2 DEF Begin, AllWork
        <3> QED
            BY <2>1, <3>1, WorkTypes
    <2>3. CASE ~ (now >= timeout)
        <3>1. Begin' = timeout
            BY <1>1, <2>3 DEF Begin
        <3> QED
            BY <2>1, <2>3, <3>1
    <2> QED
        BY <2>2, <2>3
<1>4. Timed'
    BY <1>1, <1>3 DEF Timed
<1>5. CallTypes'
    <2>1. 0 \in 0 .. (now + MaxWork)
        BY WorkTypes, TimeFacts
    <2> QED
        BY <1>1, <2>1, Parts DEF CallTypes, PC
<1> QED
    BY <1>2, <1>4, <1>5

\* The time to poll is the time the collection took (receiver.cpp 106-108).
LEMMA CollectTime ==
    ASSUME GroupInv, Collect
    PROVE  CallTypes' /\ Stage' /\ Timed'
<1>1. /\ pc = "collect" /\ pc' = "poll" /\ lap' = 0 /\ remaining' = lap
      /\ UNCHANGED <<timeout, now, expired, hadData>>
    BY DEF Collect, Remaining
<1>2. Begin' = Begin
    BY <1>1 DEF Begin
<1>3. lap <= MaxWork /\ lap \in Nat
    BY Parts, TimeFacts DEF Stage
<1>4. Stage'
    BY <1>1, <1>3, WorkTypes DEF Stage
<1>5. Timed'
    <2>1. timeout # Indefinite => now <= Begin + MaxWork + 0
        <3>1. timeout # Indefinite => now <= Begin + lap
            BY <1>1, Parts DEF Timed
        <3> QED
            BY <1>3, <3>1, TimeFacts, WorkTypes
    <2> QED
        BY <1>1, <1>2, <2>1 DEF Timed
<1>6. CallTypes'
    <2>1. 0 \in 0 .. (now + MaxWork)
        BY WorkTypes, TimeFacts
    <2> QED
        BY <1>1, <1>3, <2>1, Parts DEF CallTypes, PC
<1> QED
    BY <1>4, <1>5, <1>6

\* zmq_poll returns, with or without events.
LEMMA PollTime ==
    ASSUME GroupInv, pc = "poll", lap' = 0, remaining' = 0,
           UNCHANGED <<timeout, now, expired, hadData>>,
           pc' = "return" \/ (pc' = "pass" /\ polled' = polled)
    PROVE  CallTypes' /\ Stage' /\ Timed'
<1>2. Begin' = Begin
    BY DEF Begin
<1>3. lap <= MaxWork /\ lap \in Nat
    BY Parts, TimeFacts DEF Stage
<1>4. Stage'
    BY WorkTypes DEF Stage
<1>5. timeout # Indefinite =>
        now <= Begin + 2 * MaxWork + Worked /\ now <= Begin + 2 * MaxWork + AllWork
    <2>1. timeout # Indefinite => now <= Begin + MaxWork + lap
        BY Parts DEF Timed
    <2> QED
        BY <1>3, <2>1, TimeFacts, WorkTypes
<1>6. Timed'
    <2>1. CASE pc' = "return"
        BY <1>2, <1>5, <2>1 DEF Timed
    <2>2. CASE pc' = "pass" /\ polled' = polled
        <3>1. Worked' = Worked
            BY <2>2 DEF Worked
        <3> QED
            BY <1>2, <1>5, <2>2, <3>1 DEF Timed
    <2> QED
        BY <2>1, <2>2
<1>7. CallTypes'
    <2>1. 0 \in 0 .. (now + MaxWork)
        BY WorkTypes, TimeFacts
    <2> QED
        BY <2>1, Parts DEF CallTypes, PC
<1> QED
    BY <1>4, <1>6, <1>7

\* The pass goes on, or is over.
LEMMA PassTime ==
    ASSUME GroupInv, pc = "pass",
           UNCHANGED <<timeout, now, expired>>, hadData' \in BOOLEAN, remaining' \in Nat,
           \/ pc' = "return" /\ lap' = 0
           \/ pc' = "pass" /\ lap' = lap /\ polled # <<>> /\ polled' = Tail(polled)
           \/ pc' = "function" /\ lap' = 0 /\ polled' = polled
    PROVE  CallTypes' /\ Stage' /\ Timed'
<1>1. timeout # Indefinite => now <= Begin + 2 * MaxWork + Worked
    BY Parts DEF Timed
<1>2. Begin' = Begin
    BY DEF Begin
<1>3. lap <= MaxWork /\ lap \in Nat /\ lap' \in Nat /\ lap' <= MaxWork
    BY Parts, TimeFacts, WorkTypes DEF Stage
<1>4. Stage'
    BY <1>3 DEF Stage
<1>5. Timed'
    <2>1. CASE pc' = "return"
        <3>1. timeout # Indefinite => now <= Begin + 2 * MaxWork + AllWork
            BY <1>1, TimeFacts, WorkTypes
        <3> QED
            BY <1>2, <2>1, <3>1 DEF Timed
    <2>2. CASE pc' = "pass" /\ polled # <<>> /\ polled' = Tail(polled)
        <3>1. Worked' = Worked + MaxWork
            BY <2>2, TailWorked
        <3>2. timeout # Indefinite => now <= Begin + 2 * MaxWork + (Worked + MaxWork)
            BY <1>1, TimeFacts, WorkTypes
        <3> QED
            BY <1>2, <2>2, <3>1, <3>2 DEF Timed
    <2>3. CASE pc' = "function" /\ lap' = 0 /\ polled' = polled
        <3>1. Worked' = Worked
            BY <2>3 DEF Worked
        <3>2. timeout # Indefinite => now <= Begin + 2 * MaxWork + Worked + 0
            BY <1>1, TimeFacts, WorkTypes
        <3> QED
            BY <1>2, <2>3, <3>1, <3>2 DEF Timed
    <2> QED
        BY <2>1, <2>2, <2>3
<1>6. CallTypes'
    <2>1. lap' \in 0 .. (now' + MaxWork)
        BY <1>3, WorkTypes, TimeFacts
    <2> QED
        BY <2>1, Parts DEF CallTypes, PC
<1> QED
    BY <1>4, <1>5, <1>6

\* A function has returned.
LEMMA ReturnTime ==
    ASSUME GroupInv, NEW b \in BOOLEAN, ProcessReturns(b)
    PROVE  CallTypes' /\ Stage' /\ Timed'
<1>1. /\ pc = "function" /\ pc' = "pass" /\ lap' = 0 /\ polled' = Tail(polled)
      /\ UNCHANGED <<timeout, now, expired, remaining>> /\ hadData' \in BOOLEAN
    BY Parts DEF ProcessReturns, callVars, CallTypes
<1>2. Begin' = Begin
    BY <1>1 DEF Begin
<1>3. lap <= MaxWork /\ lap \in Nat
    BY Parts, TimeFacts DEF Stage
<1>4. Stage'
    BY <1>1, WorkTypes DEF Stage
<1>5. Worked' = Worked + MaxWork
    <2>1. polled # <<>>
        BY <1>1, Parts DEF Walk, Walking
    <2> QED
        BY <1>1, <2>1, TailWorked
<1>6. timeout # Indefinite => now <= Begin + 2 * MaxWork + (Worked + MaxWork)
    <2>1. timeout # Indefinite => now <= Begin + 2 * MaxWork + Worked + lap
        BY <1>1, Parts DEF Timed
    <2> QED
        BY <1>3, <2>1, TimeFacts, WorkTypes
<1>7. Timed'
    BY <1>1, <1>2, <1>5, <1>6 DEF Timed
<1>8. CallTypes'
    <2>1. 0 \in 0 .. (now + MaxWork)
        BY WorkTypes, TimeFacts
    <2> QED
        BY <1>1, <2>1, Parts DEF CallTypes, PC
<1> QED
    BY <1>4, <1>7, <1>8

\* receive() starts over only if its time was not over before the poll.
LEMMA AgainTime ==
    ASSUME GroupInv, Again
    PROVE  CallTypes' /\ Stage' /\ Timed'
<1>1. CASE hadData \/ expired
    <2>1. /\ pc' = "idle" /\ timeout' = 0 /\ now' = 0 /\ lap' = 0 /\ expired' = FALSE
          /\ remaining' = 0 /\ hadData' = FALSE
        BY <1>1 DEF Again, NoCall
    <2>2. 0 \in 0 .. (0 + MaxWork)
        BY WorkTypes
    <2>3. CallTypes'
        BY <2>1, <2>2 DEF CallTypes, PC
    <2> QED
        BY <2>1, <2>3, RestTime
<1>2. CASE ~ (hadData \/ expired)
    <2>1. /\ pc = "return" /\ pc' = "update" /\ lap' = 0 /\ ~ expired
          /\ UNCHANGED <<now, timeout, expired, remaining, hadData>>
        BY <1>2 DEF Again, callVars
    <2>2. timeout # Indefinite => now <= timeout + 2 * MaxWork + AllWork + 0
        <3>1. timeout # Indefinite => now <= Begin + 2 * MaxWork + AllWork
            BY <2>1, Parts DEF Timed
        <3> QED
            BY <2>1, <3>1, TimeFacts, WorkTypes
    <2>3. Stage' /\ Timed'
        BY <2>1, <2>2, WorkTypes DEF Stage, Timed
    <2>4. 0 \in 0 .. (now + MaxWork)
        BY WorkTypes, TimeFacts
    <2>5. CallTypes'
        BY <2>1, <2>4, Parts DEF CallTypes, PC
    <2> QED
        BY <2>3, <2>5
<1> QED
    BY <1>1, <1>2

\* A millisecond passes.
LEMMA TickTime ==
    ASSUME GroupInv, Tick
    PROVE  CallTypes' /\ Stage' /\ Timed'
<1>1. /\ \/ pc \in {"update", "collect", "function"} /\ lap < MaxWork
         \/ pc = "poll" /\ lap < remaining
      /\ lap' = lap + 1
      /\ now' = now \/ now' = now + 1
      /\ UNCHANGED <<pc, timeout, expired, remaining, polled, hadData>>
    BY DEF Tick, callVars, passVars
<1>2. Begin' = Begin /\ Worked' = Worked
    BY <1>1 DEF Begin, Worked
<1>3. /\ now \in Nat /\ lap \in Nat /\ remaining \in Nat /\ MaxWork \in Nat
      /\ now' \in Nat /\ now' <= now + 1 /\ lap' \in Nat
    BY <1>1, TimeFacts, WorkTypes
<1>4. Stage'
    BY <1>1, <1>3, Parts DEF Stage
<1>5. Timed'
    <2> SUFFICES ASSUME timeout # Indefinite PROVE Timed'
        BY <1>1 DEF Timed
    <2>1. CASE pc = "update"
        <3>1. now <= timeout + 2 * MaxWork + AllWork + lap
            BY <2>1, Parts DEF Timed
        <3>2. now' <= timeout + 2 * MaxWork + AllWork + lap'
            BY <1>1, <1>3, <3>1, TimeFacts, WorkTypes
        <3> QED
            BY <1>1, <2>1, <3>2 DEF Timed
    <2>2. CASE pc = "collect"
        <3>1. now <= Begin + lap
            BY <2>2, Parts DEF Timed
        <3>2. now' <= Begin + lap'
            BY <1>1, <1>3, <3>1, TimeFacts
        <3> QED
            BY <1>1, <1>2, <2>2, <3>2 DEF Timed
    <2>3. CASE pc = "poll"
        <3>1. now <= Begin + MaxWork + lap
            BY <2>3, Parts DEF Timed
        <3>2. now' <= Begin + MaxWork + lap'
            BY <1>1, <1>3, <3>1, TimeFacts
        <3> QED
            BY <1>1, <1>2, <2>3, <3>2 DEF Timed
    <2>4. CASE pc = "function"
        <3>1. now <= Begin + 2 * MaxWork + Worked + lap
            BY <2>4, Parts DEF Timed
        <3>2. now' <= Begin + 2 * MaxWork + Worked + lap'
            BY <1>1, <1>3, <3>1, TimeFacts
        <3> QED
            BY <1>1, <1>2, <2>4, <3>2 DEF Timed
    <2> QED
        BY <1>1, <2>1, <2>2, <2>3, <2>4
<1>6. CallTypes'
    <2>1. lap' <= MaxWork
        BY <1>4 DEF Stage
    <2>2. lap' \in 0 .. (now' + MaxWork)
        <3>1. \A a, b, c \in Nat : a <= c => a \in 0 .. (b + c)
            OBVIOUS
        <3> QED
            BY <1>3, <2>1, <3>1
    <2> QED
        BY <1>1, <1>3, <2>2, Parts DEF CallTypes
<1> QED
    BY <1>4, <1>5, <1>6

-----------------------------------------------------------------------------
(* The group and the queues, step by step *)

\* Without one of its elements a sequence is as long but for one, and the others
\* keep their order.
LEMMA RemoveAtFacts ==
    ASSUME NEW S, NEW q \in Seq(S), NEW i \in 1 .. Len(q)
    PROVE  /\ RemoveAt(q, i) \in Seq(S) /\ Len(RemoveAt(q, i)) = Len(q) - 1
           /\ \A k \in 1 .. Len(q) - 1 :
                 /\ k < i => RemoveAt(q, i)[k] = q[k]
                 /\ ~ (k < i) => RemoveAt(q, i)[k] = q[k + 1]
<1> DEFINE u == SubSeq(q, 1, i - 1)
           v == SubSeq(q, i + 1, Len(q))
           m == Len(q)
<1>1. m \in Nat /\ i \in Nat /\ 1 <= i /\ i <= m
    OBVIOUS
<1>2. u \in Seq(S) /\ Len(u) = i - 1 /\ \A k \in 1 .. i - 1 : u[k] = q[k]
    <2>1. 1 \in 1 .. m + 1 /\ i - 1 \in 1 - 1 .. m
        <3> HIDE DEF m
        <3> QED
            BY <1>1
    <2>2. /\ u \in Seq(S)
          /\ Len(u) = IF 1 <= i - 1 THEN i - 1 - 1 + 1 ELSE 0
          /\ \A k \in 1 .. i - 1 - 1 + 1 : u[k] = q[1 + k - 1]
        BY <2>1, SubSeqProperties
    <2>3. i - 1 - 1 + 1 = i - 1 /\ (~ (1 <= i - 1) => i - 1 = 0)
          /\ \A k \in 1 .. i - 1 : 1 + k - 1 = k
        BY <1>1
    <2> HIDE DEF u, m
    <2> QED
        BY <2>2, <2>3
<1>3. v \in Seq(S) /\ Len(v) = m - i /\ \A k \in 1 .. m - i : v[k] = q[k + i]
    <2>1. i + 1 \in 1 .. m + 1 /\ m \in i + 1 - 1 .. m
        <3> HIDE DEF m
        <3> QED
            BY <1>1
    <2>2. /\ v \in Seq(S)
          /\ Len(v) = IF i + 1 <= m THEN m - (i + 1) + 1 ELSE 0
          /\ \A k \in 1 .. m - (i + 1) + 1 : v[k] = q[i + 1 + k - 1]
        BY <2>1, SubSeqProperties
    <2>3. m - (i + 1) + 1 = m - i /\ (~ (i + 1 <= m) => m - i = 0)
          /\ \A k \in Nat : i + 1 + k - 1 = k + i
        <3> HIDE DEF m
        <3> QED
            BY <1>1
    <2> HIDE DEF v, m
    <2> QED
        BY <2>2, <2>3
<1> HIDE DEF u, v
<1>4. /\ u \o v \in Seq(S) /\ Len(u \o v) = Len(u) + Len(v)
      /\ \A k \in 1 .. Len(u) + Len(v) :
            (u \o v)[k] = IF k <= Len(u) THEN u[k] ELSE v[k - Len(u)]
    BY <1>2, <1>3, ConcatProperties
<1>5. RemoveAt(q, i) = u \o v
    BY DEF RemoveAt, u, v
<1> DEFINE w == u \o v
<1> HIDE DEF w, m
<1>6. /\ Len(u) + Len(v) = m - 1 /\ Len(w) = m - 1
      /\ \A k \in 1 .. m - 1 :
            /\ k <= Len(u) => w[k] = u[k]
            /\ ~ (k <= Len(u)) => w[k] = v[k - Len(u)]
    <2>1. Len(u) + Len(v) = m - 1
        BY <1>1, <1>2, <1>3
    <2> QED
        BY <1>4, <2>1 DEF w
<1>7. ASSUME NEW k \in 1 .. m - 1
      PROVE  (k < i => w[k] = q[k]) /\ (~ (k < i) => w[k] = q[k + 1])
    <2>1. CASE k < i
        <3>1. k <= Len(u) /\ k \in 1 .. i - 1
            BY <1>1, <1>2, <2>1
        <3> QED
            BY <1>2, <1>6, <2>1, <3>1
    <2>2. CASE ~ (k < i)
        <3>1. ~ (k <= Len(u)) /\ k - Len(u) \in 1 .. m - i /\ k - Len(u) + i = k + 1
            BY <1>1, <1>2, <2>2
        <3> QED
            BY <1>3, <1>6, <2>2, <3>1
    <2> QED
        BY <2>1, <2>2
<1> QED
    BY <1>4, <1>5, <1>6, <1>7 DEF w, m

\* A receiver joins the group.
LEMMA AddMemberStep ==
    ASSUME GroupInv, NEW r \in Receivers, AddMember(r)
    PROVE  GroupInv'
<1>0. MemberTypes /\ QueueTypes /\ CallTypes /\ PassTypes /\ Walk /\ Counted
    BY Parts
<1>1. /\ pc \in {"idle", "function"} /\ changes < MaxChanges /\ changes' = changes + 1
      /\ changed' = (pc = "function") /\ r \notin Range(shared)
      /\ shared' = Append(shared, r) /\ tail' = SubSeq(tail, 2, Len(tail))
      /\ dangling' = dangling \/ dangling' = (pc = "function")
      /\ UNCHANGED <<pending, arrived, threw, pc, now, lap, hadData>>
      /\ UNCHANGED <<timeout, expired, remaining, passVars>>
    BY DEF AddMember, InApplication, callVars
<1>2. dangling' \in BOOLEAN /\ changed' \in BOOLEAN /\ (pc = "idle" => ~ dangling')
    <2>1. pc = "idle" => ~ dangling
        BY <1>0 DEF Walk, Scope
    <2>2. dangling \in BOOLEAN /\ changed' \in BOOLEAN
        BY <1>0, <1>1 DEF MemberTypes
    <2>3. CASE dangling' = dangling
        BY <2>1, <2>2, <2>3
    <2>4. CASE dangling' = (pc = "function")
        BY <2>2, <2>4
    <2> QED
        BY <1>1, <2>3, <2>4
<1>3. Walk'
    BY <1>0, <1>1, <1>2, ChangeWalk
<1>4. /\ shared' \in Seq(Receivers) /\ Len(shared') = Len(shared) + 1
      /\ Len(shared) \in Nat /\ DOMAIN shared = 1 .. Len(shared)
      /\ DOMAIN shared' = 1 .. Len(shared) + 1
      /\ \A k \in 1 .. Len(shared) : shared'[k] = shared[k]
      /\ shared'[Len(shared) + 1] = r
    BY <1>0, <1>1 DEF MemberTypes
<1>5. IsInjective(shared')
    <2>1. \A k \in 1 .. Len(shared) + 1 : k \in 1 .. Len(shared) \/ k = Len(shared) + 1
        BY <1>4
    <2>2. \A k \in 1 .. Len(shared) : shared'[k] # r
        BY <1>1, <1>4 DEF Range
    <2>3. \A j, k \in 1 .. Len(shared) : shared'[j] = shared'[k] => j = k
        BY <1>0, <1>4 DEF MemberTypes, IsInjective
    <2> QED
        BY <1>4, <2>1, <2>2, <2>3 DEF IsInjective
<1>6. tail' \in Seq(Receivers)
    BY <1>0, <1>1 DEF MemberTypes
<1>7. MemberTypes'
    <2>1. changes' \in 0 .. MaxChanges
        BY <1>0, <1>1, GroupAssumption DEF MemberTypes
    <2> QED
        BY <1>2, <1>4, <1>5, <1>6, <2>1 DEF MemberTypes
<1>8. QueueTypes' /\ CallTypes' /\ PassTypes'
    BY <1>0, <1>1 DEF QueueTypes, CallTypes, PassTypes, passVars
<1>9. Counted'
    <2>1. shared' # <<>>
        <3>1. \A q : q = <<>> => Len(q) = 0
            OBVIOUS
        <3>2. Len(shared') # 0
            BY <1>4
        <3> QED
            BY <3>1, <3>2, Zenon
    <2> QED
        BY <1>0, <1>1, <2>1 DEF Counted, passVars
<1>10. Stage' /\ Timed'
    BY <1>1, SameTime DEF passVars
<1> QED
    BY <1>3, <1>7, <1>8, <1>9, <1>10, PartsNext

\* A receiver leaves it.
LEMMA RemoveMemberStep ==
    ASSUME GroupInv, NEW r \in Receivers, RemoveMember(r)
    PROVE  GroupInv'
<1>0. MemberTypes /\ QueueTypes /\ CallTypes /\ PassTypes /\ Walk /\ Counted
    BY Parts
<1>1. PICK i \in DOMAIN shared : shared' = RemoveAt(shared, i)
    BY DEF RemoveMember
<1>2. /\ pc \in {"idle", "function"} /\ changes < MaxChanges /\ changes' = changes + 1
      /\ changed' = (pc = "function") /\ Len(shared) > 1
      /\ tail' = <<>> \/ tail' = <<Last(shared)>> \o tail
      /\ pending' = [s \in Sockets |-> IF s[1] = r THEN 0 ELSE pending[s]]
      /\ UNCHANGED <<dangling, arrived, threw, pc, now, lap, hadData>>
      /\ UNCHANGED <<timeout, expired, remaining, passVars>>
    BY DEF RemoveMember, InApplication, callVars
<1>3. dangling' \in BOOLEAN /\ changed' \in BOOLEAN /\ (pc = "idle" => ~ dangling')
    BY <1>0, <1>2 DEF MemberTypes, Walk, Scope
<1>4. Walk'
    BY <1>0, <1>2, <1>3, ChangeWalk
<1>5. /\ Len(shared) \in Nat /\ i \in 1 .. Len(shared) /\ shared \in Seq(Receivers)
      /\ DOMAIN shared = 1 .. Len(shared)
    BY <1>0, <1>1 DEF MemberTypes
<1>6. /\ shared' \in Seq(Receivers) /\ Len(shared') = Len(shared) - 1
      /\ \A k \in 1 .. Len(shared) - 1 :
            /\ k < i => shared'[k] = shared[k]
            /\ ~ (k < i) => shared'[k] = shared[k + 1]
    BY <1>1, <1>5, RemoveAtFacts
<1>7. IsInjective(shared')
    <2>1. DOMAIN shared' = 1 .. Len(shared) - 1
        BY <1>6
    <2> SUFFICES ASSUME NEW j \in 1 .. Len(shared) - 1, NEW k \in 1 .. Len(shared) - 1,
                        shared'[j] = shared'[k]
                 PROVE  j = k
        BY <2>1 DEF IsInjective
    <2>2. \A a, b \in 1 .. Len(shared) : shared[a] = shared[b] => a = b
        BY <1>0, <1>5 DEF MemberTypes, IsInjective
    <2>3. /\ j \in 1 .. Len(shared) /\ j + 1 \in 1 .. Len(shared)
          /\ k \in 1 .. Len(shared) /\ k + 1 \in 1 .. Len(shared)
        BY <1>5
    <2>4. CASE j < i /\ k < i
        BY <1>6, <2>2, <2>3, <2>4
    <2>5. CASE ~ (j < i) /\ ~ (k < i)
        <3>1. j + 1 = k + 1
            BY <1>6, <2>2, <2>3, <2>5
        <3> QED
            BY <3>1
    <2>6. CASE j < i /\ ~ (k < i)
        <3>1. j = k + 1
            BY <1>6, <2>2, <2>3, <2>6
        <3> QED
            BY <1>5, <2>6, <3>1
    <2>7. CASE ~ (j < i) /\ k < i
        <3>1. j + 1 = k
            BY <1>6, <2>2, <2>3, <2>7
        <3> QED
            BY <1>5, <2>7, <3>1
    <2> QED
        BY <2>4, <2>5, <2>6, <2>7
<1>8. tail' \in Seq(Receivers)
    <2>1. Last(shared) \in Receivers
        BY <1>2, <1>5 DEF Last
    <2>2. <<Last(shared)>> \o tail \in Seq(Receivers) /\ <<>> \in Seq(Receivers)
        BY <1>0, <2>1 DEF MemberTypes
    <2> QED
        BY <1>2, <2>2
<1>9. MemberTypes'
    <2>1. changes' \in 0 .. MaxChanges
        BY <1>0, <1>2, GroupAssumption DEF MemberTypes
    <2> QED
        BY <1>3, <1>6, <1>7, <1>8, <2>1 DEF MemberTypes
<1>10. /\ pending' \in [Sockets -> 0 .. MaxMessages]
       /\ \A s \in Sockets : pending'[s] <= arrived
    <2>1. ASSUME NEW s \in Sockets
          PROVE  /\ (IF s[1] = r THEN 0 ELSE pending[s]) \in 0 .. MaxMessages
                 /\ (IF s[1] = r THEN 0 ELSE pending[s]) <= arrived
        <3>1. pending[s] \in 0 .. MaxMessages /\ pending[s] <= arrived
              /\ arrived \in 0 .. MaxMessages
            BY <1>0 DEF QueueTypes, Counted
        <3> QED
            BY <3>1, GroupAssumption
    <2> QED
        BY <1>2, <2>1
<1>11. QueueTypes' /\ CallTypes' /\ PassTypes'
    BY <1>0, <1>2, <1>10 DEF QueueTypes, CallTypes, PassTypes, passVars
<1>12. Counted'
    <2>1. shared' # <<>>
        <3>1. \A q : q = <<>> => Len(q) = 0
            OBVIOUS
        <3>2. Len(shared') # 0
            BY <1>2, <1>5, <1>6
        <3> QED
            BY <3>1, <3>2, Zenon
    <2> QED
        BY <1>0, <1>2, <1>10, <2>1 DEF Counted, passVars
<1>13. Stage' /\ Timed'
    BY <1>2, SameTime DEF passVars
<1> QED
    BY <1>4, <1>9, <1>11, <1>12, <1>13, PartsNext

\* The group and the queues stay as they are.
LEMMA SameQueues ==
    ASSUME GroupInv, UNCHANGED <<groupVars, pending, arrived, threw>>,
           IsInjective(polled')
    PROVE  MemberTypes' /\ QueueTypes' /\ Counted'
<1>1. UNCHANGED <<shared, tail, dangling, changed, changes, pending, arrived, threw>>
    BY DEF groupVars
<1> QED
    BY <1>1, Parts DEF MemberTypes, QueueTypes, Counted

\* Leaving the pass.
LEMMA LeavePass ==
    ASSUME GroupInv, NoPass, UNCHANGED <<shared, changes, pending, arrived>>,
           threw' \in 0 .. MaxThrows, pc' \in {"idle", "update", "return"}
    PROVE  MemberTypes' /\ QueueTypes' /\ Counted' /\ PassTypes' /\ Walk'
<1>1. /\ polled' = <<>> /\ signalled' = {} /\ intervals' = <<>> /\ interval' = 0
      /\ at' = 1 /\ callee' = Garbage
      /\ tail' = <<>> /\ dangling' = FALSE /\ changed' = FALSE
    BY DEF NoPass
<1>2. \A S : <<>> \in Seq(S)
    OBVIOUS
<1>3. 1 \in 1 .. (Cardinality(Receivers) + 1)
    BY SocketsFinite
<1>4. PassTypes'
    BY <1>1, <1>2, <1>3 DEF PassTypes
<1>5. MemberTypes'
    BY <1>1, <1>2, Parts DEF MemberTypes
<1>6. QueueTypes'
    BY Parts DEF QueueTypes
<1>7. Counted'
    <2>1. \A q : q = <<>> => IsInjective(q)
        BY DEF IsInjective
    <2> QED
        BY <1>1, <2>1, Parts DEF Counted
<1>8. Walk'
    BY <1>1, OutsideWalk
<1> QED
    BY <1>4, <1>5, <1>6, <1>7, <1>8

\* The next socket of the pass.
LEMMA NextSocketStep ==
    ASSUME GroupInv, NextSocket
    PROVE  GroupInv'
<1> DEFINE s == Head(polled)
<1>0. MemberTypes /\ QueueTypes /\ CallTypes /\ PassTypes /\ Walk /\ Counted
    BY Parts
<1>1. /\ UNCHANGED <<groupVars, arrived, threw, now, timeout, expired, remaining, hadData>>
      /\ pc = "pass" /\ polled # <<>>
      /\ \/ /\ pc' = "function" /\ lap' = 0 /\ polled' = polled
            /\ pending' = [pending EXCEPT ![s] = IF @ > 0 THEN @ - 1 ELSE 0]
         \/ pc' = "pass" /\ lap' = lap /\ polled' = Tail(polled) /\ pending' = pending
    BY DEF NextSocket, callVars
<1>2. Walk' /\ PassTypes' /\ IsInjective(polled')
    BY NextSocketWalk
<1>3. CallTypes' /\ Stage' /\ Timed'
    <2>1. hadData' \in BOOLEAN /\ remaining' \in Nat
        BY <1>0, <1>1 DEF CallTypes
    <2> QED
        BY <1>1, <2>1, PassTime
<1>4. s \in Sockets
    BY <1>0, <1>1, HeadTailProperties DEF PassTypes
<1> HIDE DEF s
<1>5. /\ pending' \in [Sockets -> 0 .. MaxMessages]
      /\ \A u \in Sockets : pending'[u] <= arrived
    <2>0. /\ pending \in [Sockets -> 0 .. MaxMessages] /\ arrived \in Nat
          /\ \A u \in Sockets : pending[u] <= arrived
        BY <1>0, GroupAssumption DEF QueueTypes, Counted
    <2>1. CASE pending' = pending
        BY <2>0, <2>1
    <2>2. CASE pending' = [pending EXCEPT ![s] = IF @ > 0 THEN @ - 1 ELSE 0]
        <3> DEFINE x == IF pending[s] > 0 THEN pending[s] - 1 ELSE 0
        <3>1. x \in 0 .. MaxMessages /\ x <= arrived
            BY <1>4, <2>0, GroupAssumption
        <3>2. pending' = [pending EXCEPT ![s] = x]
            BY <2>2
        <3> HIDE DEF x
        <3> QED
            BY <1>4, <2>0, <3>1, <3>2
    <2> QED
        BY <1>1, <2>1, <2>2
<1>6. UNCHANGED <<shared, tail, dangling, changed, changes, arrived, threw>>
    BY <1>1 DEF groupVars
<1>7. MemberTypes' /\ QueueTypes' /\ Counted'
    BY <1>0, <1>2, <1>5, <1>6 DEF MemberTypes, QueueTypes, Counted
<1> QED
    BY <1>2, <1>3, <1>7, PartsNext

\* Its function returns.
LEMMA ProcessReturnsStep ==
    ASSUME GroupInv, NEW b \in BOOLEAN, ProcessReturns(b)
    PROVE  GroupInv'
<1>0. MemberTypes /\ PassTypes /\ Walk /\ Counted
    BY Parts
<1>1. /\ UNCHANGED <<groupVars, pending, arrived, threw, signalled, intervals, interval, at>>
      /\ pc = "function" /\ pc' = "pass" /\ polled' = Tail(polled) /\ callee' = Garbage
    BY DEF ProcessReturns
<1>2. UNCHANGED <<shared, changed, dangling>>
    BY <1>1 DEF groupVars
<1>3. /\ polled # <<>> /\ InStep(Tail(polled), interval, intervals, at)
      /\ at + Len(intervals) <= Cardinality(Receivers)
      /\ ~ changed => at + Len(intervals) <= Len(shared)
      /\ dangling => changed
    BY <1>0, <1>1 DEF Walk, Walking, Scope
<1>4. /\ polled \in Seq(Sockets) /\ polled' \in Seq(Sockets)
      /\ Len(polled') = Len(polled) - 1 /\ Len(polled) \in Nat
      /\ \A j \in 1 .. Len(polled) - 1 : polled'[j] = polled[j + 1]
      /\ \A j \in 1 .. Len(polled) - 1 : j + 1 \in 1 .. Len(polled)
    BY <1>0, <1>1, <1>3, HeadTailProperties DEF PassTypes
<1>5. IsInjective(polled')
    <2> SUFFICES ASSUME NEW j \in 1 .. Len(polled) - 1, NEW k \in 1 .. Len(polled) - 1,
                        polled'[j] = polled'[k]
                 PROVE  j = k
        BY <1>4 DEF IsInjective
    <2>1. polled[j + 1] = polled[k + 1]
        BY <1>4
    <2>2. j + 1 = k + 1
        BY <1>0, <1>4, <2>1 DEF Counted, IsInjective
    <2> QED
        BY <2>2
<1>6. PassTypes'
    BY <1>0, <1>1, <1>4 DEF PassTypes
<1>7. InStep(polled, interval, intervals, at)'
    BY <1>1, <1>2, <1>3 DEF InStep
<1>8. Walk'
    BY <1>1, <1>2, <1>3, <1>7 DEF Walk, Scope, Collecting, Walking, OwnSocket
<1>9. MemberTypes' /\ QueueTypes' /\ Counted'
    BY <1>1, <1>5, SameQueues
<1>10. CallTypes' /\ Stage' /\ Timed'
    BY ReturnTime
<1> QED
    BY <1>6, <1>8, <1>9, <1>10, PartsNext

\* A message arrives.
LEMMA ArriveStep ==
    ASSUME GroupInv, NEW s \in Sockets, Arrive(s)
    PROVE  GroupInv'
<1>0. MemberTypes /\ QueueTypes /\ CallTypes /\ PassTypes /\ Walk /\ Counted
    BY Parts
<1>1. /\ UNCHANGED <<groupVars, threw, pc, now, lap, timeout, expired, remaining, hadData>>
      /\ UNCHANGED passVars
      /\ arrived < MaxMessages /\ arrived' = arrived + 1
      /\ pending' = [pending EXCEPT ![s] = pending[s] + 1]
    BY DEF Arrive, callVars
<1>2. UNCHANGED <<shared, tail, dangling, changed, changes>>
      /\ UNCHANGED <<polled, signalled, intervals, interval, at, callee>>
    BY <1>1 DEF groupVars, passVars
<1>3. Walk' /\ Stage' /\ Timed'
    BY <1>0, <1>1, <1>2, QuietWalk, SameTime
<1>4. /\ pending' \in [Sockets -> 0 .. MaxMessages] /\ arrived' \in 0 .. MaxMessages
      /\ \A u \in Sockets : pending'[u] <= arrived'
    <2>0. /\ pending \in [Sockets -> 0 .. MaxMessages] /\ arrived \in Nat
          /\ \A u \in Sockets : pending[u] <= arrived /\ pending[u] \in Nat
        BY <1>0, GroupAssumption DEF QueueTypes, Counted
    <2>1. pending[s] + 1 \in 0 .. MaxMessages /\ pending[s] + 1 <= arrived + 1
        BY <1>1, <2>0, GroupAssumption
    <2>2. \A u \in Sockets : pending[u] <= arrived + 1
        BY <2>0
    <2>3. arrived + 1 \in 0 .. MaxMessages
        BY <1>1, <2>0, GroupAssumption
    <2> QED
        BY <1>1, <2>0, <2>1, <2>2, <2>3
<1>5. MemberTypes' /\ CallTypes' /\ PassTypes'
    BY <1>0, <1>1, <1>2 DEF MemberTypes, CallTypes, PassTypes
<1>6. QueueTypes' /\ Counted'
    BY <1>0, <1>1, <1>2, <1>4 DEF QueueTypes, Counted
<1> QED
    BY <1>3, <1>5, <1>6, PartsNext

\* Every step keeps the lists in step and the time within its bounds.
LEMMA GroupStep == GroupInv /\ [Next]_vars => GroupInv'
<1> SUFFICES ASSUME GroupInv, [Next]_vars PROVE GroupInv'
    OBVIOUS
<1>0. /\ MemberTypes /\ QueueTypes /\ CallTypes /\ PassTypes /\ Walk /\ Counted
      /\ IsInjective(polled)
    BY Parts DEF Counted
<1>1. ASSUME NEW t \in Timeouts, Receive(t) PROVE GroupInv'
    <2>1. /\ UNCHANGED <<groupVars, pending, arrived, threw>> /\ UNCHANGED passVars
          /\ pc = "idle" /\ pc' = "update"
        BY <1>1 DEF Receive
    <2>2. UNCHANGED <<changed, dangling>>
          /\ UNCHANGED <<polled, signalled, intervals, interval, at, callee>>
        BY <2>1 DEF groupVars, passVars
    <2>3. Walk'
        BY <1>0, <2>1, <2>2, OutsideWalk DEF Walk, Scope
    <2>4. PassTypes'
        BY <1>0, <2>2 DEF PassTypes
    <2> QED
        BY <1>0, <1>1, <2>1, <2>2, <2>3, <2>4, SameQueues, ReceiveTime, PartsNext
<1>2. ASSUME Update PROVE GroupInv'
    <2>1. /\ UNCHANGED <<groupVars, pending, arrived, threw>> /\ UNCHANGED passVars
        BY <1>2 DEF Update
    <2>2. PassTypes' /\ polled' = polled
        BY <1>0, <2>1 DEF PassTypes, passVars
    <2> QED
        BY <1>0, <1>2, <2>1, <2>2, SameQueues, UpdateWalk, UpdateTime, PartsNext
<1>3. ASSUME AddSockets PROVE GroupInv'
    <2>1. /\ UNCHANGED <<groupVars, pending, arrived, threw>> /\ pc = "collect"
          /\ UNCHANGED <<now, lap, timeout, expired, remaining, pc, hadData>>
        BY <1>3 DEF AddSockets, callVars
    <2>2. Walk' /\ PassTypes' /\ IsInjective(polled')
        BY <1>3, AddSocketsWalk
    <2>3. Stage' /\ Timed'
        <3>1. Begin' = Begin
            BY <2>1 DEF Begin
        <3>2. pc' = "collect"
            BY <2>1
        <3> QED
            BY <2>1, <3>1, <3>2, Parts DEF Stage, Timed
    <2>4. CallTypes'
        BY <1>0, <2>1 DEF CallTypes
    <2> QED
        BY <2>1, <2>2, <2>3, <2>4, SameQueues, PartsNext
<1>4. ASSUME Collect PROVE GroupInv'
    <2>1. /\ UNCHANGED <<groupVars, pending, arrived, threw>> /\ UNCHANGED passVars
          /\ pc = "collect" /\ pc' = "poll" /\ Len(intervals) = Len(shared)
        BY <1>4 DEF Collect, Collected
    <2>2. UNCHANGED <<shared, changed, dangling>>
          /\ UNCHANGED <<polled, signalled, intervals, interval, at, callee>>
        BY <2>1 DEF groupVars, passVars
    <2>3. Walk'
        <3>1. \A q, n, rest, a : InStep(q, n, rest, a) => InStep(q, n, rest, a)'
            BY <2>2 DEF InStep
        <3>2. Collecting'
            BY <1>0, <2>1, <2>2, <3>1 DEF Walk, Collecting
        <3>3. Scope' /\ Walking' /\ OwnSocket'
            BY <1>0, <2>1, <2>2 DEF Walk, Scope, Walking, OwnSocket
        <3> QED
            BY <3>2, <3>3 DEF Walk
    <2>4. PassTypes'
        BY <1>0, <2>2 DEF PassTypes
    <2> QED
        BY <1>0, <1>4, <2>1, <2>2, <2>3, <2>4, SameQueues, CollectTime, PartsNext
<1>5. ASSUME PollEvents PROVE GroupInv'
    <2>1. /\ UNCHANGED <<groupVars, pending, arrived, threw>>
          /\ pc = "poll" /\ lap' = 0 /\ remaining' = 0
          /\ UNCHANGED <<timeout, now, expired, hadData>>
          /\ pc' = "pass" /\ polled' = polled
        BY <1>5 DEF PollEvents
    <2> QED
        BY <1>0, <1>5, <2>1, SameQueues, PollEventsWalk, PollTime, PartsNext
<1>6. ASSUME PollTimeout PROVE GroupInv'
    <2>1. /\ NoPass /\ UNCHANGED <<shared, changes, pending, arrived, threw>>
          /\ pc = "poll" /\ pc' = "return" /\ lap' = 0 /\ remaining' = 0
          /\ UNCHANGED <<timeout, now, expired, hadData>>
        BY <1>6 DEF PollTimeout
    <2>2. threw' \in 0 .. MaxThrows
        BY <1>0, <2>1 DEF QueueTypes
    <2> QED
        BY <2>1, <2>2, LeavePass, PollTime, PartsNext
<1>7. ASSUME PassEnd PROVE GroupInv'
    <2>1. /\ NoPass /\ UNCHANGED <<shared, changes, pending, arrived, threw>>
          /\ pc = "pass" /\ pc' = "return" /\ lap' = 0 /\ remaining' = 0
          /\ UNCHANGED <<timeout, now, expired, hadData>>
        BY <1>7 DEF PassEnd
    <2>2. threw' \in 0 .. MaxThrows /\ hadData' \in BOOLEAN /\ remaining' \in Nat
        BY <1>0, <2>1 DEF QueueTypes, CallTypes
    <2> QED
        BY <2>1, <2>2, LeavePass, PassTime, PartsNext
<1>8. ASSUME ProcessThrows PROVE GroupInv'
    <2>1. /\ NoPass /\ UNCHANGED <<shared, changes, pending, arrived>>
          /\ threw < MaxThrows /\ threw' = threw + 1
          /\ pc' = "idle" /\ timeout' = 0 /\ now' = 0 /\ lap' = 0 /\ expired' = FALSE
          /\ remaining' = 0 /\ hadData' = FALSE
        BY <1>8 DEF ProcessThrows, NoCall
    <2>2. threw' \in 0 .. MaxThrows
        BY <1>0, <2>1, GroupAssumption DEF QueueTypes
    <2>3. CallTypes'
        <3>1. 0 \in 0 .. (0 + MaxWork)
            BY WorkTypes
        <3> QED
            BY <2>1, <3>1 DEF CallTypes, PC
    <2> QED
        BY <2>1, <2>2, <2>3, LeavePass, RestTime, PartsNext
<1>9. ASSUME Again PROVE GroupInv'
    <2>1. /\ UNCHANGED <<groupVars, pending, arrived, threw>> /\ UNCHANGED passVars
          /\ pc = "return" /\ pc' \in {"idle", "update"}
        BY <1>9 DEF Again
    <2>2. UNCHANGED <<changed, dangling>>
          /\ UNCHANGED <<polled, signalled, intervals, interval, at, callee>>
        BY <2>1 DEF groupVars, passVars
    <2>3. Walk'
        <3>1. /\ polled' = <<>> /\ intervals' = <<>> /\ interval' = 0 /\ at' = 1
              /\ ~ changed' /\ ~ dangling'
            BY <1>0, <2>1, <2>2 DEF Walk, Scope
        <3> QED
            BY <2>1, <3>1, OutsideWalk
    <2>4. PassTypes'
        BY <1>0, <2>2 DEF PassTypes
    <2> QED
        BY <1>0, <1>9, <2>1, <2>2, <2>3, <2>4, SameQueues, AgainTime, PartsNext
<1>10. ASSUME Tick PROVE GroupInv'
    <2>1. /\ UNCHANGED <<groupVars, pending, arrived, threw>> /\ UNCHANGED passVars
          /\ pc' = pc
        BY <1>10 DEF Tick
    <2>2. UNCHANGED <<shared, changed, dangling, passVars, pc>>
        BY <2>1 DEF groupVars
    <2>3. PassTypes' /\ polled' = polled
        BY <1>0, <2>1 DEF PassTypes, passVars
    <2> QED
        BY <1>0, <1>10, <2>1, <2>2, <2>3, SameQueues, QuietWalk, TickTime, PartsNext
<1>11. CASE UNCHANGED vars
    <2>1. /\ UNCHANGED <<groupVars, pending, arrived, threw>> /\ UNCHANGED passVars
          /\ UNCHANGED <<pc, now, lap, timeout, expired, remaining, hadData>>
        BY <1>11 DEF vars, callVars
    <2>2. UNCHANGED <<shared, changed, dangling, passVars, pc>>
        BY <2>1 DEF groupVars
    <2>3. PassTypes' /\ polled' = polled /\ CallTypes'
        BY <1>0, <2>1 DEF PassTypes, CallTypes, passVars
    <2>4. Stage' /\ Timed'
        BY <2>1, <2>3, SameTime
    <2> QED
        BY <1>0, <2>1, <2>2, <2>3, <2>4, SameQueues, QuietWalk, PartsNext
<1> QED
    BY <1>1, <1>2, <1>3, <1>4, <1>5, <1>6, <1>7, <1>8, <1>9, <1>10, <1>11,
       AddMemberStep, RemoveMemberStep, NextSocketStep, ProcessReturnsStep, ArriveStep
    DEF Next

\* No call is running at the start.
LEMMA GroupInit == Init => GroupInv
<1> SUFFICES ASSUME Init PROVE GroupInv
    OBVIOUS
<1>1. \A S : <<>> \in Seq(S)
    OBVIOUS
<1>2. /\ 0 \in 0 .. MaxChanges /\ 0 \in 0 .. MaxMessages /\ 0 \in 0 .. MaxThrows
      /\ 0 \in 0 .. (0 + MaxWork) /\ 1 \in 1 .. (Cardinality(Receivers) + 1)
    BY GroupAssumption, SocketsFinite
<1>3. MemberTypes
    BY <1>1, <1>2, GroupAssumption DEF Init, MemberTypes
<1>4. QueueTypes /\ CallTypes
    BY <1>2 DEF Init, QueueTypes, CallTypes, PC
<1>5. PassTypes
    BY <1>1, <1>2 DEF Init, PassTypes
<1>6. Walk
    BY DEF Init, Walk, Scope, Collecting, Walking, OwnSocket
<1>7. Counted
    <2>1. \A q : q = <<>> => IsInjective(q)
        BY DEF IsInjective
    <2> QED
        BY <2>1, GroupAssumption DEF Init, Counted
<1>8. Stage /\ Timed
    BY WorkTypes DEF Init, Stage, Timed
<1> QED
    BY <1>3, <1>4, <1>5, <1>6, <1>7, <1>8, Parts

\* Types are kept, and each signalled socket is handed to the member that supplied
\* it, whatever the numbers of sockets (receiver.cpp 97-151), until a function of the
\* pass changes the group.
THEOREM SocketsOwned == Spec => []PassInv
<1>1. GroupInv => PassInv
    BY DEF GroupInv, WalkInv, PassInv
<1> QED
    BY <1>1, GroupInit, GroupStep, PTL DEF Spec

\* receive(timeout) is over at most two rounds of its own work after the timeout
\* (receiver.cpp 35-83, 92-117).
THEOREM DeadlinesKept == Spec => []Punctual
<1>1. GroupInv => Punctual
    <2> SUFFICES ASSUME GroupInv, timeout # Indefinite, pc # "idle" PROVE now <= Deadline
        BY DEF Punctual
    <2>1. Deadline = timeout + 5 * MaxWork + 2 * AllWork
        <3>1. \A n, w \in Nat : (5 + 2 * n) * w = 5 * w + 2 * (n * w)
            OBVIOUS
        <3>2. (5 + 2 * Cardinality(Sockets)) * MaxWork = 5 * MaxWork + 2 * AllWork
            BY <3>1, WorkTypes, SocketsFinite DEF AllWork
        <3> QED
            BY <3>2, TimeFacts, WorkTypes DEF Deadline
    <2>2. /\ lap <= MaxWork
          /\ Worked \in Nat /\ Worked <= AllWork /\ timeout \in Nat /\ Begin \in Nat
          /\ Begin <= timeout + 3 * MaxWork + AllWork
          /\ now \in Nat /\ lap \in Nat /\ MaxWork \in Nat /\ AllWork \in Nat
        BY TimeFacts, WorkTypes, Parts DEF Stage, CallTypes
    <2>3. \/ now <= timeout + 2 * MaxWork + AllWork + lap
          \/ now <= Begin + lap
          \/ now <= Begin + MaxWork + lap
          \/ pc = "pass" /\ now <= Begin + 2 * MaxWork + Worked
          \/ pc = "function" /\ now <= Begin + 2 * MaxWork + Worked + lap
          \/ now <= Begin + 2 * MaxWork + AllWork
        BY Parts DEF Timed, CallTypes, PC
    <2>4. pc = "function" => Worked + MaxWork <= AllWork
        <3> SUFFICES ASSUME pc = "function" PROVE Worked + MaxWork <= AllWork
            OBVIOUS
        <3>0. PassTypes /\ Counted /\ polled # <<>>
            BY Parts DEF Walk, Walking
        <3>1. Len(polled) \in Nat /\ Len(polled) >= 1
            <4>1. Len(polled) \in Nat /\ Len(polled) # 0
                BY <3>0, EmptySeq, LenProperties DEF PassTypes
            <4> QED
                BY <4>1
        <3>2. Len(polled) <= Cardinality(Sockets)
            BY <3>0, NoLonger, SocketsFinite DEF PassTypes, Counted
        <3>3. \A n, w, l \in Nat : l <= n /\ l >= 1 => (n - l) * w + w <= n * w
            <4> SUFFICES ASSUME NEW n \in Nat, NEW w \in Nat, NEW l \in Nat, l <= n, l >= 1
                         PROVE  (n - l) * w + w <= n * w
                OBVIOUS
            <4>1. l - 1 \in Nat /\ l - 1 <= n
                OBVIOUS
            <4>2. (n - (l - 1)) * w <= n * w
                BY <4>1, WorkedFacts
            <4> QED
                BY <4>2, WorkedFacts
        <3> QED
            BY <3>1, <3>2, <3>3, WorkTypes, SocketsFinite DEF Worked, AllWork
    <2> QED
        BY <2>1, <2>2, <2>3, <2>4
<1> QED
    BY <1>1, GroupInit, GroupStep, PTL DEF Spec
=============================================================================
