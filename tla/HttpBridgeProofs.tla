-------------------------- MODULE HttpBridgeProofs --------------------------
(***************************************************************************)
(* Proofs about HttpBridge for any number of requests and any bounds: the   *)
(* hand-over of a message on the worker's stack to the application and      *)
(* back, over two queues whose flags name no request.                       *)
(***************************************************************************)
EXTENDS HttpBridge, TLAPS

\* The types the argument rests on; lengths and counters play no part in it.
Types ==
    /\ phase \in [Requests -> Phase]
    /\ jobs \in Seq(Job)
    /\ worker \in Requests \cup {None}
    /\ response \in [Requests -> {"none", "pending", "value", "broken", "invalid",
                                  "exception", "error"}]
    /\ app \in {"running", "stopping", "stopped", "terminated"}

\* Exactly the request that occupies the worker is in the bridge.
OneInside ==
    \A r \in Requests : phase[r] \in {"sent", "waiting"} <=> r = worker

\* The message is on its way to the application.
Asking == phase[worker] = "sent" /\ toServer = <<worker>> /\ toWorker = 0

\* The application has answered, the flag is on its way back.
Flagged ==
    /\ phase[worker] = "sent" /\ response[worker] # "none"
    /\ toServer = <<>> /\ toWorker = 1

\* The worker has taken the flag.
Getting ==
    /\ phase[worker] = "waiting" /\ response[worker] # "none"
    /\ toServer = <<>> /\ toWorker = 0

\* The two queues together hold one item, that of the worker's request, and
\* none when the worker is free or has taken it.
OneItem ==
    IF worker = None THEN toServer = <<>> /\ toWorker = 0
    ELSE Asking \/ Flagged \/ Getting

\* Nothing starts once the pool is joined.
Joined == app = "stopped" => jobs = <<>> /\ worker = None

BridgeInv == Types /\ OneInside /\ OneItem /\ Joined

-----------------------------------------------------------------------------
\* No request is in the bridge at the start.
LEMMA BridgeInit == Init => BridgeInv
<1> SUFFICES ASSUME Init PROVE BridgeInv
    OBVIOUS
<1>1. Types
    BY DEF Init, Types, Phase
<1>2. OneInside /\ OneItem /\ Joined
    BY HttpBridgeAssumption DEF Init, OneInside, OneItem, Joined
<1> QED
    BY <1>1, <1>2 DEF BridgeInv

\* Running a job on the free worker may put one request into the bridge.
LEMMA JobStep == BridgeInv /\ RunJob => BridgeInv'
<1> SUFFICES ASSUME BridgeInv, RunJob PROVE BridgeInv'
    OBVIOUS
<1> DEFINE r == Head(jobs).request
<1>1. /\ jobs # <<>> /\ jobs \in Seq(Job)
      /\ Head(jobs) \in Job /\ Tail(jobs) \in Seq(Job)
    BY DEF RunJob, BridgeInv, Types
<1>2. r \in Requests
    BY <1>1 DEF Job
<1>3. /\ worker = None /\ toServer = <<>> /\ toWorker = 0
      /\ \A q \in Requests : phase[q] \notin {"sent", "waiting"}
    BY HttpBridgeAssumption DEF RunJob, BridgeInv, OneItem, OneInside
<1>4. \/ /\ phase' = [phase EXCEPT ![r] = "sent"]
         /\ worker' = r /\ toServer' = <<r>>
      \/ /\ \E p \in {"reading", "done", "dropped"} :
               phase' = [phase EXCEPT ![r] = p]
         /\ UNCHANGED <<worker, toServer>>
    <2>1. HandleRequest(r) =>
             phase' = [phase EXCEPT ![r] = "sent"] /\ worker' = r /\ toServer' = <<r>>
        BY <1>3 DEF HandleRequest
    <2>2. ASSUME NEW n, ReadOrHandle(r, n)
          PROVE  \/ HandleRequest(r)
                 \/ /\ phase' = [phase EXCEPT ![r] = "reading"]
                    /\ UNCHANGED <<worker, toServer>>
        BY <2>2 DEF ReadOrHandle
    <2>3. CASE StartJob
        BY <2>1, <2>2, <2>3 DEF StartJob
    <2>4. CASE ChunkJob
        BY <2>1, <2>2, <2>4 DEF ChunkJob
    <2> QED
        BY <2>3, <2>4 DEF RunJob
<1>5. /\ jobs' = Tail(jobs)
      /\ UNCHANGED <<toWorker, response, app>>
    BY DEF RunJob
<1>6. Types'
    BY <1>1, <1>2, <1>4, <1>5 DEF BridgeInv, Types, Phase
<1>7. OneInside'
    BY <1>2, <1>3, <1>4, HttpBridgeAssumption DEF BridgeInv, Types, OneInside
<1>8. OneItem'
    BY <1>2, <1>3, <1>4, <1>5, HttpBridgeAssumption
    DEF BridgeInv, Types, OneItem, Asking
<1>9. Joined'
    BY <1>1, <1>5 DEF BridgeInv, Joined
<1> QED
    BY <1>6, <1>7, <1>8, <1>9 DEF BridgeInv

\* Every step keeps the invariant.
LEMMA BridgeStep == BridgeInv /\ [Next]_vars => BridgeInv'
<1> SUFFICES ASSUME BridgeInv, [Next]_vars PROVE BridgeInv'
    OBVIOUS
<1> USE HttpBridgeAssumption
<1>1. ASSUME NEW r \in Requests, Arrive(r) PROVE BridgeInv'
    <2>1. Types'
        BY <1>1 DEF Arrive, BridgeInv, Types, Phase, Job
    <2>2. OneInside' /\ OneItem' /\ Joined'
        BY <1>1 DEF Arrive, BridgeInv, Types, OneInside, OneItem, Asking, Flagged,
                    Getting, Joined
    <2> QED
        BY <2>1, <2>2 DEF BridgeInv
<1>2. ASSUME NEW r \in Requests, ReadReturns(r) PROVE BridgeInv'
    <2>1. Types'
        BY <1>2 DEF ReadReturns, BridgeInv, Types, Phase, Job
    <2>2. OneInside' /\ OneItem' /\ Joined'
        BY <1>2 DEF ReadReturns, BridgeInv, Types, OneInside, OneItem, Asking,
                    Flagged, Getting, Joined
    <2> QED
        BY <2>1, <2>2 DEF BridgeInv
<1>3. ASSUME NEW r \in Requests, ReceiveFlag(r) PROVE BridgeInv'
    <2>1. Types'
        BY <1>3 DEF ReceiveFlag, BridgeInv, Types, Phase
    <2>2. Flagged
        BY <1>3 DEF ReceiveFlag, BridgeInv, OneItem, Asking, Getting
    <2>3. OneInside' /\ OneItem' /\ Joined'
        BY <1>3, <2>2 DEF ReceiveFlag, BridgeInv, Types, OneInside, OneItem,
                          Flagged, Getting, Joined
    <2> QED
        BY <2>1, <2>3 DEF BridgeInv
<1>4. ASSUME NEW r \in Requests, GetResponse(r) PROVE BridgeInv'
    <2>1. Getting
        BY <1>4 DEF GetResponse, BridgeInv, OneItem, Asking, Flagged
    <2>2. CASE \E code : Write(r, code) /\ UNCHANGED app
        <3>1. Types'
            BY <1>4, <2>2 DEF GetResponse, Write, BridgeInv, Types, Phase
        <3>2. OneInside' /\ OneItem' /\ Joined'
            BY <1>4, <2>1, <2>2 DEF GetResponse, Write, BridgeInv, Types, OneInside,
                                    OneItem, Getting, Joined
        <3> QED
            BY <3>1, <3>2 DEF BridgeInv
    <2>3. CASE app' = "terminated" /\ UNCHANGED <<phase, worker, status>>
        BY <1>4, <2>3 DEF GetResponse, BridgeInv, Types, OneInside, OneItem, Asking,
                          Flagged, Getting, Joined
    <2> QED
        BY <1>4, <2>2, <2>3 DEF GetResponse
<1>5. ASSUME NEW r \in Requests, Complete(r) PROVE BridgeInv'
    <2>1. PICK o \in Outcomes : response' = [response EXCEPT ![r] = o]
        BY <1>5 DEF Complete
    <2>2. Types'
        BY <1>5, <2>1 DEF Complete, BridgeInv, Types
    <2>3. OneInside' /\ OneItem' /\ Joined'
        BY <1>5, <2>1 DEF Complete, BridgeInv, Types, OneInside, OneItem, Asking,
                          Flagged, Getting, Joined
    <2> QED
        BY <2>2, <2>3 DEF BridgeInv
<1>6. CASE RunJob
    BY <1>6, JobStep
<1>7. CASE Process
    <2>1. Asking /\ worker \in Requests
        BY <1>7 DEF Process, Answer, BridgeInv, Types, OneItem, Flagged, Getting
    <2>2. PICK o \in {"value", "pending", "error"} :
             response' = [response EXCEPT ![worker] = o]
        <3>1. Head(toServer) = worker
            BY <2>1 DEF Asking
        <3> QED
            BY <1>7, <3>1 DEF Process, Answer
    <2>3. toServer' = <<>> /\ toWorker' = 1
        BY <1>7, <2>1 DEF Process, Answer, Asking
    <2>4. Types'
        BY <1>7, <2>1, <2>2 DEF Process, Answer, BridgeInv, Types
    <2>5. OneInside' /\ OneItem' /\ Joined'
        BY <1>7, <2>1, <2>2, <2>3
        DEF Process, Answer, BridgeInv, Types, OneInside, OneItem, Asking, Flagged,
            Joined
    <2> QED
        BY <2>4, <2>5 DEF BridgeInv
<1>8. CASE Stop
    BY <1>8 DEF Stop, BridgeInv, Types, OneInside, OneItem, Asking, Flagged, Getting,
                Joined
<1>9. CASE Stopped
    BY <1>9 DEF Stopped, BridgeInv, Types, OneInside, OneItem, Asking, Flagged,
                Getting, Joined
<1>10. CASE UNCHANGED vars
    BY <1>10 DEF vars, BridgeInv, Types, OneInside, OneItem, Asking, Flagged, Getting,
                 Joined
<1> QED
    BY <1>1, <1>2, <1>3, <1>4, <1>5, <1>6, <1>7, <1>8, <1>9, <1>10 DEF Next

\* One request at a time is in the bridge, and the two queues hold at most its
\* own item (requestHandler.cpp 157-188).
THEOREM BridgeInvariance == Spec => []BridgeInv
<1>1. Init => BridgeInv
    BY BridgeInit
<1>2. BridgeInv /\ [Next]_vars => BridgeInv'
    BY BridgeStep
<1> QED
    BY <1>1, <1>2, PTL DEF Spec

\* Server::process never dereferences a message that has left the worker's
\* stack.
THEOREM PointersStayValid == Spec => []PointerValid
<1>1. BridgeInv => PointerValid
    BY DEF BridgeInv, OneItem, Asking, Flagged, Getting, PointerValid
<1> QED
    BY <1>1, BridgeInvariance, PTL

\* The worker never waits for a future that was not stored for its request.
THEOREM FlagsMatchAnswers == Spec => []FlagMeansAnswered
<1>1. BridgeInv => FlagMeansAnswered
    BY HttpBridgeAssumption
    DEF BridgeInv, OneInside, OneItem, Asking, Flagged, Getting, FlagMeansAnswered
<1> QED
    BY <1>1, BridgeInvariance, PTL

\* The destructor leaves no worker behind that could use the sockets.
THEOREM StopsQuietly == Spec => []StoppedIsQuiet
<1>1. BridgeInv => StoppedIsQuiet
    BY HttpBridgeAssumption
    DEF BridgeInv, OneInside, OneItem, Joined, StoppedIsQuiet
<1> QED
    BY <1>1, BridgeInvariance, PTL

-----------------------------------------------------------------------------
(* The body *)

\* The value of _size after g of l units have come: it wraps around below 0.
Missing(l, g) == IF g <= l THEN l - g ELSE l - g + 2^Width

BodyTypes ==
    /\ phase \in [Requests -> Phase]
    /\ length \in [Requests -> 0..MaxLength]
    /\ left \in [Requests -> 0..(2^Width - 1)]
    /\ got \in [Requests -> Nat]
    /\ jobs \in Seq(Job)
    /\ \A r \in Requests : got[r] <= length[r] + Surplus

\* The units of a waiting chunk are received but not yet subtracted.
JobRight(j) ==
    /\ phase[j.request] = "queued"
    /\ j.kind = "start" => got[j.request] = 0
    /\ j.kind = "chunk" =>
          /\ j.size <= got[j.request]
          /\ left[j.request] = Missing(length[j.request], got[j.request] - j.size)

\* A request has at most one job in the pool.
JobsRight ==
    /\ \A i \in 1..Len(jobs) : JobRight(jobs[i])
    /\ \A i, j \in 1..Len(jobs) : jobs[i].request = jobs[j].request => i = j

\* The counters of a request that has no job in the pool.
CountRight(r) ==
    /\ phase[r] = "new" => got[r] = 0
    /\ phase[r] = "reading" => left[r] = Missing(length[r], got[r])
    /\ phase[r] \in {"sent", "waiting"} => got[r] = length[r]

BodyInv == BodyTypes /\ JobsRight /\ \A r \in Requests : CountRight(r)

\* Subtracting a chunk from the unsigned _size: at most one wrap-around.
LEMMA SizeSubtract ==
    ASSUME NEW l \in 0..MaxLength, NEW g \in Nat, NEW n \in Nat, n <= g,
           g <= l + Surplus
    PROVE  /\ (Missing(l, g - n) - n) % 2^Width = Missing(l, g)
           /\ Missing(l, g) \in 0..(2^Width - 1)
           /\ Missing(l, g) = 0 => g = l
<1> DEFINE W == 2^Width
<1>1. W \in Nat /\ MaxLength < W /\ Surplus < W /\ MaxLength \in Nat /\ Surplus \in Nat
    BY HttpBridgeAssumption
<1>2. ASSUME NEW x \in Int, 0 <= x, x < W PROVE x % W = x
    <2> HIDE DEF W
    <2> QED
        BY <1>1, <1>2
<1>3. ASSUME NEW x \in Int, x < 0, -W <= x PROVE x % W = x + W
    <2> HIDE DEF W
    <2> QED
        BY <1>1, <1>3
<1>4. /\ Missing(l, g) = IF g <= l THEN l - g ELSE l - g + W
      /\ Missing(l, g - n) = IF g - n <= l THEN l - (g - n) ELSE l - (g - n) + W
    BY DEF Missing
<1> HIDE DEF W
<1>5. Missing(l, g) \in 0..(W - 1) /\ (Missing(l, g) = 0 => g = l)
    BY <1>1, <1>4
<1>6. (Missing(l, g - n) - n) % W = Missing(l, g)
    <2>1. CASE g <= l
        BY <1>1, <1>2, <1>4, <2>1
    <2>2. CASE g > l /\ g - n <= l
        BY <1>1, <1>3, <1>4, <2>2
    <2>3. CASE g - n > l
        BY <1>1, <1>2, <1>4, <2>3
    <2> QED
        BY <2>1, <2>2, <2>3
<1> QED
    BY <1>5, <1>6 DEF W

\* Appending the job of a request that has none.
LEMMA AppendJob ==
    ASSUME BodyInv, NEW j \in Job, jobs' = Append(jobs, j), JobRight(j)',
           phase[j.request] # "queued",
           \A r \in Requests : r # j.request =>
               /\ phase'[r] = phase[r] /\ got'[r] = got[r]
               /\ left'[r] = left[r] /\ length'[r] = length[r]
    PROVE  JobsRight'
<1>1. /\ jobs \in Seq(Job) /\ Len(jobs) \in Nat /\ Len(jobs') = Len(jobs) + 1
      /\ jobs'[Len(jobs) + 1] = j
      /\ \A i \in 1..Len(jobs) : jobs'[i] = jobs[i] /\ jobs[i] \in Job
    BY DEF BodyInv, BodyTypes
<1>2. \A i \in 1..Len(jobs) : jobs[i].request # j.request /\ jobs[i].request \in Requests
    BY <1>1 DEF BodyInv, JobsRight, JobRight, Job
<1>3. ASSUME NEW k \in Job, JobRight(k), k.request # j.request PROVE JobRight(k)'
    BY <1>3 DEF JobRight, Missing, Job
<1>4. ASSUME NEW i \in 1..Len(jobs') PROVE JobRight(jobs[i])'
    <2>1. CASE i = Len(jobs) + 1
        BY <1>1, <2>1 DEF JobRight
    <2>2. CASE i \in 1..Len(jobs)
        BY <1>1, <1>2, <1>3, <2>2 DEF BodyInv, JobsRight, JobRight
    <2> QED
        BY <1>1, <2>1, <2>2
<1>5. \A i, k \in 1..Len(jobs') : jobs'[i].request = jobs'[k].request => i = k
    BY <1>1, <1>2 DEF BodyInv, JobsRight
<1> QED
    BY <1>4, <1>5 DEF JobsRight

\* A step of a request without a job that touches neither counters nor jobs.
LEMMA PhaseOnly ==
    ASSUME BodyInv, UNCHANGED <<length, left, got, jobs>>, NEW r \in Requests,
           \/ phase[r] = "sent" /\ phase' = [phase EXCEPT ![r] = "waiting"]
           \/ phase[r] = "waiting" /\ phase' = [phase EXCEPT ![r] = "done"]
    PROVE  BodyInv'
<1>1. BodyTypes'
    BY DEF BodyInv, BodyTypes, Phase
<1>2. \A q \in Requests : CountRight(q)'
    BY DEF BodyInv, BodyTypes, CountRight, Missing
<1>3. JobsRight'
    <2>1. \A i \in 1..Len(jobs) : jobs[i] \in Job /\ jobs[i].request \in Requests
        <3>1. \A k \in Job : k.request \in Requests
            BY DEF Job
        <3> QED
            BY <3>1 DEF BodyInv, BodyTypes
    <2>2. \A i \in 1..Len(jobs) : JobRight(jobs[i])'
        BY <2>1 DEF BodyInv, BodyTypes, JobsRight, JobRight, Missing
    <2> QED
        BY <2>2 DEF BodyInv, JobsRight
<1> QED
    BY <1>1, <1>2, <1>3 DEF BodyInv

\* A job subtracts its chunk; the request is handled only when exactly its
\* body has come.
LEMMA JobBody == BodyInv /\ RunJob => BodyInv'
<1> SUFFICES ASSUME BodyInv, RunJob PROVE BodyInv'
    OBVIOUS
<1> DEFINE j == Head(jobs)
           r == j.request
<1>1. /\ jobs # <<>> /\ jobs \in Seq(Job) /\ Len(jobs) \in Nat \ {0}
      /\ j \in Job /\ j = jobs[1]
      /\ jobs' = Tail(jobs) /\ jobs' \in Seq(Job) /\ Len(jobs') = Len(jobs) - 1
      /\ \A i \in 1..Len(jobs') : jobs'[i] = jobs[i + 1] /\ i + 1 \in 1..Len(jobs)
      /\ UNCHANGED <<length, got>>
    BY DEF RunJob, BodyInv, BodyTypes
<1>2. r \in Requests /\ j.size \in Nat /\ JobRight(j)
    BY <1>1, HttpBridgeAssumption DEF BodyInv, JobsRight, Job
<1>3. /\ length[r] \in 0..MaxLength /\ got[r] \in Nat /\ got[r] <= length[r] + Surplus
    BY <1>2 DEF BodyInv, BodyTypes
<1>4. /\ Missing(length[r], got[r]) \in 0..(2^Width - 1)
      /\ Missing(length[r], got[r]) = 0 => got[r] = length[r]
    <2>1. 0 \in Nat /\ 0 <= got[r]
        BY <1>3
    <2> QED
        BY <1>3, <2>1, SizeSubtract
<1>5. \/ /\ left' = [left EXCEPT ![r] = Missing(length[r], got[r])]
         /\ \/ phase' = [phase EXCEPT ![r] = "reading"]
            \/ /\ phase' = [phase EXCEPT ![r] = "sent"]
               /\ got[r] = length[r]
      \/ /\ left' = left
         /\ \E p \in {"done", "dropped"} : phase' = [phase EXCEPT ![r] = p]
    <2>1. ASSUME ReadOrHandle(r, Missing(length[r], got[r]))
          PROVE  /\ left' = [left EXCEPT ![r] = Missing(length[r], got[r])]
                 /\ \/ phase' = [phase EXCEPT ![r] = "reading"]
                    \/ /\ phase' = [phase EXCEPT ![r] = "sent"]
                       /\ got[r] = length[r]
        <3> DEFINE m == Missing(length[r], got[r])
        <3>1. m > 0 \/ m = 0
            BY <1>4
        <3> HIDE DEF m
        <3>2. m > 0 \/ got[r] = length[r]
            BY <1>4, <3>1 DEF m
        <3>3. /\ left' = [left EXCEPT ![r] = m]
              /\ \/ phase' = [phase EXCEPT ![r] = "reading"]
                 \/ phase' = [phase EXCEPT ![r] = "sent"] /\ ~(m > 0)
            BY <2>1 DEF ReadOrHandle, MoreToRead, HandleRequest, m
        <3> QED
            BY <3>2, <3>3 DEF m
    <2>2. CASE StartJob
        <3>1. Missing(length[r], got[r]) = length[r]
            BY <1>2, <1>3, <2>2, HttpBridgeAssumption DEF StartJob, JobRight, Missing
        <3> QED
            BY <2>1, <2>2, <3>1 DEF StartJob
    <2>3. CASE ChunkJob
        <3>1. (left[r] - j.size) % 2^Width = Missing(length[r], got[r])
            BY <1>2, <1>3, <2>3, SizeSubtract DEF ChunkJob, JobRight
        <3> QED
            BY <2>1, <2>3, <3>1 DEF ChunkJob
    <2> QED
        BY <2>2, <2>3 DEF RunJob
<1> HIDE DEF j, r
<1>6. BodyTypes'
    BY <1>1, <1>2, <1>4, <1>5 DEF BodyInv, BodyTypes, Phase
<1>7. \A q \in Requests : CountRight(q)'
    BY <1>1, <1>2, <1>5 DEF BodyInv, BodyTypes, CountRight, Missing
<1>8. JobsRight'
    <2>1. ASSUME NEW i \in 1..Len(jobs')
          PROVE  /\ jobs[i + 1] \in Job /\ jobs[i + 1].request \in Requests
                 /\ JobRight(jobs[i + 1]) /\ jobs[i + 1].request # r
        <3>1. \A k \in Job : k.request \in Requests
            BY DEF Job
        <3>2. i + 1 \in 1..Len(jobs) /\ 1 \in 1..Len(jobs) /\ i + 1 # 1
            BY <1>1, <2>1
        <3>3. jobs[i + 1] \in Job /\ JobRight(jobs[i + 1])
            BY <1>1, <3>2 DEF BodyInv, JobsRight
        <3>4. jobs[i + 1].request # jobs[1].request
            BY <3>2 DEF BodyInv, JobsRight
        <3> QED
            BY <1>1, <3>1, <3>3, <3>4 DEF r
    <2>2. ASSUME NEW k \in Job, JobRight(k), k.request # r PROVE JobRight(k)'
        BY <1>1, <1>5, <2>2 DEF BodyInv, BodyTypes, JobRight, Missing, Job
    <2>3. ASSUME NEW i \in 1..Len(jobs') PROVE JobRight(jobs[i])'
        BY <1>1, <2>1, <2>2 DEF JobRight
    <2>4. \A i, k \in 1..Len(jobs') : jobs'[i].request = jobs'[k].request => i = k
        BY <1>1 DEF BodyInv, JobsRight
    <2> QED
        BY <2>3, <2>4 DEF JobsRight
<1> QED
    BY <1>6, <1>7, <1>8 DEF BodyInv

\* Every step keeps the counters right.
LEMMA BodyStep == BodyInv /\ [Next]_vars => BodyInv'
<1> SUFFICES ASSUME BodyInv, [Next]_vars PROVE BodyInv'
    OBVIOUS
<1> USE HttpBridgeAssumption
<1>1. ASSUME NEW r \in Requests, Arrive(r) PROVE BodyInv'
    <2> DEFINE j == [request |-> r, kind |-> "start", size |-> 0]
    <2>1. j \in Job /\ j.request = r /\ j.kind = "start"
        BY DEF Job
    <2>2. jobs' = Append(jobs, j)
        BY <1>1 DEF Arrive
    <2> HIDE DEF j
    <2>3. BodyTypes'
        BY <1>1, <2>1, <2>2 DEF Arrive, BodyInv, BodyTypes, Phase
    <2>4. \A q \in Requests : CountRight(q)'
        BY <1>1 DEF Arrive, BodyInv, BodyTypes, CountRight, Missing
    <2>5. JobRight(j)'
        BY <1>1, <2>1 DEF Arrive, BodyInv, BodyTypes, CountRight, JobRight
    <2>6. JobsRight'
        BY <1>1, <2>1, <2>2, <2>5, AppendJob DEF Arrive, BodyInv, BodyTypes
    <2> QED
        BY <2>3, <2>4, <2>6 DEF BodyInv
<1>2. ASSUME NEW r \in Requests, ReadReturns(r) PROVE BodyInv'
    <2>1. PICK n \in 0..(MaxLength + Surplus) :
             /\ got[r] + n <= length[r] + Surplus
             /\ got' = [got EXCEPT ![r] = @ + n]
             /\ jobs' = Append(jobs, [request |-> r, kind |-> "chunk", size |-> n])
        BY <1>2 DEF ReadReturns
    <2> DEFINE j == [request |-> r, kind |-> "chunk", size |-> n]
    <2>2. j \in Job /\ j.request = r /\ j.kind = "chunk" /\ j.size = n
        BY DEF Job
    <2>3. jobs' = Append(jobs, j)
        BY <2>1
    <2> HIDE DEF j
    <2>4. BodyTypes'
        BY <1>2, <2>1, <2>2, <2>3 DEF ReadReturns, BodyInv, BodyTypes, Phase
    <2>5. \A q \in Requests : CountRight(q)'
        BY <1>2, <2>1 DEF ReadReturns, BodyInv, BodyTypes, CountRight, Missing
    <2>6. JobRight(j)'
        <3>1. /\ got[r] \in Nat /\ got'[r] = got[r] + n /\ phase'[r] = "queued"
              /\ left[r] = Missing(length[r], got[r])
            BY <1>2, <2>1 DEF ReadReturns, BodyInv, BodyTypes, CountRight
        <3>2. n <= got'[r] /\ got'[r] - n = got[r]
            BY <3>1
        <3> QED
            BY <1>2, <2>2, <3>1, <3>2 DEF ReadReturns, JobRight, Missing
    <2>7. JobsRight'
        BY <1>2, <2>1, <2>2, <2>3, <2>6, AppendJob DEF ReadReturns, BodyInv, BodyTypes
    <2> QED
        BY <2>4, <2>5, <2>7 DEF BodyInv
<1>3. ASSUME NEW r \in Requests, ReceiveFlag(r) PROVE BodyInv'
    <2>1. /\ UNCHANGED <<length, left, got, jobs>>
          /\ phase[r] = "sent" /\ phase' = [phase EXCEPT ![r] = "waiting"]
        BY <1>3 DEF ReceiveFlag
    <2> QED
        BY <2>1, PhaseOnly
<1>4. ASSUME NEW r \in Requests, GetResponse(r) PROVE BodyInv'
    <2>1. CASE phase' = [phase EXCEPT ![r] = "done"]
        BY <1>4, <2>1, PhaseOnly DEF GetResponse
    <2>2. CASE UNCHANGED phase
        BY <1>4, <2>2 DEF GetResponse, BodyInv, BodyTypes, JobsRight, JobRight,
                          CountRight, Missing
    <2> QED
        BY <1>4, <2>1, <2>2 DEF GetResponse, Write
<1>5. CASE RunJob
    BY <1>5, JobBody
<1>6. CASE UNCHANGED <<phase, length, left, got, jobs>>
    BY <1>6 DEF BodyInv, BodyTypes, JobsRight, JobRight, CountRight, Missing
<1> QED
    BY <1>1, <1>2, <1>3, <1>4, <1>5, <1>6
    DEF Next, Complete, Process, Answer, Stop, Stopped, vars

\* A request is handed to its handler with its whole body and nothing else, for
\* every Content-Length, every way of cutting the body into chunks and every
\* width of _size that exceeds what a connection delivers too much
\* (requestHandler.cpp 99-150).
THEOREM BodiesComplete == Spec => []BodyComplete
<1>1. Init => BodyInv
    BY HttpBridgeAssumption
    DEF Init, BodyInv, BodyTypes, JobsRight, CountRight, Phase
<1>2. BodyInv /\ [Next]_vars => BodyInv'
    BY BodyStep
<1>3. BodyInv => BodyComplete
    BY DEF BodyInv, CountRight, BodyComplete
<1> QED
    BY <1>1, <1>2, <1>3, PTL DEF Spec

-----------------------------------------------------------------------------
StatusType == status \in [Requests -> {"none", "ok", "not_supported", "error"}]

\* Every variable keeps its type: _size stays within its width and at most one
\* flag is under way.
THEOREM BridgeTypeCorrect == Spec => []TypeOK
<1>1. Init => BodyInv /\ StatusType
    BY HttpBridgeAssumption
    DEF Init, BodyInv, BodyTypes, JobsRight, CountRight, Phase, StatusType
<1>2. StatusType /\ [Next]_vars => StatusType'
    BY DEF StatusType, Next, vars, Arrive, ReadReturns, ReceiveFlag, GetResponse, Write,
           Complete, RunJob, StartJob, ChunkJob, Process, Answer, Stop, Stopped
<1>3. BridgeInv /\ BodyInv /\ StatusType => TypeOK
    <2> SUFFICES ASSUME BridgeInv, BodyInv, StatusType PROVE TypeOK
        OBVIOUS
    <2>1. toServer \in Seq(Requests) /\ toWorker \in Nat
        <3>1. CASE toServer = <<>> /\ toWorker \in {0, 1}
            BY <3>1
        <3>2. CASE toServer = <<worker>> /\ toWorker = 0 /\ worker # None
            BY <3>2 DEF BridgeInv, Types
        <3> QED
            BY <3>1, <3>2 DEF BridgeInv, OneItem, Asking, Flagged, Getting
    <2>2. response \in [Requests -> {"none", "pending"} \cup
                                    {"value", "broken", "invalid", "exception", "error"}]
        BY DEF BridgeInv, Types
    <2> QED
        BY <2>1, <2>2 DEF BridgeInv, Types, BodyInv, BodyTypes, StatusType, TypeOK
<1> QED
    BY <1>1, <1>2, <1>3, BodyStep, BridgeInvariance, PTL DEF Spec
=============================================================================
