---------------------------- MODULE ReceiverGroup ----------------------------
(***************************************************************************)
(* The receive group of zeroeq::Receiver (receiver.cpp): the receivers that *)
(* share one Impl, and receive() on any of them.                            *)
(*                                                                          *)
(* receive() updates the members, collects their sockets with the number    *)
(* each supplied, polls them, and walks over the sockets and the members    *)
(* side by side to find the one to call.  Functions run from process() may  *)
(* create and destroy members meanwhile.  Time is in milliseconds and moves *)
(* while a call works or sleeps.                                            *)
(***************************************************************************)
EXTENDS Integers, Sequences, FiniteSets, SequencesExt, FiniteSetsExt

CONSTANTS
    Receivers,      \* the receivers that may be members
    Founders,       \* those constructed at the start, in this order
    Supplied,       \* number of sockets addSockets() of each one appends
    Timeouts,       \* arguments of receive()
    Indefinite,     \* TIMEOUT_INDEFINITE
    Garbage,        \* what is read from freed memory
    MaxChanges,     \* bound: receivers created or destroyed
    MaxWork,        \* bound: ms spent in one stage of receive()
    MaxMessages,    \* bound: messages that arrive
    MaxThrows       \* bound: functions that end with an exception

ASSUME GroupAssumption ==
    /\ IsFiniteSet(Receivers)
    /\ Founders \in Seq(Receivers) /\ Founders # <<>> /\ IsInjective(Founders)
    /\ Supplied \in [Receivers -> Nat]
    /\ Indefinite \notin Nat /\ Timeouts \subseteq Nat \cup {Indefinite}
    /\ Garbage \notin Receivers
    /\ MaxChanges \in Nat /\ MaxWork \in Nat
    /\ MaxMessages \in Nat /\ MaxThrows \in Nat

Sockets == UNION {{<<r, k>> : k \in 1..Supplied[r]} : r \in Receivers}

VARIABLES
    shared,     \* _shared
    tail,       \* what erase() left in the storage behind the last member
    dangling,   \* the storage a running pass iterates over has been freed
    changed,    \* history: a function of the running pass changed the group
    pending,    \* messages waiting in each socket
    changes, arrived, threw,  \* counters for the bounds
    pc,         \* stage of receive()
    timeout,    \* its argument
    now,        \* ms since its start, counted up to the deadline
    lap,        \* ms since the start of the stage
    expired,    \* elapsed >= timeout when elapsed was computed
    remaining,  \* the time handed to zmq_poll
    polled,     \* sockets: those not reached yet
    signalled,  \* sockets with ZMQ_POLLIN in revents
    intervals, interval,
    at,         \* position of the iterator i
    callee,     \* the receiver whose process() runs
    hadData

callVars == <<timeout, expired, remaining>>
passVars == <<polled, signalled, intervals, interval, at, callee>>
groupVars == <<shared, tail, dangling, changed, changes>>
vars == <<groupVars, pending, arrived, threw, pc, now, lap, callVars, passVars,
          hadData>>

PC == {"idle", "update", "collect", "poll", "pass", "function", "return"}

TypeOK ==
    /\ IsInjective(shared) /\ shared \in Seq(Receivers)
    /\ tail \in Seq(Receivers)
    /\ dangling \in BOOLEAN /\ changed \in BOOLEAN
    /\ pending \in [Sockets -> 0..MaxMessages]
    /\ changes \in 0..MaxChanges
    /\ arrived \in 0..MaxMessages /\ threw \in 0..MaxThrows
    /\ pc \in PC
    /\ timeout \in Timeouts \cup {0}
    /\ now \in Nat /\ lap \in 0..(now + MaxWork)
    /\ expired \in BOOLEAN
    /\ remaining \in Nat
    /\ polled \in Seq(Sockets) /\ signalled \in SUBSET Sockets
    /\ intervals \in Seq(Nat) /\ interval \in Nat
    /\ at \in 1..(Cardinality(Receivers) + 1)
    /\ callee \in Receivers \cup {Garbage}
    /\ hadData \in BOOLEAN

\* Local variables outside their scope have a fixed value.
NoPass ==
    /\ polled' = <<>> /\ signalled' = {}
    /\ intervals' = <<>> /\ interval' = 0
    /\ at' = 1 /\ callee' = Garbage
    /\ tail' = <<>> /\ dangling' = FALSE /\ changed' = FALSE

NoCall ==
    /\ timeout' = 0 /\ now' = 0 /\ lap' = 0
    /\ expired' = FALSE /\ remaining' = 0
    /\ hadData' = FALSE

Init ==
    /\ shared = Founders
    /\ tail = <<>>
    /\ dangling = FALSE /\ changed = FALSE /\ changes = 0
    /\ pending = [s \in Sockets |-> 0]
    /\ arrived = 0 /\ threw = 0
    /\ pc = "idle"
    /\ timeout = 0 /\ now = 0 /\ lap = 0
    /\ expired = FALSE /\ remaining = 0
    /\ polled = <<>> /\ signalled = {}
    /\ intervals = <<>> /\ interval = 0
    /\ at = 1 /\ callee = Garbage
    /\ hadData = FALSE

-----------------------------------------------------------------------------
(* Membership *)

\* The application creates and destroys receivers between calls of receive() and
\* in the functions it runs.
InApplication ==
    /\ pc \in {"idle", "function"}
    /\ changes < MaxChanges
    /\ changes' = changes + 1
    /\ changed' = (pc = "function")

\* Impl::add: push_back fills the next element or moves to larger storage, and
\* a pass that is running then iterates over freed memory.
AddMember(r) ==
    /\ InApplication
    /\ r \notin Range(shared)
    /\ shared' = Append(shared, r)
    /\ tail' = SubSeq(tail, 2, Len(tail))
    /\ dangling' \in {dangling} \cup (IF tail = <<>> THEN {pc = "function"} ELSE {})
    /\ UNCHANGED <<pending, arrived, threw, pc, now, lap, callVars, passVars,
                   hadData>>

\* Impl::remove: remove and erase move the members behind r forward by one, and
\* leave the old last element where it was.  The receiver's sockets are closed.
RemoveMember(r) ==
    /\ InApplication
    /\ Len(shared) > 1
    /\ \E i \in DOMAIN shared :
          /\ shared[i] = r
          /\ shared' = RemoveAt(shared, i)
    /\ tail' = IF pc = "idle" THEN <<>> ELSE <<Last(shared)>> \o tail
    /\ pending' = [s \in Sockets |-> IF s[1] = r THEN 0 ELSE pending[s]]
    /\ UNCHANGED <<dangling, arrived, threw, pc, now, lap, callVars, passVars,
                   hadData>>

-----------------------------------------------------------------------------
(* receive() *)

\* receive(): the start time is taken.
Receive(t) ==
    /\ pc = "idle"
    /\ shared # <<>>
    /\ pc' = "update"
    /\ timeout' = t
    /\ now' = 0 /\ lap' = 0
    /\ hadData' = FALSE
    /\ UNCHANGED <<groupVars, pending, arrived, threw, expired, remaining,
                   passVars>>

\* All members are updated, then the elapsed time is computed, and _receive is
\* entered.  The time it is to wait, min(timeout - elapsed, timeout / 10, 1000),
\* is only read after line 132 has set it to 0.
Update ==
    /\ pc = "update"
    /\ expired' = (timeout # Indefinite /\ now >= timeout)
    /\ pc' = "collect"
    /\ lap' = 0
    /\ UNCHANGED <<groupVars, pending, arrived, threw, timeout, now, remaining,
                   passVars, hadData>>

\* Mutant: zmq_poll is given the whole timeout.
RemainingAll == IF timeout = Indefinite THEN 0 ELSE timeout

\* "remaining": the time since _receive was entered.
Remaining == lap

\* The sockets of one member, in the order of addSockets().
SocketsOf(r) == [k \in 1..Supplied[r] |-> <<r, k>>]

\* Mutant: only the first member is asked for its sockets.
CollectedFirst == Len(intervals) = 1

\* All members have been asked for their sockets.
Collected == Len(intervals) = Len(shared)

\* The next member appends its sockets, and their number is kept.
AddSockets ==
    /\ pc = "collect"
    /\ ~ Collected
    /\ LET r == shared[Len(intervals) + 1]
       IN  /\ polled' = polled \o SocketsOf(r)
           /\ intervals' = Append(intervals, Supplied[r])
    /\ UNCHANGED <<groupVars, pending, arrived, threw, pc, now, lap, callVars,
                   signalled, interval, at, callee, hadData>>

\* The time to poll is computed.
Collect ==
    /\ pc = "collect"
    /\ Collected
    /\ remaining' = Remaining
    /\ pc' = "poll"
    /\ lap' = 0
    /\ UNCHANGED <<groupVars, pending, arrived, threw, timeout, now, expired,
                   passVars, hadData>>

Ready == {s \in Range(polled) : pending[s] > 0}

\* zmq_poll returns at once if a socket is ready, or when one becomes ready.
PollEvents ==
    /\ pc = "poll"
    /\ Ready # {}
    /\ pc' = "pass"
    /\ remaining' = 0 /\ lap' = 0
    /\ signalled' = Ready
    /\ at' = 1
    /\ interval' = Head(intervals)
    /\ intervals' = Tail(intervals)
    /\ UNCHANGED <<groupVars, pending, arrived, threw, now, timeout, expired,
                   polled, callee, hadData>>

\* zmq_poll has slept for its time.
PollTimeout ==
    /\ pc = "poll"
    /\ Ready = {} /\ lap >= remaining
    /\ pc' = "return"
    /\ NoPass
    /\ lap' = 0 /\ remaining' = 0
    /\ UNCHANGED <<shared, changes, pending, arrived, threw, now, timeout, expired, hadData>>

\* Mutant: one step for each exhausted interval, members without sockets are
\* not skipped.
FoundNext == [skip |-> IF interval > 0 THEN 0 ELSE 1,
              left |-> IF interval > 0 THEN interval - 1
                       ELSE Max({intervals[1] - 1, 0})]

\* The iterator, the interval left and the intervals to come once the loop
\* "while (interval == 0 || interval-- == 0)" has found the member of the next
\* socket: it skips those that supplied none.
Found ==
    LET next == Min({k \in DOMAIN intervals : intervals[k] > 0})
    IN  IF interval > 0 THEN [skip |-> 0, left |-> interval - 1]
        ELSE [skip |-> next, left |-> intervals[next] - 1]

\* What *i reads at position p.
Pointee(p) ==
    LET cells == shared \o tail
    IN  IF dangling THEN Receivers \cup {Garbage}
        ELSE IF p \in DOMAIN cells THEN {cells[p]} ELSE {Garbage}

\* The next socket of the pass; if it is signalled, process() of the member the
\* iterator points to reads one of its messages.
NextSocket ==
    /\ pc = "pass"
    /\ polled # <<>>
    /\ LET s == Head(polled)
       IN  /\ at' = at + Found.skip
           /\ interval' = Found.left
           /\ intervals' = SubSeq(intervals, Found.skip + 1, Len(intervals))
           /\ IF s \in signalled
              THEN /\ callee' \in Pointee(at')
                   /\ pending' = [pending EXCEPT ![s] = IF @ > 0 THEN @ - 1 ELSE 0]
                   /\ pc' = "function"
                   /\ lap' = 0
                   /\ UNCHANGED polled
              ELSE /\ polled' = Tail(polled)
                   /\ UNCHANGED <<callee, pending, pc, lap>>
    /\ UNCHANGED <<groupVars, arrived, threw, now, callVars, signalled, hadData>>

\* process() returns whether it communicated an event to the application.
ProcessReturns(b) ==
    /\ pc = "function"
    /\ hadData' = (hadData \/ b)
    /\ polled' = Tail(polled)
    /\ pc' = "pass"
    /\ lap' = 0
    /\ callee' = Garbage
    /\ UNCHANGED <<groupVars, pending, arrived, threw, now, callVars, signalled,
                   intervals, interval, at>>

\* A function throws: the exception leaves receive().
ProcessThrows ==
    /\ pc = "function"
    /\ threw < MaxThrows
    /\ threw' = threw + 1
    /\ pc' = "idle"
    /\ NoPass /\ NoCall
    /\ UNCHANGED <<shared, changes, pending, arrived>>

\* The pass is over.  Its loop ends here, as the elapsed time is never less
\* than the timeout, which is 0 by now.
PassEnd ==
    /\ pc = "pass"
    /\ polled = <<>>
    /\ pc' = "return"
    /\ NoPass
    /\ lap' = 0 /\ remaining' = 0
    /\ UNCHANGED <<shared, changes, pending, arrived, threw, now, timeout, expired, hadData>>

\* Mutant: receive() starts over until it has data.
AgainUntilData ==
    /\ pc = "return"
    /\ IF hadData
       THEN /\ pc' = "idle"
            /\ NoCall
       ELSE /\ pc' = "update"
            /\ lap' = 0
            /\ UNCHANGED <<now, callVars, hadData>>
    /\ UNCHANGED <<groupVars, pending, arrived, threw, passVars>>

\* _receive has returned: receive() and _blockingReceive() return with an event,
\* the former also when its time was over before the poll, or start over.
Again ==
    /\ pc = "return"
    /\ IF hadData \/ expired
       THEN /\ pc' = "idle"
            /\ NoCall
       ELSE /\ pc' = "update"
            /\ lap' = 0
            /\ UNCHANGED <<now, callVars, hadData>>
    /\ UNCHANGED <<groupVars, pending, arrived, threw, passVars>>

-----------------------------------------------------------------------------
(* Time and peers *)

\* Two rounds of receive() after the timeout: an update, the collection of the
\* sockets, a sleep and one function per socket each.
Deadline == timeout + (5 + 2 * Cardinality(Sockets)) * MaxWork

\* A millisecond passes: in one of the stages, or asleep in zmq_poll.
Tick ==
    /\ \/ pc \in {"update", "collect", "function"} /\ lap < MaxWork
       \/ pc = "poll" /\ Ready = {} /\ lap < remaining
    /\ lap' = lap + 1
    /\ now' = IF timeout = Indefinite \/ now > Deadline THEN now ELSE now + 1
    /\ UNCHANGED <<groupVars, pending, arrived, threw, pc, callVars, passVars,
                   hadData>>

\* A message reaches a socket of a member.
Arrive(s) ==
    /\ arrived < MaxMessages
    /\ s[1] \in Range(shared)
    /\ arrived' = arrived + 1
    /\ pending' = [pending EXCEPT ![s] = @ + 1]
    /\ UNCHANGED <<groupVars, threw, pc, now, lap, callVars, passVars, hadData>>

-----------------------------------------------------------------------------
Next ==
    \/ \E r \in Receivers : AddMember(r) \/ RemoveMember(r)
    \/ \E t \in Timeouts : Receive(t)
    \/ Update \/ AddSockets \/ Collect \/ PollEvents \/ PollTimeout \/ NextSocket
    \/ \E b \in BOOLEAN : ProcessReturns(b)
    \/ ProcessThrows
    \/ PassEnd \/ Again \/ Tick
    \/ \E s \in Sockets : Arrive(s)

Spec == Init /\ [][Next]_vars

\* The application keeps calling receive(), functions return, and time passes.
Fairness ==
    /\ WF_vars(\E t \in Timeouts : Receive(t))
    /\ WF_vars(Update) /\ WF_vars(AddSockets) /\ WF_vars(Collect)
    /\ WF_vars(PollEvents) /\ WF_vars(PollTimeout)
    /\ WF_vars(NextSocket) /\ WF_vars(\E b \in BOOLEAN : ProcessReturns(b))
    /\ WF_vars(PassEnd) /\ WF_vars(Again)
    /\ SF_vars(Tick)

FairSpec == Spec /\ Fairness

-----------------------------------------------------------------------------
(* Properties *)

\* Walking over sockets and intervals side by side gives each socket back to
\* the receiver that supplied it (receiver.cpp 121-143; receiver.h 75-77: "the
\* socket provided from addSockets()"), for members with any number of sockets in
\* any order.  Once a function of the pass has created or destroyed a receiver,
\* the iterator is invalid and the rest of that pass may call any other one; the
\* next pass is right again.
OwnSocket ==
    pc = "function" /\ ~changed => callee = Head(polled)[1]

\* receive(timeout) returns at most two rounds of its own work after its
\* timeout: it never sleeps past the deadline for longer than collecting the
\* sockets took, although zmq_poll is given the elapsed time (receiver.cpp 106-110).
Punctual ==
    timeout # Indefinite /\ pc # "idle" =>
        now <= Deadline

\* receive() with a timeout returns, and without one it returns once an event
\* has been communicated.
ReceiveReturns ==
    pc # "idle" /\ (timeout # Indefinite \/ hadData) ~> pc = "idle"

\* A message waiting in a socket of a member is read, although a pass reads one
\* message per socket and an exception skips the sockets behind it (receiver.cpp 134).
AllRead ==
    \A s \in Sockets : pending[s] > 0 ~> pending[s] = 0

\* The types, and the assignment of sockets to members: the walk of _receive over
\* its three lists stays in step (receiver.cpp 121-151).
PassInv == TypeOK /\ OwnSocket
=============================================================================
