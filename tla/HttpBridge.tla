----------------------------- MODULE HttpBridge -----------------------------
(***************************************************************************)
(* The way of an HTTP request through zeroeq::http::Server                  *)
(* (http/requestHandler.cpp, http/server.cpp 199-206 and 663-709).          *)
(*                                                                          *)
(* cppnetlib runs the ConnectionHandler of a connection as jobs of a pool   *)
(* with one worker thread: one job for the request, one for each chunk of   *)
(* its body.  _handleRequest puts a Message on the worker's stack, sends    *)
(* its address over a ZMQ_PAIR, waits for the answer flag, and then for the *)
(* std::future the application's thread has stored in the message.  That    *)
(* thread answers in Server::process, called by receive(), and finally      *)
(* destroys the server.  A handler may complete its future later, from      *)
(* another thread.                                                          *)
(***************************************************************************)
EXTENDS Integers, Sequences, FiniteSets

CONSTANTS
    Requests,   \* HTTP requests, each on a connection of its own
    None,       \* no request
    MaxLength,  \* bound: Content-Length, in the smallest unit a read returns
    Surplus,    \* units a connection may deliver beyond the Content-Length
    Width,      \* bits of ConnectionHandler::_size
    Outcomes,   \* how asynchronous handlers end
    CanStop     \* whether the application destroys the server

ASSUME HttpBridgeAssumption ==
    /\ None \notin Requests
    /\ MaxLength \in Nat /\ Surplus \in Nat /\ Width \in Nat
    /\ 2^Width \in Nat /\ MaxLength < 2^Width /\ Surplus < 2^Width
    /\ Outcomes \subseteq {"value", "broken", "invalid", "exception"}
    /\ CanStop \in BOOLEAN

VARIABLES
    phase,      \* how far each request is
    length,     \* its Content-Length, 0 for a GET, whose body is never read
    left,       \* ConnectionHandler::_size
    got,        \* history: units of the body received
    jobs,       \* jobs waiting for the pool's worker
    worker,     \* the request whose _handleRequest occupies the worker
    toServer,   \* PAIR, worker to application: addresses of messages
    toWorker,   \* PAIR, application to worker: number of answer flags
    response,   \* Message::response
    status,     \* what has been written to the connection
    app         \* the application's thread, and the process with it

vars == <<phase, length, left, got, jobs, worker, toServer, toWorker, response,
          status, app>>

Phase == {"new",      \* not sent by the client yet
          "queued",   \* its next job is in the pool
          "reading",  \* waiting for a chunk
          "sent",     \* the worker waits for the answer flag
          "waiting",  \* the worker waits for the future
          "done",     \* answered
          "dropped"}  \* reading failed, connection abandoned

\* size 0 is a failed read.
Job == [request : Requests, kind : {"start", "chunk"},
        size : 0..(MaxLength + Surplus)]

TypeOK ==
    /\ phase \in [Requests -> Phase]
    /\ length \in [Requests -> 0..MaxLength]
    /\ left \in [Requests -> 0..(2^Width - 1)]
    /\ got \in [Requests -> Nat]
    /\ jobs \in Seq(Job)
    /\ worker \in Requests \cup {None}
    /\ toServer \in Seq(Requests)
    /\ toWorker \in Nat
    /\ response \in [Requests -> {"none", "pending"} \cup
                                 {"value", "broken", "invalid", "exception", "error"}]
    /\ status \in [Requests -> {"none", "ok", "not_supported", "error"}]
    /\ app \in {"running", "stopping", "stopped", "terminated"}

Init ==
    /\ phase = [r \in Requests |-> "new"]
    /\ length \in [Requests -> 0..MaxLength]
    /\ left = [r \in Requests |-> 0]
    /\ got = [r \in Requests |-> 0]
    /\ jobs = <<>>
    /\ worker = None
    /\ toServer = <<>>
    /\ toWorker = 0
    /\ response = [r \in Requests |-> "none"]
    /\ status = [r \in Requests |-> "none"]
    /\ app = "running"

-----------------------------------------------------------------------------
(* The connections *)

\* cppnetlib has parsed the headers of a request and posts the handler.
Arrive(r) ==
    /\ app = "running"
    /\ phase[r] = "new"
    /\ phase' = [phase EXCEPT ![r] = "queued"]
    /\ jobs' = Append(jobs, [request |-> r, kind |-> "start", size |-> 0])
    /\ UNCHANGED <<length, left, got, worker, toServer, toWorker, response,
                   status, app>>

\* A pending read returns some units, possibly more than the body has, or
\* fails.
ReadReturns(r) ==
    /\ app = "running"
    /\ phase[r] = "reading"
    /\ \E n \in 0..(MaxLength + Surplus) :
          /\ got[r] + n <= length[r] + Surplus
          /\ got' = [got EXCEPT ![r] = @ + n]
          /\ jobs' = Append(jobs, [request |-> r, kind |-> "chunk", size |-> n])
    /\ phase' = [phase EXCEPT ![r] = "queued"]
    /\ UNCHANGED <<length, left, worker, toServer, toWorker, response, status,
                   app>>

-----------------------------------------------------------------------------
(* The worker *)

\* _handleRequest up to the wait for the answer flag.
HandleRequest(r) ==
    /\ phase' = [phase EXCEPT ![r] = "sent"]
    /\ worker' = r
    /\ toServer' = Append(toServer, r)

\* Mutant: the last unit is not read.
MoreToReadShort(n) == n > 1

\* Whether a read is still needed when n units are left.
MoreToRead(n) == n > 0

\* The handler reads the body if there is one, and handles the request once
\* the rest is 0.
ReadOrHandle(r, n) ==
    /\ left' = [left EXCEPT ![r] = n]
    /\ IF MoreToRead(n)
       THEN /\ phase' = [phase EXCEPT ![r] = "reading"]
            /\ UNCHANGED <<worker, toServer>>
       ELSE HandleRequest(r)

\* Mutant: the length is off by one.
StartJobShort ==
    /\ Head(jobs).kind = "start"
    /\ ReadOrHandle(Head(jobs).request, length[Head(jobs).request] - 1)
    /\ UNCHANGED status

\* ConnectionHandler::operator(): a method or a Content-Length that cannot be
\* parsed is not supported.
StartJob ==
    /\ Head(jobs).kind = "start"
    /\ LET r == Head(jobs).request
       IN  \/ /\ ReadOrHandle(r, length[r])
              /\ UNCHANGED status
           \/ /\ status' = [status EXCEPT ![r] = "not_supported"]
              /\ phase' = [phase EXCEPT ![r] = "done"]
              /\ UNCHANGED <<left, worker, toServer>>

\* ConnectionHandler::_handleChunk: _size is unsigned.
ChunkJob ==
    /\ Head(jobs).kind = "chunk"
    /\ LET r == Head(jobs).request
           n == Head(jobs).size
       IN  IF n = 0
           THEN /\ phase' = [phase EXCEPT ![r] = "dropped"]
                /\ UNCHANGED <<left, worker, toServer>>
           ELSE ReadOrHandle(r, (left[r] - n) % 2^Width)
    /\ UNCHANGED status

\* The free worker runs the oldest job.
RunJob ==
    /\ app # "terminated"
    /\ worker = None
    /\ jobs # <<>>
    /\ jobs' = Tail(jobs)
    /\ StartJob \/ ChunkJob
    /\ UNCHANGED <<length, got, toWorker, response, app>>

\* Mutant: the worker does not wait for the flag.
ReceiveFlagUnasked(r) ==
    /\ worker = r
    /\ phase[r] = "sent"
    /\ phase' = [phase EXCEPT ![r] = "waiting"]
    /\ UNCHANGED <<length, left, got, jobs, worker, toServer, toWorker, response,
                   status, app>>

\* The worker receives the answer flag.
ReceiveFlag(r) ==
    /\ app # "terminated"
    /\ worker = r
    /\ phase[r] = "sent"
    /\ toWorker > 0
    /\ toWorker' = toWorker - 1
    /\ phase' = [phase EXCEPT ![r] = "waiting"]
    /\ UNCHANGED <<length, left, got, jobs, worker, toServer, response, status,
                   app>>

\* The response is written and the message leaves the worker's stack.
Write(r, code) ==
    /\ status' = [status EXCEPT ![r] = code]
    /\ phase' = [phase EXCEPT ![r] = "done"]
    /\ worker' = None

\* Mutant: a broken promise is waited for.
GetResponseBroken(r) ==
    /\ worker = r
    /\ phase[r] = "waiting"
    /\ response[r] \in {"value", "error"}
    /\ Write(r, "ok")
    /\ UNCHANGED <<length, left, got, jobs, toServer, toWorker, response, app>>

\* future::get: blocks while the response is pending.  A broken promise is a
\* std::future_error and becomes a 500.  Any other exception a handler has put
\* into the promise leaves _handleRequest: operator(), which calls it for a
\* request without a body, catches std::invalid_argument; nothing else is
\* caught on the worker's thread, and the process is terminated.
GetResponse(r) ==
    /\ app # "terminated"
    /\ worker = r
    /\ phase[r] = "waiting"
    /\ \/ response[r] = "value" /\ Write(r, "ok") /\ UNCHANGED app
       \/ response[r] \in {"error", "broken", "none"} /\ Write(r, "error")
          /\ UNCHANGED app
       \/ response[r] = "invalid" /\ length[r] = 0 /\ Write(r, "not_supported")
          /\ UNCHANGED app
       \/ /\ \/ response[r] = "exception"
             \/ response[r] = "invalid" /\ length[r] > 0
          /\ app' = "terminated"
          /\ UNCHANGED <<phase, worker, status>>
    /\ UNCHANGED <<length, left, got, jobs, toServer, toWorker, response>>

-----------------------------------------------------------------------------
(* The application *)

\* Server::process stores the future the handler returned and sends the flag.
Answer(outcomes, flags) ==
    /\ app = "running"
    /\ toServer # <<>>
    /\ toServer' = Tail(toServer)
    /\ \E o \in outcomes : response' = [response EXCEPT ![Head(toServer)] = o]
    /\ toWorker' = toWorker + flags
    /\ UNCHANGED <<phase, length, left, got, jobs, worker, status, app>>

\* Mutant: no response is stored when the handler throws.
ProcessNoCatch == Answer({"value", "pending", "none"}, 1)

\* Mutant: no flag is sent.
ProcessNoFlag == Answer({"value", "pending", "error"}, 0)

\* A handler answers at once, answers later, or throws ("error", a 500).
Process == Answer({"value", "pending", "error"}, 1)

\* An asynchronous handler ends.
Complete(r) ==
    /\ app # "terminated"
    /\ response[r] = "pending"
    /\ \E o \in Outcomes : response' = [response EXCEPT ![r] = o]
    /\ UNCHANGED <<phase, length, left, got, jobs, worker, toServer, toWorker,
                   status, app>>

\* ~Impl: no more connections are served, then the pool is joined.
Stop ==
    /\ CanStop
    /\ app = "running"
    /\ app' = "stopping"
    /\ UNCHANGED <<phase, length, left, got, jobs, worker, toServer, toWorker,
                   response, status>>

\* Mutant: the sockets are closed while the worker is busy.
StoppedEarly ==
    /\ app = "stopping"
    /\ jobs = <<>>
    /\ app' = "stopped"
    /\ UNCHANGED <<phase, length, left, got, jobs, worker, toServer, toWorker,
                   response, status>>

\* The pool has run all its jobs: its worker is joined, the sockets are closed.
Stopped ==
    /\ app = "stopping"
    /\ jobs = <<>>
    /\ worker = None
    /\ app' = "stopped"
    /\ UNCHANGED <<phase, length, left, got, jobs, worker, toServer, toWorker,
                   response, status>>

-----------------------------------------------------------------------------
Next ==
    \/ \E r \in Requests :
          \/ Arrive(r) \/ ReadReturns(r)
          \/ ReceiveFlag(r) \/ GetResponse(r) \/ Complete(r)
    \/ RunJob
    \/ Process
    \/ Stop
    \/ Stopped

Spec == Init /\ [][Next]_vars

\* The worker and the io thread run, the application keeps calling receive(),
\* asynchronous handlers end, and reads return or fail.
Fairness ==
    /\ \A r \in Requests :
          /\ WF_vars(ReadReturns(r))
          /\ WF_vars(ReceiveFlag(r))
          /\ WF_vars(GetResponse(r))
          /\ WF_vars(Complete(r))
    /\ WF_vars(RunJob)
    /\ WF_vars(Process)
    /\ WF_vars(Stopped)

FairSpec == Spec /\ Fairness

-----------------------------------------------------------------------------
(* Properties *)

\* The address the application receives is that of a message still on the
\* stack of the worker, which waits for it (requestHandler.cpp 164-167).
PointerValid ==
    \A i \in DOMAIN toServer :
        toServer[i] = worker /\ phase[toServer[i]] = "sent"

\* When the worker looks at the future, the application has stored one for this
\* very request: the flags, which name no request, never run ahead or behind.
FlagMeansAnswered ==
    \A r \in Requests : phase[r] = "waiting" => response[r] # "none"

\* A request is handled with its whole body and nothing else: "after all data
\* has been read" (requestHandler.cpp 107-108), however it was cut into chunks
\* and even when a connection delivers more than it announced, which makes the
\* unsigned number of missing bytes wrap around.
BodyComplete ==
    \A r \in Requests :
        phase[r] \in {"sent", "waiting"} => got[r] = length[r]

\* When the sockets and the handlers are destroyed, no worker is using them.
StoppedIsQuiet ==
    app = "stopped" => /\ worker = None
                       /\ toServer = <<>>
                       /\ \A r \in Requests : phase[r] \notin {"sent", "waiting"}

\* Every request that arrived is answered or its connection has failed, unless
\* the server is destroyed, while slow asynchronous handlers hold the one worker.
EveryRequestAnswered ==
    \A r \in Requests :
        phase[r] = "queued" ~> phase[r] \in {"done", "dropped"} \/ app # "running"

\* No job is left and the worker, if busy, has its flag.
Quiet ==
    /\ jobs = <<>>
    /\ worker # None => phase[worker] = "waiting" \/ toWorker > 0

\* The destructor returns if it was called when no request was waiting for the
\* application and no handler brings the process down.
CleanStop == (app = "stopping" /\ Quiet) ~> app \in {"stopped", "terminated"}
=============================================================================
