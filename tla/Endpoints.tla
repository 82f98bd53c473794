------------------------------ MODULE Endpoints ------------------------------
(***************************************************************************)
(* Addresses and sessions: zeroeq::URI (uri.cpp), the strings handed to ZMQ *)
(* (detail/common.h), the endpoint read back from it (detail/sender.cpp)    *)
(* and the choice of a session.                                             *)
(*                                                                          *)
(* A string "[scheme://][host][:port]" is the record of its parts, "" and 0 *)
(* for a part that is not there.  Parsing itself is servus::URI's.          *)
(***************************************************************************)
EXTENDS Integers

CONSTANTS
    Hostname,   \* what gethostname() returns
    UserName,   \* getUserName(): the login, or UNKNOWN_USER
    AppName,    \* getApplicationName(): the last part of the executable's path
    Env         \* ZEROEQ_PUB_SESSION, ZEROEQ_SESSION and ZEROEQ_SERVER_SESSION

DEFAULT_SCHEMA == "tcp"
DEFAULT_SESSION == "__zeroeq"
NULL_SESSION == "__null_session"
TEST_SESSION == "test"
PUBLISHER_SERVICE == "_zeroeq_pub._tcp"
SERVER_SERVICE == "_zeroeq_rep._tcp"

ASSUME EndpointsAssumption ==
    /\ Env \in [pub : STRING, old : STRING, rep : STRING]
    /\ {Hostname, UserName, AppName} \subseteq STRING \ {"", "*", "0.0.0.0"}

\* Literals are strings, which the provers are not aware of.
ASSUME LiteralsAssumption ==
    {"", "*", "0.0.0.0", DEFAULT_SCHEMA, DEFAULT_SESSION, TEST_SESSION,
     PUBLISHER_SERVICE, SERVER_SERVICE} \subseteq STRING

\* Strings in their parts, and the URIs made from them, which have a scheme.
Addresses == [scheme : STRING, host : STRING, port : Nat]
URIs == {u \in Addresses : u.scheme # ""}

\* createURI: a string without scheme is parsed again as "tcp://" with it, and
\* "*" in place of a missing host.
CreateURI(t) ==
    IF t.scheme = ""
    THEN [scheme |-> DEFAULT_SCHEMA,
          host |-> IF t.host = "" THEN "*" ELSE t.host,
          port |-> t.port]
    ELSE t

\* URI::URI(): "tcp://".
DefaultURI == [scheme |-> DEFAULT_SCHEMA, host |-> "", port |-> 0]

\* URI::URI(servus::URI): without a scheme, servus has taken all of the string
\* for the path.
FromServus(t) ==
    IF t.scheme = "" THEN DefaultURI ELSE t

\* The constructors of URI: from nothing, a string or a servus::URI.
UriOf(a) ==
    CASE a.via = "nothing" -> DefaultURI
      [] a.via = "string" -> CreateURI(a.text)
      [] a.via = "servus" -> FromServus(a.text)

\* URI::isFullyQualified.
IsFullyQualified(u) ==
    u.scheme # DEFAULT_SCHEMA \/ (u.host # "" /\ u.port # 0)

\* ":*" in an address for zmq.
AnyPort == -1

\* buildZmqURI: zmq expects "*" for any host and any port.
BuildZmqURI(u) ==
    IF u.scheme = DEFAULT_SCHEMA
    THEN [scheme |-> u.scheme,
          host |-> IF u.host = "" THEN "*" ELSE u.host,
          port |-> IF u.port = 0 THEN AnyPort ELSE u.port]
    ELSE u

\* Sender::_getEndPoint: the host and port of ZMQ_LAST_ENDPOINT.
GetEndPoint(e) ==
    [host |-> IF e.host = "0.0.0.0" THEN Hostname ELSE e.host, port |-> e.port]

\* Mutant: the host is completed only together with the port.
InitURIBoth(u, e) ==
    IF u.scheme # DEFAULT_SCHEMA \/ u.port # 0 THEN u
    ELSE [u EXCEPT !.host = IF @ \in {"", "*"} THEN GetEndPoint(e).host ELSE @,
                   !.port = GetEndPoint(e).port]

\* Sender::initURI: a missing host or port is taken from the endpoint e.
InitURI(u, e) ==
    IF u.scheme # DEFAULT_SCHEMA THEN u
    ELSE [u EXCEPT !.host = IF @ \in {"", "*"} THEN GetEndPoint(e).host ELSE @,
                   !.port = IF @ = 0 THEN GetEndPoint(e).port ELSE @]

\* getDefaultPubSession: an empty variable counts as unset.
DefaultPubSession ==
    IF Env.pub # "" THEN Env.pub
    ELSE IF Env.old # "" THEN Env.old
    ELSE UserName

\* getDefaultRepSession.
DefaultRepSession == IF Env.rep # "" THEN Env.rep ELSE AppName

\* The session a publisher or server of the given argument announces, and a
\* subscriber or client browses for.
PubSession(arg) == IF arg = DEFAULT_SESSION THEN DefaultPubSession ELSE arg
RepSession(arg) == IF arg = DEFAULT_SESSION THEN DefaultRepSession ELSE arg

\* The zeroconf service used for a session: tests have one of their own.
Service(service, session) == IF session = TEST_SESSION THEN session ELSE service
=============================================================================
