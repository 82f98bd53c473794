----------------------------- MODULE HttpRoutes -----------------------------
(***************************************************************************)
(* What zeroeq::http::Server serves: the registration of functions, objects *)
(* and schemas, and the answer to a request (http/server.cpp 83-128,        *)
(* 208-447 and 564-651).                                                    *)
(*                                                                          *)
(* Endpoints and paths are strings of which only prefixes, the slash and    *)
(* the words "schema" and "registry" matter: they are sequences of pieces,  *)
(* "/" and "schema" being pieces of their own.  All operations are called   *)
(* by the application's thread, requests from receive().                    *)
(***************************************************************************)
EXTENDS Integers, Sequences, FiniteSets, SequencesExt

CONSTANTS
    Methods,      \* HTTP methods
    Endpoints,    \* endpoints the application may use
    Paths,        \* paths that are requested, without the leading slash
    Schemas,      \* non-empty schemas
    NoSchema,     \* the empty schema
    Objects,      \* servus::Serializable objects
    TypeEndpoint, \* the endpoint made from an object's type name
    SchemaOf,     \* the schema of an object
    Func,         \* a function of the application, bound to no object
    NoHandler     \* nothing registered

ASSUME HttpRoutesAssumption ==
    /\ {"GET", "PUT"} \subseteq Methods
    /\ Endpoints \subseteq Seq(STRING) /\ Paths \subseteq Seq(STRING)
    /\ NoSchema \notin Schemas
    /\ TypeEndpoint \in [Objects -> Endpoints]
    /\ SchemaOf \in [Objects -> Schemas \cup {NoSchema}]
    /\ Func \notin Objects /\ NoHandler \notin Objects \cup {Func}

VARIABLES
    methods,   \* _methods: what is called for a method at an endpoint
    schemas,   \* _schemas
    retired    \* history: objects removed and not registered again since

vars == <<methods, schemas, retired>>

Handlers == Objects \cup {Func}

TypeOK ==
    /\ methods \in [Methods -> [Endpoints -> Handlers \cup {NoHandler}]]
    /\ schemas \in [Endpoints -> Schemas \cup {NoSchema}]
    /\ retired \in SUBSET Objects
    /\ <<"registry">> \in Endpoints =>
          \A m \in Methods : methods[m][<<"registry">>] = NoHandler

Init ==
    /\ methods = [m \in Methods |-> [e \in Endpoints |-> NoHandler]]
    /\ schemas = [e \in Endpoints |-> NoSchema]
    /\ retired = {}

-----------------------------------------------------------------------------
(* Registration *)

\* _checkEndpointName throws for the name of the registry.
Registrable(e) == e # <<"registry">>

\* Whether handle(m, e, ..) returns true for the given table.
Free(table, m, e) == Registrable(e) /\ table[m][e] = NoHandler

\* Mutant: a schema replaces the one registered before.
RegisterSchemaAgain(old, e, s) == [old EXCEPT ![e] = s]

\* registerSchema and getSchema; a different schema throws and changes nothing.
RegisterSchema(old, e, s) ==
    IF s # NoSchema /\ old[e] = NoSchema THEN [old EXCEPT ![e] = s] ELSE old

\* handle(method, endpoint, func).
Handle(m, e) ==
    /\ Free(methods, m, e)
    /\ methods' = [methods EXCEPT ![m][e] = Func]
    /\ UNCHANGED <<schemas, retired>>

\* handlePUT and handleGET: the function is registered first and stays when
\* registerSchema throws.
HandleWithSchema(m, e, s, h) ==
    /\ Free(methods, m, e)
    /\ methods' = [methods EXCEPT ![m][e] = h]
    /\ schemas' = RegisterSchema(schemas, e, s)
    /\ retired' = retired \ {h}

\* handle(object) and handle(endpoint, object): handlePUT && handleGET.  An
\* exception or a refusal ends it, what was registered stays.
HandleObject(o, e) ==
    LET conflict == SchemaOf[o] # NoSchema /\ schemas[e] \notin {NoSchema, SchemaOf[o]}
        put      == [methods EXCEPT !["PUT"][e] = o]
    IN  /\ Free(methods, "PUT", e)
        /\ methods' = IF ~conflict /\ Free(put, "GET", e)
                      THEN [put EXCEPT !["GET"][e] = o] ELSE put
        /\ schemas' = RegisterSchema(schemas, e, SchemaOf[o])
        /\ retired' = retired \ {o}

\* Mutant: the schema stays.
RemoveEndpointOnly(e) ==
    /\ methods' = [m \in Methods |-> [methods[m] EXCEPT ![e] = NoHandler]]
    /\ UNCHANGED <<schemas, retired>>

\* remove(endpoint).
RemoveEndpoint(e) ==
    /\ schemas' = [schemas EXCEPT ![e] = NoSchema]
    /\ methods' = [m \in Methods |-> [methods[m] EXCEPT ![e] = NoHandler]]
    /\ UNCHANGED retired

\* remove(object): the endpoint is always the one of the type name.
RemoveObject(o) ==
    LET e == TypeEndpoint[o]
    IN  /\ schemas' = [schemas EXCEPT ![e] = NoSchema]
        /\ methods' = [m \in Methods |->
              IF m \in {"PUT", "GET"} THEN [methods[m] EXCEPT ![e] = NoHandler]
              ELSE methods[m]]
        /\ retired' = retired \cup {o}

Next ==
    \/ \E e \in Endpoints :
          \/ \E m \in Methods : Handle(m, e)
          \/ \E m \in {"PUT", "GET"}, s \in Schemas : HandleWithSchema(m, e, s, Func)
          \/ \E m \in {"PUT", "GET"}, o \in Objects :
                HandleWithSchema(m, e, SchemaOf[o], o)
          \/ \E o \in Objects : HandleObject(o, e)
          \/ RemoveEndpoint(e)
    \/ \E o \in Objects : RemoveObject(o)

Spec == Init /\ [][Next]_vars

-----------------------------------------------------------------------------
(* Requests *)

\* The part before the last slash, the whole string if there is none.
Parent(p) ==
    LET slashes == {i \in DOMAIN p : p[i] = "/"}
    IN  IF slashes = {} THEN p
        ELSE SubSeq(p, 1, (CHOOSE i \in slashes : \A j \in slashes : j <= i) - 1)

\* _endsWithSchema, and a schema is registered for the endpoint before it.
AsksSchema(p) ==
    /\ p # <<>> /\ Last(p) = "schema"
    /\ Parent(p) \in Endpoints
    /\ schemas[Parent(p)] # NoSchema

Registered(m) == {e \in Endpoints : methods[m][e] # NoHandler}

\* The registered endpoints the path begins with.
BeginsWith(m, p) == {e \in Registered(m) : IsPrefix(e, p)}

\* Mutant: the endpoints are looked at in ascending order.
FirstAscending(m, p) ==
    CHOOSE e \in BeginsWith(m, p) : \A f \in BeginsWith(m, p) : Len(e) <= Len(f)

\* std::find_if on a map in descending order: of the prefixes of one string the
\* longest is the greatest.
First(m, p) ==
    CHOOSE e \in BeginsWith(m, p) : \A f \in BeginsWith(m, p) : Len(f) <= Len(e)

\* _removeEndpointFromPath.
Stripped(e, p) == IF e = <<"/">> THEN p ELSE SubSeq(p, Len(e) + 1, Len(p))

\* A collection endpoint ends with a slash; the character read before the start
\* of an empty string is not one.
Collection(e) == e # <<>> /\ Last(e) = "/"

\* The endpoint found first serves the path.
FirstAccepts(m, p) ==
    /\ BeginsWith(m, p) # {}
    /\ LET e == First(m, p) IN Stripped(e, p) = <<>> \/ Collection(e)

\* Methods with a function for exactly this path, for the Allow header.
GetAllowedMethods(p) == {m \in Methods : p \in Registered(m)}

\* The function at e is called and sees the given path.
Call(e, path) == [what |-> "call", by |-> e, path |-> path]

\* "/" gets what no other endpoint has accepted.
CatchAll(m, p) == <<"/">> \in Registered(m)

\* respondTo.
RespondTo(m, p) ==
    CASE m = "GET" /\ p = <<"registry">> -> [what |-> "registry"]
      [] m = "GET" /\ p # <<"registry">> /\ AsksSchema(p) -> [what |-> "schema"]
      [] OTHER ->
            IF FirstAccepts(m, p) THEN Call(First(m, p), Stripped(First(m, p), p))
            ELSE IF CatchAll(m, p) THEN Call(<<"/">>, p)
            ELSE IF GetAllowedMethods(p) # {}
                 THEN [what |-> "not_supported", allow |-> GetAllowedMethods(p)]
                 ELSE [what |-> "not_found"]

\* Mutant: any method is accepted for a schema.
IsSchemaRequestAny(m, p) == AsksSchema(p)

\* _isSchemaRequest, m being the method a preflight asks for.
IsSchemaRequest(m, p) == AsksSchema(p) /\ m = "GET"

\* processCorsPreflightRequest: whether a browser may send method m to path p.
PreflightAccepts(m, p) == p \in Registered(m) \/ IsSchemaRequest(m, p)

-----------------------------------------------------------------------------
(* Properties *)

Served(m, p) == RespondTo(m, p).what \in {"call", "schema", "registry"}

\* The endpoints whose documentation (http/request.h 31-41) claims the path.
Claims(m, p) ==
    {e \in Registered(m) : e = p \/ e = <<"/">> \/ (Collection(e) /\ IsPrefix(e, p))}

\* The answer is the call of the most specific endpoint that claims the path.
MostSpecific(m, p) ==
    RespondTo(m, p).what = "call" =>
        /\ RespondTo(m, p).by \in Claims(m, p)
        /\ \A e \in Claims(m, p) \ {<<"/">>} : Len(e) <= Len(RespondTo(m, p).by)

\* A path is served by the most specific endpoint that claims it, and by none
\* only if none claims it ("must be an ordered map in order to iterate from the
\* most specific path", http/server.cpp 451), as long as no endpoint without a
\* slash at its end is a proper prefix of the path: respondTo stops at such a one.
ServedAsDocumented ==
    \A m \in Methods, p \in Paths :
        (\A e \in BeginsWith(m, p) : e = p \/ Collection(e)) =>
            /\ MostSpecific(m, p)
            /\ Claims(m, p) # {} => Served(m, p)

\* An endpoint without a slash at its end gets exactly matching requests only,
\* with an empty path; all others get the rest of the path (http/request.h 31-41).
OnlyExact ==
    \A m \in Methods, p \in Paths :
        LET r == RespondTo(m, p)
        IN  r.what = "call" =>
              IF Collection(r.by) THEN r.by = <<"/">> \/ r.by \o r.path = p
              ELSE r.by = p /\ r.path = <<>>

\* "if "/" is registered as an endpoint it should be passed all unhandled
\* requests" (http/server.cpp 387).
RootCatchesAll ==
    \A m \in Methods, p \in Paths : <<"/">> \in Endpoints =>
        (methods[m][<<"/">>] # NoHandler => Served(m, p))

\* A preflight is accepted only for a request that will then be served.
PreflightHonest ==
    \A m \in Methods, p \in Paths : PreflightAccepts(m, p) => Served(m, p)

\* A schema is published only for an endpoint that still has a PUT or GET
\* function, after any mixture of the two remove() calls and failed calls.
SchemaHasEndpoint ==
    \A e \in Endpoints :
        schemas[e] # NoSchema =>
            methods["PUT"][e] # NoHandler \/ methods["GET"][e] # NoHandler

\* The schema clients have seen for an endpoint does not change while one of
\* its PUT and GET functions stays registered.
SchemaStable ==
    [][\A e \in Endpoints, m \in {"PUT", "GET"} :
          (schemas[e] # NoSchema /\ methods[m][e] # NoHandler /\
              methods'[m][e] # NoHandler) => schemas'[e] = schemas[e]]_vars

\* "Remove PUT and GET handling for given object" (http/server.h 139): after
\* remove() no request for the endpoint of its type name reaches the object, which
\* may be destroyed then, whatever else was registered and removed since and
\* however the registration had failed.  An object registered under another
\* endpoint stays there.
RemovedObjectGone ==
    \A o \in retired, m \in {"PUT", "GET"} : methods[m][TypeEndpoint[o]] # o

\* Dispatch in every table that can be built (http/server.cpp 348-407): a path goes
\* to the most specific endpoint, exact ones get exact matches, and "/" the rest.
DispatchInv == TypeOK /\ ServedAsDocumented /\ OnlyExact /\ RootCatchesAll

\* Removal leaves nothing behind (http/server.cpp 224-241): no schema without an
\* endpoint, no function of a removed object.
RemovalInv == SchemaHasEndpoint /\ RemovedObjectGone
=============================================================================
