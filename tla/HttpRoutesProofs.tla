-------------------------- MODULE HttpRoutesProofs --------------------------
(***************************************************************************)
(* Proofs about HttpRoutes for any methods, endpoints, paths, schemas and   *)
(* objects: what registration and removal keep, and whom a request reaches  *)
(* in every table they can build.                                           *)
(***************************************************************************)
EXTENDS HttpRoutes, FiniteSetsExt, FiniteSetTheorems, NaturalsInduction,
        WellFoundedInduction, TLAPS

\* A set of natural numbers that has an element has a least one.
LEMMA LeastNumber ==
    ASSUME NEW T, T \subseteq Nat, T # {}
    PROVE  \E x \in T : \A y \in T : x <= y
<1> DEFINE R == {ss \in Nat \X Nat : ss[1] < ss[2]}
<1>1. IsWellFoundedOn(R, Nat)
    BY NatLessThanWellFounded DEF OpToRel
<1>2. \A x, y \in Nat : y < x => <<y, x>> \in R
    OBVIOUS
<1> HIDE DEF R
<1>3. PICK x \in T : \A y \in T : ~ (<<y, x>> \in R)
    BY <1>1, WFMin, Zenon
<1>4. \A y \in T : ~ (y < x)
    BY <1>2, <1>3
<1> QED
    BY <1>4

-----------------------------------------------------------------------------
(* The table: types and removal *)

\* The tables and the history keep their types, and the name of the registry
\* is never taken (_checkEndpointName).
LEMMA TypeInit == Init => TypeOK
BY DEF Init, TypeOK

\* registerSchema leaves a table of schemas.
LEMMA SchemaTable ==
    ASSUME NEW old \in [Endpoints -> Schemas \cup {NoSchema}],
           NEW e \in Endpoints, NEW s \in Schemas \cup {NoSchema}
    PROVE  RegisterSchema(old, e, s) \in [Endpoints -> Schemas \cup {NoSchema}]
BY DEF RegisterSchema

\* handle(object) changes the PUT and GET functions of one endpoint, and one of
\* them for certain.
LEMMA ObjectTable ==
    ASSUME TypeOK, NEW o \in Objects, NEW e \in Endpoints, HandleObject(o, e)
    PROVE  /\ methods' \in [Methods -> [Endpoints -> Handlers \cup {NoHandler}]]
           /\ \A m \in Methods, f \in Endpoints :
                 methods'[m][f] = methods[m][f] \/ (f = e /\ methods'[m][f] = o)
           /\ methods'["PUT"][e] = o
<1> USE HttpRoutesAssumption
<1> DEFINE put == [methods EXCEPT !["PUT"][e] = o]
           both == [put EXCEPT !["GET"][e] = o]
           Good(t) ==
              /\ t \in [Methods -> [Endpoints -> Handlers \cup {NoHandler}]]
              /\ \A m \in Methods, f \in Endpoints :
                    t[m][f] = methods[m][f] \/ (f = e /\ t[m][f] = o)
              /\ t["PUT"][e] = o
<1>1. methods' = put \/ methods' = both
    BY DEF HandleObject
<1>2. Good(put)
    BY DEF TypeOK, Handlers
<1>3. Good(both)
    BY DEF TypeOK, Handlers
<1> QED
    <2> HIDE DEF put, both
    <2> QED
        BY <1>1, <1>2, <1>3

\* One operation, by the case distinction of Next.
LEMMA NextCases ==
    ASSUME TypeOK, Next
    PROVE  \/ \E m \in Methods, e \in Endpoints : Handle(m, e)
           \/ \E m \in {"PUT", "GET"}, e \in Endpoints, s \in Schemas \cup {NoSchema},
                 h \in Handlers : HandleWithSchema(m, e, s, h)
           \/ \E o \in Objects, e \in Endpoints : HandleObject(o, e)
           \/ \E e \in Endpoints : RemoveEndpoint(e)
           \/ \E o \in Objects : RemoveObject(o)
<1>1. \A o \in Objects : o \in Handlers /\ SchemaOf[o] \in Schemas \cup {NoSchema}
    BY HttpRoutesAssumption DEF Handlers
<1>2. Func \in Handlers
    BY DEF Handlers
<1> QED
    BY <1>1, <1>2 DEF Next

\* Every operation keeps the types.
LEMMA TypeStep == TypeOK /\ [Next]_vars => TypeOK'
<1> SUFFICES ASSUME TypeOK, [Next]_vars PROVE TypeOK'
    OBVIOUS
<1> USE HttpRoutesAssumption
<1>1. ASSUME NEW m \in Methods, NEW e \in Endpoints, Handle(m, e) PROVE TypeOK'
    BY <1>1 DEF TypeOK, Handle, Free, Registrable, Handlers
<1>2. ASSUME NEW m \in {"PUT", "GET"}, NEW e \in Endpoints,
             NEW s \in Schemas \cup {NoSchema}, NEW h \in Handlers,
             HandleWithSchema(m, e, s, h)
      PROVE  TypeOK'
    <2>1. schemas' \in [Endpoints -> Schemas \cup {NoSchema}]
        BY <1>2, SchemaTable DEF TypeOK, HandleWithSchema
    <2> QED
        BY <1>2, <2>1 DEF TypeOK, HandleWithSchema, Free, Registrable, Handlers
<1>3. ASSUME NEW o \in Objects, NEW e \in Endpoints, HandleObject(o, e) PROVE TypeOK'
    <2>1. schemas' \in [Endpoints -> Schemas \cup {NoSchema}]
        BY <1>3, SchemaTable DEF TypeOK, HandleObject
    <2>2. e # <<"registry">> /\ retired' = retired \ {o}
        BY <1>3 DEF HandleObject, Free, Registrable
    <2>3. /\ methods' \in [Methods -> [Endpoints -> Handlers \cup {NoHandler}]]
          /\ \A m \in Methods, f \in Endpoints :
                methods'[m][f] = methods[m][f] \/ (f = e /\ methods'[m][f] = o)
        BY <1>3, ObjectTable
    <2>4. <<"registry">> \in Endpoints =>
             \A m \in Methods : methods'[m][<<"registry">>] = NoHandler
        BY <2>2, <2>3 DEF TypeOK
    <2> QED
        BY <2>1, <2>2, <2>3, <2>4 DEF TypeOK
<1>4. ASSUME NEW e \in Endpoints, RemoveEndpoint(e) PROVE TypeOK'
    BY <1>4 DEF TypeOK, RemoveEndpoint
<1>5. ASSUME NEW o \in Objects, RemoveObject(o) PROVE TypeOK'
    BY <1>5 DEF TypeOK, RemoveObject
<1>6. CASE UNCHANGED vars
    BY <1>6 DEF TypeOK, vars
<1> QED
    BY <1>1, <1>2, <1>3, <1>4, <1>5, <1>6, NextCases

\* The registration tables are what their types say in every reachable state:
\* _methods and _schemas of http::Server, and "registry" stays free.
THEOREM RoutesTypeCorrect == Spec => []TypeOK
BY TypeInit, TypeStep, PTL DEF Spec

\* Removal is complete at the start: nothing is registered.
LEMMA RemovalInit == Init => RemovalInv
BY DEF Init, RemovalInv, SchemaHasEndpoint, RemovedObjectGone

\* What handlePUT and handleGET change.
LEMMA SchemaCallTable ==
    ASSUME TypeOK, NEW m \in {"PUT", "GET"}, NEW e \in Endpoints,
           NEW s \in Schemas \cup {NoSchema}, NEW h \in Handlers,
           HandleWithSchema(m, e, s, h)
    PROVE  /\ methods'[m][e] = h
           /\ \A n \in Methods, f \in Endpoints :
                 methods'[n][f] = methods[n][f] \/ (f = e /\ methods'[n][f] = h)
           /\ \A f \in Endpoints : f # e => schemas'[f] = schemas[f]
           /\ schemas[e] # NoSchema => schemas'[e] = schemas[e]
<1> USE HttpRoutesAssumption
<1>1. /\ methods'[m][e] = h
      /\ \A n \in Methods, f \in Endpoints :
            methods'[n][f] = methods[n][f] \/ (f = e /\ methods'[n][f] = h)
    BY DEF TypeOK, HandleWithSchema
<1>2. /\ \A f \in Endpoints : f # e => schemas'[f] = schemas[f]
      /\ schemas[e] # NoSchema => schemas'[e] = schemas[e]
    BY DEF TypeOK, HandleWithSchema, RegisterSchema
<1> QED
    BY <1>1, <1>2

\* What handle(object) does to the schemas.
LEMMA ObjectSchemas ==
    ASSUME TypeOK, NEW o \in Objects, NEW e \in Endpoints, HandleObject(o, e)
    PROVE  /\ \A f \in Endpoints : f # e => schemas'[f] = schemas[f]
           /\ schemas[e] # NoSchema => schemas'[e] = schemas[e]
           /\ retired' = retired \ {o}
BY DEF TypeOK, HandleObject, RegisterSchema

\* Every operation keeps removal complete.
LEMMA RemovalStep == TypeOK /\ RemovalInv /\ [Next]_vars => RemovalInv'
<1> SUFFICES ASSUME TypeOK, RemovalInv, [Next]_vars PROVE RemovalInv'
    OBVIOUS
<1> USE HttpRoutesAssumption DEF RemovalInv
<1>0. \A o \in retired : o \in Objects /\ TypeEndpoint[o] \in Endpoints
    BY DEF TypeOK
<1>1. ASSUME NEW m \in Methods, NEW e \in Endpoints, Handle(m, e) PROVE RemovalInv'
    <2>1. /\ \A n \in Methods, f \in Endpoints :
                methods'[n][f] = methods[n][f] \/ methods'[n][f] = Func
          /\ schemas' = schemas /\ retired' = retired
        BY <1>1 DEF Handle, TypeOK
    <2>2. SchemaHasEndpoint'
        BY <2>1 DEF SchemaHasEndpoint
    <2>3. RemovedObjectGone'
        BY <1>0, <2>1 DEF RemovedObjectGone
    <2> QED
        BY <2>2, <2>3
<1>2. ASSUME NEW m \in {"PUT", "GET"}, NEW e \in Endpoints,
             NEW s \in Schemas \cup {NoSchema}, NEW h \in Handlers,
             HandleWithSchema(m, e, s, h)
      PROVE  RemovalInv'
    <2>1. retired' = retired \ {h} /\ h # NoHandler
        BY <1>2 DEF HandleWithSchema, Handlers
    <2>2. /\ methods'[m][e] = h
          /\ \A n \in Methods, f \in Endpoints :
                methods'[n][f] = methods[n][f] \/ (f = e /\ methods'[n][f] = h)
          /\ \A f \in Endpoints : f # e => schemas'[f] = schemas[f]
        BY <1>2, SchemaCallTable
    <2>3. SchemaHasEndpoint'
        BY <2>1, <2>2 DEF SchemaHasEndpoint
    <2>4. RemovedObjectGone'
        BY <1>0, <2>1, <2>2 DEF RemovedObjectGone
    <2> QED
        BY <2>3, <2>4
<1>3. ASSUME NEW o \in Objects, NEW e \in Endpoints, HandleObject(o, e)
      PROVE  RemovalInv'
    <2>1. /\ methods'["PUT"][e] = o /\ o # NoHandler
          /\ \A n \in Methods, f \in Endpoints :
                methods'[n][f] = methods[n][f] \/ (f = e /\ methods'[n][f] = o)
        BY <1>3, ObjectTable
    <2>2. /\ \A f \in Endpoints : f # e => schemas'[f] = schemas[f]
          /\ retired' = retired \ {o}
        BY <1>3, ObjectSchemas
    <2>3. SchemaHasEndpoint'
        BY <2>1, <2>2 DEF SchemaHasEndpoint
    <2>4. RemovedObjectGone'
        BY <1>0, <2>1, <2>2 DEF RemovedObjectGone
    <2> QED
        BY <2>3, <2>4
<1>4. ASSUME NEW e \in Endpoints, RemoveEndpoint(e) PROVE RemovalInv'
    <2>1. /\ \A n \in Methods, f \in Endpoints :
                methods'[n][f] = IF f = e THEN NoHandler ELSE methods[n][f]
          /\ \A f \in Endpoints : schemas'[f] = IF f = e THEN NoSchema ELSE schemas[f]
          /\ retired' = retired
        BY <1>4 DEF RemoveEndpoint, TypeOK
    <2>2. SchemaHasEndpoint'
        BY <2>1 DEF SchemaHasEndpoint
    <2>3. RemovedObjectGone'
        BY <1>0, <2>1 DEF RemovedObjectGone
    <2> QED
        BY <2>2, <2>3
<1>5. ASSUME NEW o \in Objects, RemoveObject(o) PROVE RemovalInv'
    <2>0. PICK e \in Endpoints : e = TypeEndpoint[o]
        OBVIOUS
    <2>1. /\ \A n \in {"PUT", "GET"}, f \in Endpoints :
                methods'[n][f] = IF f = e THEN NoHandler ELSE methods[n][f]
          /\ \A f \in Endpoints : schemas'[f] = IF f = e THEN NoSchema ELSE schemas[f]
          /\ retired' = retired \cup {o}
        BY <1>5, <2>0 DEF RemoveObject, TypeOK
    <2>2. SchemaHasEndpoint'
        BY <2>1 DEF SchemaHasEndpoint
    <2>3. ASSUME NEW r \in retired', NEW m \in {"PUT", "GET"}
          PROVE  methods'[m][TypeEndpoint[r]] # r
        <3>1. r \in Objects /\ r # NoHandler /\ TypeEndpoint[r] \in Endpoints
            BY <1>0, <2>1, <2>3
        <3>2. CASE TypeEndpoint[r] = e
            BY <2>1, <3>1, <3>2
        <3>3. CASE TypeEndpoint[r] # e
            <4>1. r \in retired
                BY <2>0, <2>1, <3>3
            <4>2. methods'[m][TypeEndpoint[r]] = methods[m][TypeEndpoint[r]]
                BY <2>1, <3>1, <3>3
            <4> QED
                BY <4>1, <4>2 DEF RemovedObjectGone
        <3> QED
            BY <3>2, <3>3
    <2> QED
        BY <2>2, <2>3 DEF RemovedObjectGone
<1>6. CASE UNCHANGED vars
    BY <1>6 DEF vars, SchemaHasEndpoint, RemovedObjectGone
<1> QED
    BY <1>1, <1>2, <1>3, <1>4, <1>5, <1>6, NextCases

\* remove(endpoint) and remove(object) leave nothing behind, in any order with
\* registrations that succeed, are refused or throw half way: no schema without
\* an endpoint, and no function of a removed object at its type's endpoint.
THEOREM RemovalComplete == Spec => []RemovalInv
<1>1. TypeOK /\ RemovalInv /\ [Next]_vars => (TypeOK /\ RemovalInv)'
    BY TypeStep, RemovalStep
<1> QED
    BY TypeInit, RemovalInit, <1>1, PTL DEF Spec

\* The schema of an endpoint that keeps a PUT or GET function stays the one that
\* was published first (registerSchema refuses another).
THEOREM SchemasStable == Spec => SchemaStable
<1> DEFINE Kept ==
              \A e \in Endpoints, m \in {"PUT", "GET"} :
                 (schemas[e] # NoSchema /\ methods[m][e] # NoHandler /\
                    methods'[m][e] # NoHandler) => schemas'[e] = schemas[e]
<1>1. TypeOK /\ [Next]_vars => [Kept]_vars
    <2> SUFFICES ASSUME TypeOK, Next PROVE Kept
        OBVIOUS
    <2> USE HttpRoutesAssumption
    <2>1. ASSUME NEW m \in Methods, NEW e \in Endpoints, Handle(m, e) PROVE Kept
        BY <2>1 DEF Handle
    <2>2. ASSUME NEW m \in {"PUT", "GET"}, NEW e \in Endpoints,
                 NEW s \in Schemas \cup {NoSchema}, NEW h \in Handlers,
                 HandleWithSchema(m, e, s, h)
          PROVE  Kept
        <3>1. /\ \A f \in Endpoints : f # e => schemas'[f] = schemas[f]
              /\ schemas[e] # NoSchema => schemas'[e] = schemas[e]
            BY <2>2, SchemaCallTable
        <3> QED
            BY <3>1
    <2>3. ASSUME NEW o \in Objects, NEW e \in Endpoints, HandleObject(o, e)
          PROVE  Kept
        <3>1. /\ \A f \in Endpoints : f # e => schemas'[f] = schemas[f]
              /\ schemas[e] # NoSchema => schemas'[e] = schemas[e]
            BY <2>3, ObjectSchemas
        <3> QED
            BY <3>1
    <2>4. ASSUME NEW e \in Endpoints, RemoveEndpoint(e) PROVE Kept
        BY <2>4 DEF RemoveEndpoint, TypeOK
    <2>5. ASSUME NEW o \in Objects, RemoveObject(o) PROVE Kept
        BY <2>5 DEF RemoveObject, TypeOK
    <2> QED
        BY <2>1, <2>2, <2>3, <2>4, <2>5, NextCases
<1> QED
    BY TypeInit, TypeStep, <1>1, PTL DEF Spec, SchemaStable

-----------------------------------------------------------------------------
(* Requests *)

\* Of the prefixes of one path, if there are any, one is the longest.
LEMMA LongestPrefix ==
    ASSUME NEW p \in Seq(STRING), NEW S, S \subseteq Seq(STRING), S # {},
           \A e \in S : IsPrefix(e, p)
    PROVE  \E e \in S : \A f \in S : Len(f) <= Len(e)
<1> DEFINE T == {Len(p) - Len(e) : e \in S}
<1>1. \A e \in S : Len(e) \in Nat /\ Len(e) <= Len(p)
    BY DEF IsPrefix
<1>2. T \subseteq Nat /\ T # {}
    BY <1>1
<1>3. PICK x \in T : \A y \in T : x <= y
    <2> HIDE DEF T
    <2> QED
        BY <1>2, LeastNumber
<1>4. PICK e \in S : x = Len(p) - Len(e)
    OBVIOUS
<1>5. \A f \in S : Len(p) - Len(e) <= Len(p) - Len(f)
    BY <1>3, <1>4
<1> QED
    BY <1>1, <1>5

\* A prefix that is as long as the path is the path, and a prefix and the rest
\* of the path make up the path.
LEMMA PrefixFacts ==
    ASSUME NEW e \in Seq(STRING), NEW p \in Seq(STRING), IsPrefix(e, p)
    PROVE  /\ Len(p) <= Len(e) => e = p
           /\ e \o SubSeq(p, Len(e) + 1, Len(p)) = p
<1>1. Len(e) <= Len(p) /\ \A i \in 1 .. Len(e) : e[i] = p[i]
    BY DEF IsPrefix
<1>2. Len(p) <= Len(e) => e = p
    BY <1>1
<1>3. e \o SubSeq(p, Len(e) + 1, Len(p)) = p
    BY <1>1
<1> QED
    BY <1>2, <1>3

\* A path is a prefix of itself.
LEMMA PrefixOfItself ==
    ASSUME NEW p \in Seq(STRING) PROVE IsPrefix(p, p)
BY DEF IsPrefix

\* std::find_if finds the longest of the registered endpoints that begin the path.
LEMMA FirstIsLongest ==
    ASSUME NEW m \in Methods, NEW p \in Paths, BeginsWith(m, p) # {}
    PROVE  /\ First(m, p) \in BeginsWith(m, p)
           /\ \A f \in BeginsWith(m, p) : Len(f) <= Len(First(m, p))
<1> DEFINE S == BeginsWith(m, p)
<1>1. p \in Seq(STRING) /\ S \subseteq Seq(STRING) /\ S # {}
    BY HttpRoutesAssumption DEF BeginsWith, Registered
<1>2. \A e \in S : IsPrefix(e, p)
    BY DEF BeginsWith
<1>3. \E e \in S : \A f \in S : Len(f) <= Len(e)
    <2> HIDE DEF S
    <2> QED
        BY <1>1, <1>2, LongestPrefix
<1> QED
    BY <1>3 DEF First

\* The three kinds of answer of respondTo.
LEMMA AnswerCases ==
    ASSUME NEW m \in Methods, NEW p \in Paths
    PROVE  \/ RespondTo(m, p).what \in {"registry", "schema"}
           \/ /\ FirstAccepts(m, p)
              /\ RespondTo(m, p) = Call(First(m, p), Stripped(First(m, p), p))
           \/ /\ ~FirstAccepts(m, p) /\ CatchAll(m, p)
              /\ RespondTo(m, p) = Call(<<"/">>, p)
           \/ /\ ~FirstAccepts(m, p) /\ ~CatchAll(m, p)
              /\ RespondTo(m, p).what \in {"not_supported", "not_found"}
<1>1. CASE m = "GET" /\ p = <<"registry">>
    BY <1>1 DEF RespondTo
<1>2. CASE m = "GET" /\ p # <<"registry">> /\ AsksSchema(p)
    BY <1>2 DEF RespondTo
<1>3. CASE /\ ~(m = "GET" /\ p = <<"registry">>)
           /\ ~(m = "GET" /\ p # <<"registry">> /\ AsksSchema(p))
    BY <1>3 DEF RespondTo
<1> QED
    BY <1>1, <1>2, <1>3

\* The endpoint found first accepts the path if it is the whole path or a
\* collection.
LEMMA FirstAcceptsWhole ==
    ASSUME NEW m \in Methods, NEW p \in Paths, BeginsWith(m, p) # {},
           First(m, p) = p \/ Collection(First(m, p))
    PROVE  FirstAccepts(m, p)
<1>1. p \in Seq(STRING)
    BY HttpRoutesAssumption
<1>2. p = <<"/">> => Collection(p)
    BY DEF Collection, Last
<1>3. p # <<"/">> => Stripped(p, p) = <<>>
    BY <1>1 DEF Stripped
<1> QED
    BY <1>2, <1>3 DEF FirstAccepts

\* A path that is itself registered is served.
LEMMA RegisteredServed ==
    ASSUME NEW m \in Methods, NEW p \in Paths, p \in Registered(m)
    PROVE  Served(m, p)
<1>1. p \in Seq(STRING) /\ p \in BeginsWith(m, p)
    BY HttpRoutesAssumption, PrefixOfItself DEF BeginsWith
<1>2. /\ First(m, p) \in BeginsWith(m, p)
      /\ Len(p) <= Len(First(m, p))
    BY <1>1, FirstIsLongest
<1>3. First(m, p) \in Seq(STRING) /\ IsPrefix(First(m, p), p)
    BY <1>2, HttpRoutesAssumption DEF BeginsWith, Registered
<1>4. First(m, p) = p
    BY <1>1, <1>2, <1>3, PrefixFacts
<1>5. FirstAccepts(m, p)
    BY <1>1, <1>4, FirstAcceptsWhole
<1> QED
    BY <1>5, AnswerCases DEF Served, Call

\* A preflight is accepted only for requests that respondTo serves.
LEMMA PreflightServed ==
    ASSUME NEW m \in Methods, NEW p \in Paths, PreflightAccepts(m, p)
    PROVE  Served(m, p)
<1>1. CASE p \in Registered(m)
    BY <1>1, RegisteredServed
<1>2. CASE IsSchemaRequest(m, p)
    BY <1>2 DEF IsSchemaRequest, Served, RespondTo
<1> QED
    BY <1>1, <1>2 DEF PreflightAccepts

\* Whatever processCorsPreflightRequest allows a browser to send is served when it
\* arrives and the table is still the same.
THEOREM PreflightsHonest == Spec => []PreflightHonest
<1>1. PreflightHonest
    BY PreflightServed DEF PreflightHonest
<1> QED
    BY <1>1, PTL

\* An endpoint that does not end with a slash gets exact requests, the others
\* the rest of the path.
LEMMA ExactOnly == OnlyExact
<1> SUFFICES ASSUME NEW m \in Methods, NEW p \in Paths, RespondTo(m, p).what = "call"
             PROVE  LET r == RespondTo(m, p)
                    IN  IF Collection(r.by) THEN r.by = <<"/">> \/ r.by \o r.path = p
                        ELSE r.by = p /\ r.path = <<>>
    BY DEF OnlyExact
<1>1. p \in Seq(STRING) /\ Collection(<<"/">>)
    BY HttpRoutesAssumption DEF Collection, Last
<1>2. CASE FirstAccepts(m, p) /\ RespondTo(m, p) = Call(First(m, p), Stripped(First(m, p), p))
    <2> DEFINE e == First(m, p)
    <2>1. RespondTo(m, p).by = e /\ RespondTo(m, p).path = Stripped(e, p)
        BY <1>2 DEF Call
    <2>2. e \in BeginsWith(m, p) /\ (Stripped(e, p) = <<>> \/ Collection(e))
        BY <1>2, FirstIsLongest DEF FirstAccepts
    <2>3. e \in Seq(STRING) /\ IsPrefix(e, p)
        BY <2>2, HttpRoutesAssumption DEF BeginsWith, Registered
    <2> HIDE DEF e
    <2>4. e \o SubSeq(p, Len(e) + 1, Len(p)) = p
        BY <1>1, <2>3, PrefixFacts
    <2>5. CASE Collection(e)
        BY <2>1, <2>4, <2>5 DEF Stripped
    <2>6. CASE ~Collection(e)
        <3>1. e # <<"/">> /\ Stripped(e, p) = <<>>
            BY <1>1, <2>2, <2>6
        <3>2. SubSeq(p, Len(e) + 1, Len(p)) = <<>>
            BY <3>1 DEF Stripped
        <3>3. e = p
            <4>1. Len(p) <= Len(e)
                <5>1. Len(e) <= Len(p) /\ Len(e) \in Nat /\ Len(p) \in Nat
                    BY <1>1, <2>3 DEF IsPrefix
                <5>2. Len(SubSeq(p, Len(e) + 1, Len(p))) = Len(p) - Len(e)
                    BY <1>1, <5>1
                <5>3. Len(SubSeq(p, Len(e) + 1, Len(p))) = 0
                    <6>1. \A s : s = <<>> => Len(s) = 0
                        OBVIOUS
                    <6> QED
                        BY <3>2, <6>1, Zenon
                <5> QED
                    BY <5>1, <5>2, <5>3
            <4> QED
                BY <1>1, <2>3, <4>1, PrefixFacts
        <3> QED
            BY <2>1, <2>6, <3>1, <3>3
    <2> QED
        BY <2>5, <2>6
<1>3. CASE RespondTo(m, p) = Call(<<"/">>, p)
    BY <1>1, <1>3 DEF Call
<1> QED
    BY <1>2, <1>3, AnswerCases

\* "/" gets what no other endpoint takes.
LEMMA RootServes == RootCatchesAll
<1> SUFFICES ASSUME NEW m \in Methods, NEW p \in Paths, CatchAll(m, p)
             PROVE  Served(m, p)
    BY DEF RootCatchesAll, CatchAll, Registered
<1> QED
    BY AnswerCases DEF Served, Call

\* Without an endpoint that hides others, the most specific one gets the path.
LEMMA SpecificServed == ServedAsDocumented
<1> SUFFICES ASSUME NEW m \in Methods, NEW p \in Paths,
                    \A e \in BeginsWith(m, p) : e = p \/ Collection(e)
             PROVE  /\ MostSpecific(m, p)
                    /\ Claims(m, p) # {} => Served(m, p)
    BY DEF ServedAsDocumented
<1>1. p \in Seq(STRING)
    BY HttpRoutesAssumption
<1>2. \A e \in Claims(m, p) \ {<<"/">>} : e \in BeginsWith(m, p)
    BY <1>1, PrefixOfItself DEF Claims, BeginsWith
<1>3. BeginsWith(m, p) \subseteq Claims(m, p)
    BY DEF Claims, BeginsWith
<1>4. FirstAccepts(m, p) <=> BeginsWith(m, p) # {}
    BY FirstIsLongest, FirstAcceptsWhole DEF FirstAccepts
<1>5. CatchAll(m, p) <=> <<"/">> \in Claims(m, p)
    BY DEF CatchAll, Claims
<1>6. MostSpecific(m, p)
    <2> SUFFICES ASSUME RespondTo(m, p).what = "call"
                 PROVE  /\ RespondTo(m, p).by \in Claims(m, p)
                        /\ \A e \in Claims(m, p) \ {<<"/">>} :
                              Len(e) <= Len(RespondTo(m, p).by)
        BY DEF MostSpecific
    <2>1. CASE /\ FirstAccepts(m, p)
               /\ RespondTo(m, p) = Call(First(m, p), Stripped(First(m, p), p))
        <3>1. RespondTo(m, p).by = First(m, p)
            BY <2>1 DEF Call
        <3>2. /\ First(m, p) \in BeginsWith(m, p)
              /\ \A f \in BeginsWith(m, p) : Len(f) <= Len(First(m, p))
            BY <2>1, FirstIsLongest DEF FirstAccepts
        <3> QED
            BY <1>2, <1>3, <3>1, <3>2
    <2>2. CASE /\ ~FirstAccepts(m, p) /\ CatchAll(m, p)
               /\ RespondTo(m, p) = Call(<<"/">>, p)
        BY <1>2, <1>4, <1>5, <2>2 DEF Call
    <2> QED
        BY <2>1, <2>2, AnswerCases
<1>7. Claims(m, p) # {} => Served(m, p)
    <2>1. Claims(m, p) # {} => FirstAccepts(m, p) \/ CatchAll(m, p)
        BY <1>2, <1>4, <1>5
    <2> QED
        BY <2>1, AnswerCases DEF Served, Call
<1> QED
    BY <1>6, <1>7

\* In every table that registrations and removals can build, a request reaches the
\* most specific endpoint that claims it, exact endpoints get exact matches only,
\* and "/" gets what nobody else takes (respondTo).
THEOREM DispatchCorrect == Spec => []DispatchInv
<1>1. TypeOK => DispatchInv
    BY ExactOnly, RootServes, SpecificServed DEF DispatchInv
<1> QED
    BY <1>1, RoutesTypeCorrect, PTL
=============================================================================
