---------------------------- MODULE MCHttpRoutes ----------------------------
(* Model-checking instances of HttpRoutes: endpoints and paths that overlap. *)
EXTENDS HttpRoutes

CONSTANTS o1, func, noHandler, noSchema, schema1, schema2

\* "", "/", "a/", "a/b" and the forbidden name.
SomeEndpoints ==
    {<<>>, <<"/">>, <<"a", "/">>, <<"a", "/", "b">>, <<"registry">>}

SomePaths ==
    SomeEndpoints \cup
    {<<"schema">>, <<"a">>, <<"a", "/", "c">>,
     <<"a", "/", "b", "c">>, <<"a", "/", "b", "/", "schema">>,
     <<"a", "/", "b", "schema">>, <<"a", "/", "schema">>, <<"/", "c">>}

SomeTypeEndpoint == [o \in Objects |-> <<"a", "/", "b">>]
SomeSchemaOf == [o \in Objects |-> schema1]
=============================================================================
