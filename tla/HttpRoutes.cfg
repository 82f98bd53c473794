SPECIFICATION Spec
CONSTANTS
    o1 = o1
    func = func
    noHandler = noHandler
    noSchema = noSchema
    schema1 = schema1
    schema2 = schema2
    Methods = {"GET", "PUT"}
    Endpoints <- SomeEndpoints
    Paths <- SomePaths
    Schemas = {schema1, schema2}
    NoSchema = noSchema
    Objects = {o1}
    TypeEndpoint <- SomeTypeEndpoint
    SchemaOf <- SomeSchemaOf
    Func = func
    NoHandler = noHandler
INVARIANTS DispatchInv RemovalInv PreflightHonest
PROPERTY SchemaStable
