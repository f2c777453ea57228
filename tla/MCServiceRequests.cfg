CONSTANT Ids <- MCPlainIds
INIT Init
NEXT Next
INVARIANTS
    TypeOK
    RequestIdentifiesCall
    OptionalQueryArgsSentIffSet
