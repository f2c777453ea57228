CONSTANT Ids <- MCPlainIds
INIT Init
NEXT Next
INVARIANT OmittedQueryArgsAbsent
