CONSTANT Ids <- MCLiteralIds
INIT Init
NEXT Next
INVARIANT RequestIdentifiesCall
