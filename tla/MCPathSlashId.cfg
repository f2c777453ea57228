CONSTANT Ids <- MCSlashIds
INIT Init
NEXT Next
INVARIANT RequestIdentifiesCall
