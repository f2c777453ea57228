CONSTANT Extra = {}
CONSTANT MaxKwargs = 1
INIT Init
NEXT Next
INVARIANT FieldsWithinSchema
