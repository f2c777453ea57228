CONSTANT Extra <- MCOtherKey
CONSTANT MaxKwargs = 1
INIT Init
NEXT Next
INVARIANT TypeOK
INVARIANT BodyReflectsCall
INVARIANT RequiredFieldsSent
