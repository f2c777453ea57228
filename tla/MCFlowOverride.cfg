CONSTANT Extra <- MCFlowKey
CONSTANT MaxKwargs = 1
INIT Init
NEXT Next
INVARIANT BodyReflectsCall
