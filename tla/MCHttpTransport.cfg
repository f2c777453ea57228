\* Two caller threads sharing one client, token updates serialized against
\* header construction (spec.md section 5), every status class and body shape.
CONSTANTS
    Threads = {c1, c2}
    Tokens = {t1, t2}
    None = None
    EmptyStr = EmptyStr
    Statuses <- MCStatuses
    Bodies <- MCBodies
    SerializedTokenUpdates = TRUE
SPECIFICATION Spec
INVARIANTS
    TypeOK
    AuthHeaderCarriesSetToken
    UntypedFailureOnlyAfterClose
PROPERTIES
    TransportRefinement
