\* One thread, set_token("") allowed: spec.md 4.1 says the header is attached
\* iff a credential is set.
CONSTANTS
    Threads = {c1}
    Tokens = {t1, EmptyStr}
    None = None
    EmptyStr = EmptyStr
    Statuses <- MCFewStatuses
    Bodies <- MCBodies
    SerializedTokenUpdates = TRUE
SPECIFICATION Spec
PROPERTIES
    TransportRefinement
