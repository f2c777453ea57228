\* Token updates NOT serialized against requests: spec.md section 5 says the
\* header then reflects the last writer; the check asks whether it always
\* carries a token that was set.
CONSTANTS
    Threads = {c1}
    Tokens = {t1}
    None = None
    EmptyStr = EmptyStr
    Statuses <- MCFewStatuses
    Bodies <- MCBodies
    SerializedTokenUpdates = FALSE
SPECIFICATION Spec
INVARIANTS
    AuthHeaderCarriesSetToken
