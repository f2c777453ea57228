\* One thread, the client may be closed (close() or leaving a `with` block)
\* and used again: spec.md sections 4.1 and 7 say every failure is typed.
CONSTANTS
    Threads = {c1}
    Tokens = {t1}
    None = None
    EmptyStr = EmptyStr
    Statuses <- MCFewStatuses
    Bodies <- MCBodies
    SerializedTokenUpdates = TRUE
SPECIFICATION Spec
INVARIANTS
    FailuresAreTyped
