\* Two threads, two keys of a namespace, TTLs that are over at once or before, and crashes.
SPECIFICATION Spec
CONSTANTS
    Callers = {t1, t2}
    Keys = {k1, k2}
    Scopes <- OneNamespace
    Values = {v1, v2}
    Lifetimes <- TTLs
    Never = Never
    Nothing = Nothing
    Torn = Torn
    Error = Error
    MaxTime = 2
SYMMETRY Symmetry
INVARIANT
    StoreInv
PROPERTY
    ImplementsStore
