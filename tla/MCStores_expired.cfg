\* What records returns while another thread puts a record that has expired.
SPECIFICATION Spec
CONSTANTS
    Callers = {t1, t2}
    Keys = {k1, k2}
    Scopes <- OneNamespace
    Values = {v1, v2}
    Lifetimes <- TTLs
    Never = Never
    Nothing = Nothing
    Torn = Torn
    Error = Error
    MaxTime = 2
SYMMETRY Symmetry
PROPERTY
    RecordsAreUnexpired
