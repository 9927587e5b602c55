\* Two requests and the purger over a configuration group, a group it can be
\* assigned to, and a builtin dependency group.
SPECIFICATION Spec
CONSTANTS
    None = None
    m = m
    g = g
    c = c
    d = d
    Items = {g, c, d}
    KindOf <- MCKindOf
    Builtin = {d}
    Days = {1}
    MaxTime = 1
    Requests = {r1, r2}
SYMMETRY Symmetry
INVARIANTS
    TypeOK
    BuiltinsStay
    ReferencesHold
PROPERTIES
    PurgesExpiredUnlessRestored
