\* The purger beside restores of one group.
SPECIFICATION Spec
CONSTANTS
    None = None
    m = m
    g = g
    c = c
    d = d
    Items = {g}
    KindOf <- MCKindOf
    Builtin = {}
    Days = {1}
    MaxTime = 1
    Requests = {r1}
PROPERTIES
    PurgesOnlyExpired
