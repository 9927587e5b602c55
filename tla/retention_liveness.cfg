\* One request and the purger over a policy module and a builtin dependency
\* group it can be linked to.
SPECIFICATION FairSpec
CONSTANTS
    None = None
    m = m
    g = g
    c = c
    d = d
    Items = {m, d}
    KindOf <- MCKindOf
    Builtin = {d}
    Days = {1}
    MaxTime = 1
    Requests = {r1}
PROPERTIES
    ExpiredIsPurged
