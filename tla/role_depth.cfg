\* One request at a time: a role that has descendants is given a parent.
SPECIFICATION TreeSpec
CONSTANTS
    NoParent = NoParent
    Roles = {a, b, c, d, e, f}
    Builtin = {}
    MaxRoleDepth = 5
    Assignable = {}
    TreeRequests = {r1}
SYMMETRY Symmetry
INVARIANT ChainsWithinDepth
CHECK_DEADLOCK FALSE
