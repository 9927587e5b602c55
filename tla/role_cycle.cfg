\* Two requests that reparent two roles to each other at the same time.
SPECIFICATION TreeSpec
CONSTANTS
    NoParent = NoParent
    Roles = {a, b}
    Builtin = {}
    MaxRoleDepth = 5
    Assignable = {}
    TreeRequests = {r1, r2}
INVARIANT Acyclic
CHECK_DEADLOCK FALSE
