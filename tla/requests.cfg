\* Every request ends.  Versions of two rows each, so that copies take steps;
\* three custom roles, so that a request can walk into a cycle a race has left
\* between the other two.
SPECIFICATION RequestsSpec
CONSTANTS
    None = None
    Modules = {m1}
    Versions = {v1, v2}
    Rows = {apply, other}
    Scripts = {apply, other}
    Actions = {}
    Apply = apply
    Fields = fields
    Manifest = manifest
    Texts = {t1}
    Requests = {r1, r2}
    Roles = {a, b, c}
    Builtin = {}
    MaxRoleDepth = 2
    Assignable = {}
    NoParent = None
    TreeRequests = {r1, r2}
PROPERTIES
    EveryRequestEnds
\* Ids run out.
CHECK_DEADLOCK FALSE
