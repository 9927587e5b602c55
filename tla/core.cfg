\* Two overlapping requests: over three versions of two modules, or over a
\* builtin role and three custom ones.
SPECIFICATION CoreSpec
CONSTANTS
    None = None
    Modules = {m1, m2}
    Versions = {a, b, c}
    Rows = {apply}
    Scripts = {apply}
    Actions = {}
    Apply = apply
    Fields = fields
    Manifest = manifest
    Texts = {t1}
    Requests = {r1, r2}
    NoParent = None
    Roles = {user, a, b, c}
    Builtin = {user}
    MaxRoleDepth = 3
    Assignable = {a, b, c}
    TreeRequests = {r1, r2}
SYMMETRY Symmetry
INVARIANTS
    TypeOK
    AtMostOnePublished
    SupersededByIsSound
    TreeTypeOK
    ParentsExist
    AcyclicUnlessRaced
PROPERTIES
    FrozenButByResets
    NeverUnpublished
    KeepsPromise
    GivenParentWithinDepth
    DeletionOrphansNobody
\* Ids run out.
CHECK_DEADLOCK FALSE
