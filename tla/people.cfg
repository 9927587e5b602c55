SPECIFICATION PeopleSpec
CONSTANTS
    root = root
    top = top
    mid = mid
    low = low
    acting = acting
    super = super
    MatrixRoles = {root, top, mid, low}
    HeldRoles = {mid, low}
    ParentsFor <- MCParents
    Keys = {manage}
    ScopedKeys = {}
    ManageKey = manage
    SaveRequests = {acting, super}
    SavedRoles <- MCSavedRoles
    ActingRequests = {acting}
    MaxRoleDepth = 3
    NoRole = Nobody
    o1 = o1
    o2 = o2
    e1 = e1
    e2 = e2
    LastPerson = 2
    Orgs = {o1, o2}
    Emails = {e1, e2}
    Forms <- MCForms
    Wizards = {w1, w2}
    Visits = {v1, v2}
    Absent = Nobody
SYMMETRY Symmetry
INVARIANTS
    SomebodyCanSignIn
PROPERTIES
    SavedAsSubmitted
    NoSelfLockout
CHECK_DEADLOCK FALSE
