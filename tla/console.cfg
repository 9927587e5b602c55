SPECIFICATION ConsoleSpec
CONSTANTS
    r1 = r1
    r2 = r2
    a1 = a1
    i1 = i1
    x1 = x1
    top = top
    low = low
    host = host
    tenant = tenant
    name = name
    c1 = c1
    c2 = c2
    m1 = m1
    m2 = m2
    m3 = m3
    Assets = {a1}
    Identities = {i1}
    Rules = {x1}
    Matches <- MCMatches
    Hideable = {i1}
    GroupRequests = {r1, r2}
    Nobody = Nobody
    Accounts = {i1}
    Groups = {x1}
    Roles = {top, low}
    Rank <- MCRank
    CacheRequests = {r1, r2}
    Unset = Nobody
    LoginFailureThreshold = 2
    LoginRequests = {r1, r2}
    Tokens = {token}
    MaxFailures = 5
    LastFile = 4
    Statements <- MCStatements
    Repeatable = {1, 2}
    PragmaFiles = {1, 3}
    MentionsPragma = {1, 3}
    Items = {bundled, builtin}
    Parts <- MCParts
    Seeders = {r1, r2}
    NoItem = Nobody
    CGroups = {g1, g2}
    Policies = {policy}
    Hosts = {host}
    HostName <- MCHostName
    OtherNames = {elsewhere}
    ScopesOf <- MCScopesOf
    ConfigRequests = {r1, r2}
    NoGroup = Nobody
    Conditions = {c1, c2}
    FactKey <- MCFactKey
    Scripts = {c2}
    Holds <- MCHolds
    Comparable <- MCComparable
    FactValues <- MCFactValues
    MaxConditions = 2
    Self = {me}
    Others = {other}
    MaxGrantRows = 2
    CatalogModules = {m1, m2, m3}
    FoesChoices <- MCFoesChoices
    VersionedChoices <- MCVersionedChoices
    Selections <- MCSelections
    EditedKinds = {"asset", "identity", "config_group", "module", "version"}
    Payload = {serial}
    Contents = {text}
    EditRequests = {r1, r2}
    NoText = Nobody
SYMMETRY Symmetry
INVARIANTS
    ConsoleTypeOK
    ReconciledAtTheEnd
    CacheFollowsRoles
    LockoutHolds
    StartupIsSound
    AccessLevelsNest
    PlanIsSound
PROPERTIES
    RowsGoByTheirSource
    KindChangeStrandsNobody
    DirectAssignmentWorks
    EvaluationIsSound
    EditsKeepTheRest
CHECK_DEADLOCK FALSE
