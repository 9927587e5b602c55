SPECIFICATION RecordsSpec
CONSTANTS
    r1 = r1
    r2 = r2
    s1 = s1
    a1 = a1
    a2 = a2
    x1 = x1
    sg = sg
    nm = nm
    nd = nd
    dg1 = dg1
    dg2 = dg2
    own = own
    b1 = b1
    v1 = v1
    v2 = v2
    p1 = p1
    p2 = p2
    o1 = o1
    o2 = o2
    AssetRows = {a1, a2}
    Owners = {p1}
    Desks = {r1, r2}
    Nothing = Nobody
    Names = {nm, nd}
    ApplyName = nm
    Reserved <- MCReserved
    UserNames = {nm}
    Texts = {text}
    Shipped = shipped
    Writers = {r1, r2}
    NoName = Nobody
    MaxTests = 4
    Itself = me
    OtherModules = {o1, o2}
    MaxTyped = 2
    Editors = {r1, r2}
    Phases = {"apply", "report"}
    OtherNames = {"mine", "a//b"}
    Tangled = {"a//b"}
    Dirs = {"1", "2"}
    Elsewhere = "2/rc"
    Escaping = {".."}
    Languages = {"sh", "python"}
    PhaseLanguage <- MCPhaseLanguage
    Sources <- MCSources
    Copies = {1}
    MaxEntries = 512
    Movers = {r1, r2}
    NoRow = Nobody
    TenantSeed = demo
    SiteSeeds <- MCSites
    ComputerSeeds <- MCComputers
    ServerSeeds <- MCServers
    PrinterSeeds <- MCPrinters
    DeskSeeds <- MCDesks
    IdentitySeeds <- MCPersons
    GroupSeeds <- MCSeededGroups
    SoftwareSeeds <- MCSoftware
    Flagged = {p1}
    SeedDeletable = {p2, sg}
    GroupRows = {dg1, dg2}
    BuiltinRows = {dg1}
    Slugs <- MCSlugs
    Dependents = {me}
    MaxConditionRows = 1
    Clerks = {r1, r2}
    NoGroupRow = Nobody
    Library <- MCLibrary
    Satisfying = {own, b1}
    Bundled = {b1, x1}
    Catalogs <- MCCatalogs
    Accepted <- MCAccepted
    Given = {v1, v2}
    MaxChanges = 1
    Savers = {s1}
    Default = Nobody
SYMMETRY Symmetry
INVARIANTS
    RecordsTypeOK
    EditorListsHold
    DefaultsArePristine
    SeedsExactlyOnce
PROPERTIES
    HumanIdsHold
    CopiesAreComplete
    LinksGoByUnlinking
    ValidatedAsResolved
CHECK_DEADLOCK FALSE
