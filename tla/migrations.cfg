SPECIFICATION StartupSpec
CONSTANTS
    LastFile <- MCLastFile
    Statements <- MCStatements
    Repeatable = {1, 2, 4}
    PragmaFiles = {1, 3}
    MentionsPragma <- MCMentionsPragma
    Items = {}
    Parts <- MCParts
    Seeders = {}
    NoItem = Nobody
INVARIANT PragmaFreeMigrationsAreAtomic
