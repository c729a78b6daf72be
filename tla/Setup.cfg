SPECIFICATION Spec
CONSTANTS
    Files <- MCFiles
    Outside <- MCOutside
INVARIANTS EntitiesApart EntitiesWired CommandsReachTheirUnit RuleSuffices SnapshotsTrue
PROPERTIES NothingLeftBehind
CHECK_DEADLOCK FALSE
