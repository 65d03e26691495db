CONSTANTS
    PolicyAttempts = 3
    PageCeiling = 2
    MaxPages = 3
SPECIFICATION GraphSpec
INVARIANTS GraphTypeOK DoneOnce PagesInOrder NothingAstray
CHECK_DEADLOCK FALSE
