SPECIFICATION RestartSpec
CONSTANTS
    Words <- MCFewWords
    Contents <- MCContents
    Strlen <- MCStrlen
    Empty = ""
    SemMax = 3
    MaxRequests = 1
    MaxRuns = 4
INVARIANTS
    NoPhantomRequest
    CleanStart
PROPERTIES
    TokenAccount
    Recovers
\* The system stops when no program may be started any more.
CHECK_DEADLOCK FALSE
