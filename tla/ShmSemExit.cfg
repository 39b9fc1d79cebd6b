SPECIFICATION FairSpec
CONSTANTS
    Words <- MCWords
    Contents <- MCContents
    Strlen <- MCStrlen
    Empty = ""
    SemMax = 5
    MaxRequests = 2
PROPERTIES
    ExitEndsReceiver
\* The system stops when both programs have ended, or with a receiver
\* left alone.
CHECK_DEADLOCK FALSE
