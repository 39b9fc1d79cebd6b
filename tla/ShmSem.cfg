SPECIFICATION FairSpec
CONSTANTS
    Words <- MCWords
    Contents <- MCContents
    Strlen <- MCStrlen
    Empty = ""
    SemMax = 3
    MaxRequests = 4
INVARIANTS
    IInv
    TokensConserved
    NoPhantomRequest
    Exclusion
    ReplyMatches
    SizedBeforeUse
PROPERTIES
    HandedOver
    SenderServed
    CleanShutdown
\* The system stops when both programs have ended, or with a receiver
\* left alone.
CHECK_DEADLOCK FALSE
