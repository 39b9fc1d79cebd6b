SPECIFICATION Spec
CONSTANTS
    Words <- MCWords
    Contents <- MCContents
    Strlen <- MCStrlen
    Empty = ""
    SemMax = 3
    MaxRequests = 2
INVARIANTS
    AnswerAwaited
\* The system stops when both programs have ended, or with a receiver
\* left alone.
CHECK_DEADLOCK FALSE
