SPECIFICATION FairSpec
CONSTANTS
    Lines <- MCLines
    Installed <- MCInstalled
    Work <- MCWork
    Capacity = 2
    short = short
    long = long
    endless = endless
    missing = missing
INVARIANTS
    CleanPrompt
    WholeInput
    NoEarlySigpipe
PROPERTIES
    PromptReturns
\* The shell exits when it cannot make a pipe.
CHECK_DEADLOCK FALSE
