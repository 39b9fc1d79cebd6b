SPECIFICATION MCSpec
CONSTANTS
    TH_N = 3
    COUNT = 3
INVARIANTS
    PrintedExact
    IInv
    NeverAhead
    SomeSurvive
PROPERTIES
    Termination
    ImplementsAtomic
\* The program ends.
CHECK_DEADLOCK FALSE
