SPECIFICATION FairSpec
CONSTANTS
    Clients = {"c1", "c2", "c3"}
    Units = {"a"}
    Exit <- MCExit
    MaxWords <- MCMaxWords
    CMax = 2
INVARIANTS
    SlotTable
    RightAnswer
PROPERTIES
    DropsOnlyEnded
    Answered
\* The clients are killed or have typed all their words.
CHECK_DEADLOCK FALSE
