SPECIFICATION FairSpec
CONSTANTS
    Rounds = 3
    Words = {"I", "Apple"}
    Length <- MCLength
    Lines <- MCLines
    Installed = {"ls", "cat"}
    Halves = {"a", "b"}
    MaxTicks = 7
    Total = 3
    Size = 5
    Numbers = {n1, n2}
    Garbage = g
    Runs = {r1, r2}
    Modes <- MCModes
INVARIANTS
    WaiterLast
    OwnAnswer
    RunsTheLine
    WholeText
    OnTime
    PrintsInOrder
    ChangesKept

    
\* Most programs end.
CHECK_DEADLOCK FALSE
