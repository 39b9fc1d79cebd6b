SPECIFICATION Spec
CONSTANTS
    Clients = {"c1"}
    Words = {"Apple", "Cat"}
    Length <- MCLength
    WordSize = 2
    Capacity = 5
    KillAnywhere = TRUE
INVARIANTS
    FreshReply
\* After some kills the server is dead, or it and a client wait for each other.
CHECK_DEADLOCK FALSE
