SPECIFICATION Spec
CONSTANTS
    Clients = {"c1", "c2"}
    Words = {"Apple", "Ball", "Cat"}
    Length <- MCLength
    WordSize = 2
    Capacity = 5
    KillAnywhere = FALSE
INVARIANTS
    OwnReply
