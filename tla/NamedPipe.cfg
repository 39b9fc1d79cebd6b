SPECIFICATION FairSpec
CONSTANTS
    Clients = {"c1"}
    Words = {"Apple", "Ball", "Cat"}
    Length <- MCLength
    WordSize = 2
    Capacity = 5
    KillAnywhere = FALSE
INVARIANTS
    WholeMessages
PROPERTIES
    NothingDiscarded
    ImplementsService
    ClientServed
