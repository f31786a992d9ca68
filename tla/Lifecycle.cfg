\* Requests at any stage while the process stops, fails, dies and is started again.
SPECIFICATION FairSpec
CONSTANTS
    Clients = {c1, c2, c3}
    MaxStarts = 2
INVARIANTS
    TypeOK
    OwnOutageNeverStored
    DecisionsToldAreStored
PROPERTIES
    CleanExitLosesNobody
    StopsWhenTold
CHECK_DEADLOCK FALSE
