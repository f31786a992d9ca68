\* Starts of three releases on one file, with crashes and failing statements;
\* every start ends.
SPECIFICATION FairSpec
CONSTANTS
    old = old
    new = new
    other = other
    Processes = {old, new, other}
    Latest <- ThreeReleases
    NoProcess = nobody
    MaxStarts = 2
INVARIANTS
    TypeOK
    SchemaMatchesHistory
    HistoryContiguous
    ReadyMeansMigrated
    LostToACommit
    RefusedMeansOlder
PROPERTIES
    EveryStartEnds
CHECK_DEADLOCK FALSE
