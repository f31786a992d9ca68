\* Concurrent starts without any fault.
SPECIFICATION FaultFreeSpec
CONSTANTS
    old = old
    new = new
    other = other
    Processes = {old, new, other}
    Latest <- LaterReleases
    NoProcess = nobody
    MaxStarts = 1
PROPERTY SomebodyGetsReady
CHECK_DEADLOCK FALSE
