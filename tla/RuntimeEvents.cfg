CONSTANTS
    QueueSize = 1
    MaxTurns = 1
    MaxInputs = 1
    MaxFaults = 1
    MaxConnects = 1
SPECIFICATION Spec
INVARIANTS
    ReceivedOnce
    NothingMissed
    StatusNeverGoesBack
CHECK_DEADLOCK FALSE
