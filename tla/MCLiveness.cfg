CONSTANTS
    None = None
    Scanners = {"w1", "w2"}
    MaxAttempts = 2
    MaxFaults = 1
SPECIFICATION Spec
INVARIANT VerdictFitsScanned
PROPERTY EveryTransferResolves
PROPERTY CollectedIsSettled
PROPERTY BroadcastSettles
PROPERTY ScanSettles
CHECK_DEADLOCK FALSE
