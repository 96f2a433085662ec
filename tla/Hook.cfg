SPECIFICATION FairSpec
CONSTANTS
    Devices = {d1, d2}
    MaxSockets = 4
    None = None
INVARIANTS
    TypeOK OneLiveSocket StatusIsTrue StartsAreStopped OneRetry
PROPERTIES
    ConnectAnswers
CHECK_DEADLOCK FALSE
