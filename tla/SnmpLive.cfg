SPECIFICATION ServiceFairSpec
CONSTANTS
    Clients = {c1}
    Producers <- MCWorkers
    Messages <- MCCollections
    BroadcastCap = 1
    SendCap = 1
    None = None
    Devices = {d1}
    Metrics = {cpu, hdd}
    MaxCollections = 1
    Free = Free
PROPERTIES StoppedCollectionsEnd MetricsKeepComing
CHECK_DEADLOCK FALSE
