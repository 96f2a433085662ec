SPECIFICATION FairSpec
CONSTANTS
    r1 = r1  r2 = r2
    t1 = t1  d1 = d1  t2 = t2  d2 = d2  both = both
    first = first  late = late  short = short   panic = panic
    Exporters = {r1, r2}
    Datagrams = {t1, d1, both, short}
    Content <- MCContent
    Decoders = {w1, w2}
    MetricWorkers = {m1, m2}
    Prefetch = 1
    FaultKinds = {"db"}
    MaxFaults = 2
    MaxBucket = 0
    None = None
    Ready = Ready
PROPERTIES EventuallyHandled
CHECK_DEADLOCK FALSE
