SPECIFICATION Spec
CONSTANTS
    r1 = r1  r2 = r2
    t1 = t1  d1 = d1  t2 = t2  d2 = d2  both = both
    first = first  late = late  short = short   panic = panic
    Exporters = {r1, r2}
    Datagrams = {t1, d1, t2, d2, both}
    Content <- MCContent
    Decoders = {w1, w2}
    MetricWorkers = {m1, m2}
    Prefetch = 1
    FaultKinds = {}
    MaxFaults = 0
    MaxBucket = 1
    None = None
    Ready = Ready
SYMMETRY Symmetry
INVARIANTS TypeOK PercentagesFresh
CHECK_DEADLOCK FALSE
