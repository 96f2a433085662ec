SPECIFICATION PageSpec
CONSTANTS
    None = None
    Starts <- NearCarries
    Interval = 2
    MaxDataPoints = 2
    MaxSeconds = 12
    MaxReboots = 1
    MaxMissed = 1
    Devices = {r1, r2}
    Pages = {"router", "transmitter"}
    Watched = {"cpu_usage", "uptime"}
    Values = {7}
    MaxSamples = 3
    MaxRestarts = 1
    Cards = {"memory", "disk"}
    Averages = {4, 30000}
    MaxDays = 2
    Totals <- MCTotals
    Interfaces = {1, 2}
    TypeOf <- MCTypeOf
    TermsOf <- MCTermsOf
    IndexTermsOf <- MCIndexTermsOf
    Terms = {"term"}
    Statuses <- MCStatuses
    MaxChanges = 1
SYMMETRY Symmetry
INVARIANTS
    PageTypeOK BetweenSampleAndDevice ChartsAreRight PanelsAgree
PROPERTIES
    ListsKeep
CHECK_DEADLOCK FALSE
