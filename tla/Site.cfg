SPECIFICATION SiteSpec
CONSTANTS
    None = None
    Averaged = {memory, cpu}
    Memory = memory
    Cpu = cpu
    Temperature = temperature
    Editors = {e1}
    MaxSamples = 1
    Ids = {1, 2}
    Names = {1, 2}
    MaxChanges = 1
    OpenedWith <- MCLinks
    Screens = {"/routers"}
    Filters = {1, NoFilter}
    Sorts = {"desc"}
    PageSize = 1
    MaxLoads = 3
    NoFilter = NoFilter
    Existing = {1}
    MaxSaves = 1
    MaxReloads = 2
    Blank = Blank
    Default = Default
    Typed = Typed
    Tabs = {t1, t2}
    Users = {u1, u2}
    MaxLogins = 2
    HoursOfDay = 3
    Offset = 1
    WindowDays = 0
    DaysOfMonth = 2
    Gigabyte = 4
    Start = 7
    MaxHours = 3
INVARIANTS
    SiteTypeOK CountedOnce LostOnlyBetween TableIsRight SessionIsRight TrafficIsRight
PROPERTIES
    FormKeeps ProgressEnds
CHECK_DEADLOCK FALSE
