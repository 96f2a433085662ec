SPECIFICATION Spec
CONSTANTS
    Screens = {"/routers", "/transmitters", "/switches"}
    OpenedWith <- MCLinks
    Ids = {1, 2}
    Names = {1}
    Filters = {1, NoFilter}
    Sorts = {"none"}
    PageSize = 1
    MaxLoads = 3
    MaxChanges = 1
    NoFilter = NoFilter
    None = None
INVARIANT RowsAreDevices
CHECK_DEADLOCK FALSE
