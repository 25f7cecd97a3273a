SPECIFICATION ViewsSpec
CONSTANTS
    Queries = {"q"}
    Reports <- MCReports
    Heights = {0, 2}
    Kinds <- MCKinds
    Snapshots <- MCSnapshots
    Searches <- MCSearches
    MaxMarked = 1
    Sections = {"h", "g"}
    SensorIds = {"a", "b"}
    Layouts <- MCLayouts
    Values = {0, 1}
    Labels = {l1, l2}
    DeviceIds = {"a", "b"}
    Titles = {"x", "y"}
    Structures = {1, 2}
    Shown = {"x", "z"}
    Inventories <- MCInventories
    Machines <- MCMachines
    Searched = {"x", "y"}
    DetailSensors = {"s"}
    Drives = {"d"}
INVARIANTS ShownIsCurrent RowsTrue InventoryTrue
PROPERTIES KeptInView
CHECK_DEADLOCK FALSE
