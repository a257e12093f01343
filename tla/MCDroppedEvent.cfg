CONSTANTS
    o1 = o1
    o2 = o2
    Objects = {o1, o2}
    Contents = {"one", "both"}
    Shapes <- MCOneShape
    Owners = {"a", "b"}
    MapFunc <- MCSingleMapFunc
    Matching = {"both"}
    OwnerOf <- MCOwnerOf
    Capacity = 1
    ResyncWalks <- MCWalks
    MaxChanges = 3
    None = None
SPECIFICATION FairDeliverySpec
CHECK_DEADLOCK FALSE
PROPERTIES
    DroppedRecovered
