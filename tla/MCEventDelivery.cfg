CONSTANTS
    o1 = o1
    o2 = o2
    Objects = {o1, o2}
    Contents = {"one", "both"}
    Shapes <- MCShapes
    Owners = {"a", "b"}
    MapFunc <- MCMapFunc
    Matching = {"both"}
    OwnerOf <- MCOwnerOf
    Capacity = 2
    ResyncWalks <- MCWalks
    MaxChanges = 3
    None = None
SPECIFICATION FairDeliverySpec
INVARIANTS
    OwedIsPending
CHECK_DEADLOCK FALSE
PROPERTIES
    PresentObjectsSeen
