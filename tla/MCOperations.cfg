CONSTANTS
    o1 = o1
    o2 = o2
    pt1 = pt1
    pt2 = pt2
    None = None
    Unparsable = Unparsable
    Names = {"d", "p"}
    Points = {pt1, pt2}
    Ops = {o1, o2}
    Calls <- MCAllCalls
    NumServers = 1
    SetToList <- MCSetToList
    InitialStores <- MCInitialStores
    MaxExecutions = 2
SPECIFICATION Spec
SYMMETRY Symmetry
INVARIANTS TypeOK SuccessMeansAccepted ErrorTellsWhatWasSent TokenSeesLibraryErrors ShowIsSnapshot ReadYourCreates
CHECK_DEADLOCK FALSE
