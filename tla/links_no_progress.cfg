SPECIFICATION LinkSpec
CONSTANTS
    Link = {"l1", "l2", "l3"}
    Named = {}
    Covered = {}
    CityCount = 1
    MaxNames = 1
    State <- MCState
    NoState = "no state"
    Tool <- MCTool
    NoTool <- MCNoTool
    Window = 6
    StateRepeats = 3
    ToolRepeats = 3
    MaxSteps = 50
    MaxCost = 200
    CallCost = {1}
INVARIANT BenignLinksProgress
CHECK_DEADLOCK FALSE
