\* A customer joins when every step is stale.
SPECIFICATION Spec
CONSTANTS
    Worker = {w1}
    Operator = {o1}
    Customer = {c1}
    Offset <- ThreeSteps
    Rolling = TRUE
    BackDating = {4}
    CatchUp = 1
    StopOnOrder = TRUE
    Modes = {FALSE}
    EndDay = 3
    MaxDay = 3
    MaxCrashes = 0
    MaxControls = 0
    MaxOptIns = 0
    MaxOthers = 0
    MaxHeld = 0
    MaxOrders = 0
    Null = Null
INVARIANT NothingLeftIsFinished
