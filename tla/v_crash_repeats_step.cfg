\* A run is lost between its last two commits.
SPECIFICATION Spec
CONSTANTS
    Worker = {w1}
    Operator = {o1}
    Customer = {c1}
    Offset <- ThreeSteps
    Rolling = TRUE
    BackDating = {0}
    CatchUp = 1
    StopOnOrder = TRUE
    Modes = {FALSE}
    EndDay = 3
    MaxDay = 3
    MaxCrashes = 1
    MaxControls = 0
    MaxOptIns = 0
    MaxOthers = 1
    MaxHeld = 0
    MaxOrders = 0
    Null = Null
PROPERTY RecordedNotResent
