\* A second worker stops an enrollment that a run has taken up.
SPECIFICATION Spec
CONSTANTS
    Worker = {w1, w2}
    Operator = {o1}
    Customer = {c1}
    Offset <- ThreeSteps
    Rolling = TRUE
    BackDating = {0}
    CatchUp = 1
    StopOnOrder = TRUE
    Modes = {FALSE}
    EndDay = 3
    MaxDay = 3
    MaxCrashes = 0
    MaxControls = 0
    MaxOptIns = 0
    MaxOthers = 0
    MaxHeld = 0
    MaxOrders = 1
    Null = Null
PROPERTY StoppedGetsNothing
