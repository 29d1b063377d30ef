\* One worker, live and dry runs, one operator, one customer who may join with no, one or
\* every step stale; one of every fault.
SPECIFICATION Spec
CONSTANTS
    Worker = {w1}
    Operator = {o1}
    Customer = {c1}
    Offset <- TwoSteps
    Rolling = FALSE
    BackDating = {0, 2, 3}
    CatchUp = 1
    StopOnOrder = TRUE
    Modes = {FALSE, TRUE}
    EndDay = 2
    MaxDay = 1
    MaxCrashes = 1
    MaxControls = 2
    MaxOptIns = 1
    MaxOthers = 1
    MaxHeld = 1
    MaxOrders = 1
    Null = Null
INVARIANTS StepsAccountedFor StepSentOnce
PROPERTIES NeverRevived StoppedGetsNothing EnrollmentsEnd
