\* One customer; the scheduler's run, an operator's run, one lost run.
SPECIFICATION MCSpec
CONSTANTS
    Customer = {c1}
    Scheduler = scheduler
    Operator = {operator}
    Week = 2
    Gap = 3
    Late = 2
    MaxCrashes = 1
    Programs <- MCPrograms
    N = 4
    AllowReentry = TRUE
    MaxDays = 2
    MaxEdits = 1
    MaxReentries = 1
    Null = Null
INVARIANT StepsTakenOnce
PROPERTIES NudgesApart DueIsHandled WaitsAreKept
