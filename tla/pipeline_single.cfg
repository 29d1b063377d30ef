\* One worker, no lost transaction, no failed call: the ledger is exact.
SPECIFICATION Spec
CONSTANTS
    Worker = {w1}
    Automation = {cohort, nudge}
    Step = {s1}
    Customer = {c1}
    Backdated = {nudge}
    Modes = {FALSE}
    Null = Null
    Repeats = TRUE
    SlowRuns = TRUE
    Cap = 2
    ReceiptKind = {"DELIVERED"}
    MaxDay = 1
    MaxBatch = 2
    MaxRuns = 2
    MaxCrashes = 0
    MaxFailures = 0
    MaxReceipts = 1
    MaxConsents = 2
INVARIANTS TypeOK OneCallPerLandingDay EveryCallClaimed CapHeld OneClaimPerDay OptOutBound
