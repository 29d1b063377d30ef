\* A transaction is lost after the provider accepted its messages.
SPECIFICATION Spec
CONSTANTS
    Worker = {w1}
    Automation = {cohort}
    Step = {s1}
    Customer = {c1}
    Backdated = {}
    Modes = {FALSE}
    Null = Null
    Repeats = FALSE
    SlowRuns = TRUE
    Cap = 2
    ReceiptKind = {"DELIVERED"}
    MaxDay = 0
    MaxBatch = 2
    MaxRuns = 2
    MaxCrashes = 1
    MaxFailures = 0
    MaxReceipts = 1
    MaxConsents = 0
INVARIANT NoDuplicateSend
