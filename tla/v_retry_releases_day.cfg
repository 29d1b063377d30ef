\* A failed send is retried on the same day.
SPECIFICATION Spec
CONSTANTS
    Worker = {w1}
    Automation = {cohort, sequence}
    Step = {s1}
    Customer = {c1}
    Backdated = {}
    Modes = {FALSE}
    Null = Null
    Repeats = FALSE
    SlowRuns = FALSE
    Cap = 2
    ReceiptKind = {"DELIVERED"}
    MaxDay = 0
    MaxBatch = 2
    MaxRuns = 3
    MaxCrashes = 0
    MaxFailures = 1
    MaxReceipts = 1
    MaxConsents = 0
INVARIANT OneMessagePerDay
