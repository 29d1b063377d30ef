\* A run before the window opens.
SPECIFICATION Spec
CONSTANTS
    Worker = {w1}
    Automation = {cohort}
    Step = {s1}
    Customer = {c1}
    Backdated = {}
    Modes = {FALSE}
    Null = Null
    Repeats = FALSE
    SlowRuns = TRUE
    Cap = 2
    ReceiptKind = {"DELIVERED"}
    MaxDay = 0
    MaxBatch = 2
    MaxRuns = 1
    MaxCrashes = 0
    MaxFailures = 0
    MaxReceipts = 1
    MaxConsents = 0
INVARIANT SentInWindow
