\* Two workers whose inserts may wait for each other, a lost transaction, a failed call.
SPECIFICATION Spec
CONSTANTS
    Worker = {w1, w2}
    Automation = {cohort}
    Step = {s1}
    Customer = {c1, c2}
    Backdated = {}
    Modes = {FALSE, TRUE}
    Null = Null
    Repeats = FALSE
    SlowRuns = TRUE
    Cap = 2
    ReceiptKind = {"DELIVERED"}
    MaxDay = 0
    MaxBatch = 2
    MaxRuns = 2
    MaxCrashes = 1
    MaxFailures = 1
    MaxReceipts = 0
    MaxConsents = 0
INVARIANTS UniqueKeys DedupedHasWinner
PROPERTY RunsEnd
