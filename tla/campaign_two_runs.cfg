\* The scheduler and an operator run the campaign at the same time.
SPECIFICATION Spec
CONSTANTS
    Scheduler = scheduler
    Operator = {operator}
    Request = {r1}
    Customer = {c1, c2}
    Ops = {"check", "approve", "schedule", "pause", "cancel", "edit", "snapshot"}
    Passing = {0}
    MaxEdits = 1
    MaxSnapshots = 2
    MaxChanges = 3
    MaxOptOuts = 1
    MaxFailures = 0
    MaxCrashes = 1
    Null = Null
INVARIANTS ApprovedCopySent RevokedConsentHonoured
