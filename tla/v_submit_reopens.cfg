\* A campaign that an operator runs with its own copy is submitted for approval and
\* edited meanwhile.
SPECIFICATION Spec
CONSTANTS
    Scheduler = scheduler
    Operator = {operator}
    Request = {r1}
    Customer = {c1, c2}
    Ops = {"check", "submit", "approve", "schedule", "pause", "cancel", "edit", "snapshot"}
    Passing = {0, 1}
    MaxEdits = 2
    MaxSnapshots = 1
    MaxChanges = 6
    MaxOptOuts = 0
    MaxFailures = 0
    MaxCrashes = 0
    Null = Null
INVARIANT ApprovedCopySent
