\* A running campaign is paused.
SPECIFICATION Spec
CONSTANTS
    Scheduler = scheduler
    Operator = {}
    Request = {r1}
    Customer = {c1, c2}
    Ops = {"check", "approve", "schedule", "pause", "cancel", "edit", "snapshot"}
    Passing = {0}
    MaxEdits = 0
    MaxSnapshots = 1
    MaxChanges = 6
    MaxOptOuts = 0
    MaxFailures = 0
    MaxCrashes = 0
    Null = Null
PROPERTY PausedSendsNothing
