\* A campaign is submitted again, approved again and run again, and its audience
\* is taken again, also while a run goes on.
SPECIFICATION Spec
CONSTANTS
    Scheduler = scheduler
    Operator = {}
    Request = {r1}
    Customer = {c1, c2}
    Ops = {"check", "submit", "approve", "schedule", "pause", "cancel", "edit", "snapshot"}
    Passing = {0}
    MaxEdits = 0
    MaxSnapshots = 2
    MaxChanges = 7
    MaxOptOuts = 1
    MaxFailures = 1
    MaxCrashes = 0
    Null = Null
INVARIANT SentOnce
PROPERTY RunSettles
