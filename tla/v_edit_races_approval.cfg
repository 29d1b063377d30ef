\* An edit and an approval are served at the same time.
SPECIFICATION Spec
CONSTANTS
    Request = {r1, r2}
    Scheduler = scheduler
    Operator = {operator}
    Kinds = {"recurring"}
    RequireApproval = TRUE
    Editable = {"edit template"}
    MaxEdits = 1
    MaxCrashes = 0
    Null = Null
INVARIANT SentCopyApproved
