\* One request at a time, against the scheduler and an operator's run.
SPECIFICATION Spec
CONSTANTS
    Request = {r1}
    Scheduler = scheduler
    Operator = {operator}
    Kinds = {"recurring", "sequence"}
    RequireApproval = TRUE
    Editable = {"edit template", "edit steps"}
    MaxEdits = 1
    MaxCrashes = 1
    Null = Null
INVARIANTS ActiveIsReady SentCopyApproved
PROPERTY DueIsNotForgotten
