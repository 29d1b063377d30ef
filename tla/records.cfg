\* One channel beside the blanket consent; replies and one other thread.
SPECIFICATION MCSpec
CONSTANTS
    a1 = a1
    a2 = a2
    c1 = c1
    c2 = c2
    Channel = {"sms"}
    Sms = "sms"
    Marketing = "marketing"
    All = "all"
    Webhook = "webhook"
    Thread = {"thread"}
    Changes <- MCChanges
    Null = Null
    Draft = {m1}
    Copy = {"first", "second"}
    Operator = {"ann", "bob"}
    Run = "run"
    MaxRules = 1
    Message = {m1, m2}
    Order = {a1, a2}
    MaxUntimed = 1
    Customer = {c1, c2}
    Inbox = "inbox"
    Upload = {"upload"}
    Refresh = "refresh"
    Files <- MCFiles
    MaxImports = 2
    MaxCrashes = 1
INVARIANTS StopHolds DraftsAreTrue CountedOnce
PROPERTIES ScoresCatchUp
CHECK_DEADLOCK FALSE
