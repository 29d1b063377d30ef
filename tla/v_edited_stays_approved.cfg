\* As records.cfg; what the documentation says of an edited message.
SPECIFICATION MCSpec
CONSTANTS
    a1 = a1
    a2 = a2
    c1 = c1
    c2 = c2
    Channel = {"sms"}
    Sms = "sms"
    Marketing = "marketing"
    All = "all"
    Webhook = "webhook"
    Thread = {"thread"}
    Changes <- MCChanges
    Null = Null
    Draft = {m1}
    Copy = {"first", "second"}
    Operator = {"ann", "bob"}
    Run = "run"
    MaxRules = 1
    Message = {m1, m2}
    Order = {a1, a2}
    MaxUntimed = 1
    Customer = {c1, c2}
    Inbox = "inbox"
    Upload = {"upload"}
    Refresh = "refresh"
    Files <- MCFiles
    MaxImports = 2
    MaxCrashes = 1
INVARIANTS EditRevokesApproval
CHECK_DEADLOCK FALSE
