SPECIFICATION Spec
CONSTANTS
    App = {a1}
    Browser = {b1}
    Text = {t1, t2}
    Picture = {p1}
    File = {f1}
    Status = {"pending", "completed", "withdrawn"}
    None = None
    Torn = Torn
    NewText = {t1}
    MaxWrites = 3
INVARIANTS
    TypeOK
    AuditReplays
    InboxHoldsReports
    ReceiptIsTrue
CHECK_DEADLOCK FALSE
