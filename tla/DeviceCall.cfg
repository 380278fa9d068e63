SPECIFICATION BudgetSpec
CONSTANTS
    Threads = {t1}
    Credentials = {1, 2, 3, 4, 5}
    None = None
    AuthKinds = {"client_credentials", "userpass"}
    MaxAttempts = 4
INVARIANTS
    PostBudget
    LoginRefusedTwiceAtMost
PROPERTIES
    CallReturns
