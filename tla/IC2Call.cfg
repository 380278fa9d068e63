SPECIFICATION FairSpec
CONSTANTS
    Threads = {t1}
    Tokens = {1, 2, 3, 4, 5, 6}
    RefreshTokens = {1, 2}
    None = None
    MaxAttempts = 4
INVARIANTS
    RefusedRefreshTokenDropped
PROPERTIES
    CallReturns
