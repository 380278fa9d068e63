SPECIFICATION BlameSpec
CONSTANTS
    Threads = {t1, t2}
    Tokens = {1, 2, 3, 4, 5, 6}
    RefreshTokens = {1}
    None = None
    MaxAttempts = 2
SYMMETRY ThreadSymmetry
INVARIANTS
    SingleFlight
    NeverResendRejected
    AuthFailureJustified
PROPERTIES
    ImplementsRemoteCall
    CallsRunDown
