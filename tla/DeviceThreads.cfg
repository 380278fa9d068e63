SPECIFICATION BudgetSpec
CONSTANTS
    Threads = {t1, t2}
    Credentials = {1, 2, 3, 4, 5, 6}
    None = None
    AuthKinds = {"client_credentials", "userpass"}
    MaxAttempts = 2
SYMMETRY ThreadSymmetry
VIEW Blame
INVARIANTS
    SingleFlight
    NeverResendRejected
    AuthFailureJustified
PROPERTIES
    ImplementsRemoteCall
    CallsRunDown
