SPECIFICATION Spec
CONSTANTS
    gateway = gateway
    switch = switch
    Devices = {gateway, switch}
    Unknown = Unknown
    InControl = InControl
    None = None
    Kinds = {"router", "switch"}
    PolicyKeys = {"flag"}
    Fleets <- MCFleets
    Specs <- MCSpecs
    Calls <- MCCalls
    MaxAttempts = 2
INVARIANTS
    AllowMeansSent
