SPECIFICATION Spec
CONSTANTS
    Requests = {r1, r2}
    Sessions = {s1, s2}
    Ids = {reader, operator}
    Secrets = {k1, k2}
    Unknown = Unknown
    None = None
    KeyLists <- MCKeyLists
    Environments <- MCEnvironments
INVARIANTS
    ToolRunsAsRequester
    OneTierPerToken
    ServesOnlyAuthorized
