SPECIFICATION Spec
CONSTANTS
    router = router
    switch = switch
    unit1 = unit1
    unit2 = unit2
    org1 = org1
    org2 = org2
    group1 = group1
    Devices = {router, switch}
    Units = {unit1, unit2}
    Orgs = {org1, org2}
    Groups = {group1}
    DefaultOrg = org1
    None = None
    Hints <- MCHints
    Files <- MCFiles
    MaxChanges = 1
INVARIANTS
    AnswerIsTheMappedDevice
    CacheTrueUnlessMoved
    MissIsJustified
    SyncKeepsSerials
    NoRivalCandidate
PROPERTIES
    ImplementsLookup
