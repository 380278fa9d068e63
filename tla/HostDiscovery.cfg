SPECIFICATION Spec
CONSTANTS
    main = main
    branch = branch
    leaf = leaf
    unit1 = unit1
    unit2 = unit2
    unit3 = unit3
    addr1 = addr1
    addr2 = addr2
    addr3 = addr3
    Devices = {main, branch, leaf}
    Unknown = Unknown
    Units = {unit1, unit2, unit3}
    Addresses = {addr1, addr2, addr3}
    None = None
    Fleets <- MCFleets
    MaxChanges = 2
INVARIANTS
    ServingMeansResolved
    HostTrueUnlessMoved
PROPERTIES
    StartsInTheEnd
