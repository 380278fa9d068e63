SPECIFICATION Spec
CONSTANTS
    mainId = mainId
    leaf = leaf
    hubId = hubId
    addr1 = addr1
    addr2 = addr2
    addr3 = addr3
    profile = profile
    other = other
    gwRead = gwRead
    gwAdmin = gwAdmin
    leafRead = leafRead
    leafConf = leafConf
    profRead = profRead
    baseRead = baseRead
    status = status
    settings = settings
    cloudBase = cloudBase
    cloudAdmin = cloudAdmin
    DeviceIds = {mainId, leaf, hubId}
    Hub = hubId
    Hosts = {addr1, addr2, addr3}
    Credentials = {gwRead, gwAdmin, leafRead, leafConf, profRead, baseRead, status, settings, cloudBase, cloudAdmin}
    Profiles = {profile, other}
    None = None
    Unset = Unset
    Missing = Missing
    Unknown = Unknown
    Setups <- MCSetups
    MaxRevoked = 1
CHECK_DEADLOCK FALSE
INVARIANTS
    CredentialStaysWithItsDevice
    ServedMeansReadable
    DoctorOkMeansAccepted
    EveryTierHasAVerdict
