SPECIFICATION FairDataSpec
CONSTANTS
    r1 = r1
    r2 = r2
    c1 = c1
    c2 = c2
    h1 = h1
    h2 = h2
    a1 = a1
    a2 = a2
    None = None
    Readers = {r1, r2}
    Clients = {r1, r2}
    Hosts = {h1, h2}
    Addresses = {a1, a2}
    AddressesOf <- AddressesOfHosts
    HeaderTTL = 1
    HeaderMax = 1
    LookupTime = 1
    MaxTime = 3
    MaxIssued = 2
    VersionSize <- SizeOfVersions
    BlockSize = 2
    MaxBlocks = 2
    Configs <- AllConfigs
INVARIANTS
    ReadExact
    NoOlderBytes
    HeaderFresh
    Refreshed
PROPERTIES
    ReadReturns
    Recovers
