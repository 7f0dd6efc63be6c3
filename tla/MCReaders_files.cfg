SPECIFICATION Spec
CONSTANTS
    MAX_CLIENT_COUNT = 2
    ToldCount = 3
    MAX_NAME_SIZE = 100
    CapabilitySize = 100
    RingNames <- MCRingNames
    Clients <- MCClients
    IdEntries <- MCIdEntries
    CpuLines <- MCCpuLines
    KeyLines <- MCKeyLines
    BiosTables <- MCBiosTables
    Accounts <- MCAccounts
    MaxAdded = 5
INVARIANTS FencesRight ClientsListed NamesFound LookupsRight BiosInBounds
CHECK_DEADLOCK FALSE
