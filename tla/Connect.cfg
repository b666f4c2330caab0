SPECIFICATION FairSpec
CONSTANTS
    Settings <- MCSettings
    DNS <- MCDNS
    UnixHosts = {"/s"}
    Addresses = {"a", "b"}
    Servers <- MCServers
    MaxLosses = 1
    MaxTokens = 1
INVARIANTS
    NoSocketLeft
    SecretsGuarded
    ReturnedInStep
    FirstAcceptable
PROPERTIES
    Terminates
CHECK_DEADLOCK FALSE
