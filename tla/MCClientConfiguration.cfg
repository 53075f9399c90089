SPECIFICATION Spec
CONSTANTS
    h1 = h1
    Hosts = {h1}
    Ports = {1, 2}
    Endpoints <- MCEndpoints
    Names <- MCNames
    Durations = {5}
    Hints = {0, 2, 9}
    Cores = {0, 2}
    MaxCalls = 4
    MaxClients = 1
    NotSet = NotSet
INVARIANTS ClientMatchesCalls ServersAreDistinct ThreadsAreEnough RequestsCarryCredentials CredentialsArrive
CHECK_DEADLOCK FALSE
