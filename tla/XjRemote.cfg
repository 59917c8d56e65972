CONSTANTS
    c1 = c1
    s1 = s1
    s2 = s2
    None = None
    Clients <- MCClients
    Servers <- MCServers
    Options <- MCOptions
    QueueSize = 2
    OpenTries = 1
    MaxRestarts = 3
    MaxCommands = 2
    MaxNotices = 1
    MaxMishaps = 1
SPECIFICATION Spec
INVARIANTS
    TypeOK
    SessionHasOneServer
    Paired
CHECK_DEADLOCK FALSE
PROPERTIES
    QuitIsFollowed
