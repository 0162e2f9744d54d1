SPECIFICATION MCSpec
CONSTANTS
    a = a  b = b  c = c  w1 = w1  w2 = w2  wsA = wsA  wsB = wsB
    KindsUsed = {"eager"}
    Loop = Loop  NoVersion = NoVersion  NoText = NoText  NoWorkspace = NoWorkspace
    NoSnapshot = NoSnapshot  NoFacts = NoFacts  NoThread = NoThread  AnyPath = AnyPath
    Paths <- MCPaths
    Workers <- MCWorkers
    Workspaces <- MCWorkspaces
    FilesOf <- MCFilesOf
    Versions <- MCVersions
    Clients <- MCClients
CHECK_DEADLOCK FALSE
INVARIANT NoEditLost
