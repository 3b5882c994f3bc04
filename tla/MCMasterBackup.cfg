SPECIFICATION Spec
CONSTANTS
    Peer <- MCPeer
    WriteEvery = 2
INVARIANT RestartFindsMembers
