CONSTANTS
    Clients = {c1, c2}
    pub = pub
    Channels = {pub, prs}
    PresenceChannels = {prs}
    PrivateChannels = {}
    Users = {u1}
    NoUser = NoUser
    QueueCap = 1
    FrameOf <- MCFrameOf
    NumShards <- MCNumShards
    ShardOf <- MCShardOf
    MaxConnections = 1
    MaxFrames = 2
    BusCap = 1
    MaxPublish = 0
    MultiLists <- MCMultiLists
    AllowShutdown = FALSE
SPECIFICATION Spec
INVARIANT TypeOK
INVARIANT ConnectionCountMatchesClients
INVARIANT ShardsFitBitmap
SYMMETRY MCSymmetry
