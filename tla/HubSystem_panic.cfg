CONSTANTS
    Clients = {c1, c2}
    pub = pub
    Channels = {pub, prs}
    PresenceChannels = {prs}
    PrivateChannels = {}
    Users = {u1}
    NoUser = NoUser
    QueueCap = 1
    FrameOf <- MCFrameOf
    NumShards <- MCNumShards
    ShardOf <- MCShardOf
    MaxConnections = 2
    MaxFrames = 0
    BusCap = 1
    MaxPublish = 1
    MultiLists <- MCMultiLists
    AllowShutdown = TRUE
SPECIFICATION Spec
INVARIANT NoPublishPanic
