CONSTANTS
    Clients = {c1}
    pub = pub
    Channels = {pub, prs}
    PresenceChannels = {}
    PrivateChannels = {prs}
    Users = {u1}
    NoUser = NoUser
    QueueCap = 1
    FrameOf <- MCFrameOf
    NumShards <- MCNumShards
    ShardOf <- MCShardOf
    MaxConnections = 2
    MaxFrames = 2
    BusCap = 1
    MaxPublish = 1
    MultiLists <- MCMultiLists
    AllowShutdown = TRUE
SPECIFICATION Spec
\* Shutdown can hang (see the shutdown_hangs run), and a hung system has no
\* enabled step: deadlock is not checked here.
CHECK_DEADLOCK FALSE
INVARIANT TypeOK
INVARIANT PublishResultTruthful
PROPERTY UnregisterCompletes
