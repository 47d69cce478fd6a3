CONSTANTS
    Clients = {c1, c2, c3}
    Channels = {pub, prs}
    PresenceChannels = {prs}
    PrivateChannels = {}
    Users = {u1, u2}
    NoUser = NoUser
    QueueCap = 1
    FrameOf <- MCFrameOf
SYMMETRY MCSymmetry
SPECIFICATION Spec
INVARIANT TypeOK
INVARIANT IndexMirror
INVARIANT PresenceIndexConsistent
INVARIANT WebhookTracksOccupancy
