CONSTANTS
    Queries <- MCQueries
    Instants <- MCInstants
    LimiterOn = TRUE
    MaxReqs = 3
SPECIFICATION Spec

INVARIANT ProtocolCheckMatchesVersion
