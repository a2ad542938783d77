CONSTANTS
    c1 = c1
    c2 = c2
    Clients = {c1, c2}
    Profiles <- MCProfiles
    Servers = {"asgi", "stdlib", "tls"}
    MAX_BODY = 2
    PoolSize = 1
    None = None
SPECIFICATION Spec
CHECK_DEADLOCK FALSE
INVARIANTS
    WholeBodiesOnly
    IdentityIsThePeers
    RefusedWasNotSeen
PROPERTIES
    EveryClientIsAnswered
