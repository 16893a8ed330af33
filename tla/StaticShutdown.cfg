\* mini-static's serve_with_shutdown: no timer on its connections.
SPECIFICATION FairSpec
CONSTANTS
    Conns = {c1, c2}
    MaxConnections = 2
    MaxRequests = 1
    HasShutdown = TRUE
    UseTls = FALSE
    HasTimer = FALSE
PROPERTY ShutdownReturns
