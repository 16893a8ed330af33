\* The documented "stops accepting immediately", against the code.
SPECIFICATION Spec
CONSTANTS
    Conns = {c1, c2}
    MaxConnections = 1
    MaxRequests = 1
    HasShutdown = TRUE
    UseTls = FALSE
    HasTimer = TRUE
PROPERTY StopsAcceptingImmediately
