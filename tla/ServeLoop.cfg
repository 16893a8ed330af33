\* serve_tls_with_shutdown: three clients for two permits.
SPECIFICATION FairSpec
CONSTANTS
    Conns = {c1, c2, c3}
    MaxConnections = 2
    MaxRequests = 1
    HasShutdown = TRUE
    UseTls = TRUE
    HasTimer = TRUE
INVARIANTS TypeOK PermitsConserved OneConnectionWaits
PROPERTIES NoAdmissionOnceInitiated ImplementsGracefulServer ShutdownReturns AcceptedIsServed
