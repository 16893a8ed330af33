\* A file of at most two bytes read one by one, two versions of it in two
\* seconds, every kind of server.
SPECIFICATION Spec
CONSTANTS
    Servers <- AllServers
    Requests <- MCRequests
    Inodes = {i1, i2}
    Chunk = 1
    MaxU64 = 3
    MaxLen = 2
    MaxVersions = 2
    MaxSecond = 1
INVARIANTS
    TypeOK AnswersAreExact OneVersionIfRenamed NotModifiedIsFresh
SYMMETRY Symmetry
