\* Two overlapping routes, no middleware and no CORS.
SPECIFICATION Spec
CONSTANTS
    Patterns <- OverlapPatterns
    GroupPrefixes = {}
    RouteMethods = {"GET"}
    Middlewares = {}
    CorsBuilders = {}
    Debug = TRUE
    Paths <- MCPaths
    Origins = {"none", "home", "other"}
    Outcomes <- MCOutcomes
    MaxCalls = 3
INVARIANT OverlappingRoutesWork
CHECK_DEADLOCK FALSE
