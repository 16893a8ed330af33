\* One route for GET and one for POST, no middleware and no CORS.
SPECIFICATION Spec
CONSTANTS
    Patterns <- OverlapPatterns
    GroupPrefixes = {}
    RouteMethods = {"GET", "POST"}
    Middlewares = {}
    CorsBuilders = {}
    Debug = FALSE
    Paths <- MCPaths
    Origins = {"none", "home"}
    Outcomes <- MCOutcomes
    MaxCalls = 2
INVARIANT HeadHasHeadersOfGet
CHECK_DEADLOCK FALSE
