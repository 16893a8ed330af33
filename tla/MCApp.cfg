\* A release build; three builder calls, those in the closure of a group
\* included.
SPECIFICATION Spec
CONSTANTS
    Patterns <- MCPatterns
    GroupPrefixes <- MCPrefixes
    RouteMethods = {"GET", "POST"}
    Middlewares = {"m1", "m2"}
    CorsBuilders <- MCCorsBuilders
    Debug = FALSE
    Paths <- MCPaths
    Origins = {"none", "home", "other"}
    Outcomes <- MCOutcomes
    MaxCalls = 3
INVARIANTS
    TypeOK FindsMostSpecific ParamsAreOfTheRoute MiddlewareOnceEach NotFoundIsTrue
    CredentialsOnlyForListed ReadableByAllowed
CHECK_DEADLOCK FALSE
