-------------------------------- MODULE App --------------------------------
(***************************************************************************)
(* mini-serve's RouteBuilder and App: routes, groups, middleware and CORS  *)
(* are set up by builder calls in any order, seal() makes the App, and     *)
(* route() answers requests.  serve_static() is mini-unified's.            *)
(*                                                                         *)
(* The App is immutable (its router is behind an Arc), so route() is an    *)
(* operator, Respond, on the sealed builder and a request.  A handler is   *)
(* known by the group it was registered in and the middleware around it,   *)
(* innermost first; what it answers is an outcome: a status, the Vary it   *)
(* sets, and whether it returns Ok or Err.                                 *)
(***************************************************************************)
EXTENDS Router, Cors

CONSTANTS
    Patterns,      \* of the routes, sequences of segments
    GroupPrefixes, \* of the groups
    RouteMethods,  \* with a builder call of their own
    Middlewares,
    CorsBuilders,  \* settings given to with_cors()
    Debug,         \* build with debug_assertions
    Paths,         \* of the requests, as the pieces between their slashes
    Origins,       \* of the pages that send requests
    Outcomes,      \* of a handler
    MaxCalls       \* bound: builder calls

ASSUME DebugAssumption == Debug \in BOOLEAN
ASSUME CallsAssumption == MaxCalls \in Nat
ASSUME PatternsAssumption == Patterns \subseteq Seq(Segments) /\ GroupPrefixes \subseteq Seq(Segments)
ASSUME PathsAssumption == Paths \subseteq Seq(STRING)
(* There is no builder call for HEAD.                                      *)
ASSUME MethodsAssumption == "GET" \in RouteMethods /\ "HEAD" \notin RouteMethods
ASSUME BuildersAssumption == \A b \in CorsBuilders : b.credentials \in BOOLEAN

VARIABLES
    calls,       \* how many calls were made
    phase,       \* "building", "grouping" (in the closure), "mounting", "sealed"
    router,
    middleware,  \* the builder's; kept after seal() took it, to refer to
    cors,        \* {} or {config}
    group,       \* the GroupBuilder: [prefix, routes, middleware]
    groups       \* history: the middleware of each group so far

vars == <<calls, phase, router, middleware, cors, group, groups>>

NoGroup == [prefix |-> <<>>, routes |-> <<>>, middleware |-> <<>>]

Init ==
    /\ calls = 0
    /\ phase = "building"
    /\ router = NewRouter
    /\ middleware = <<>>
    /\ cors = {}
    /\ group = NoGroup
    /\ groups = <<>>

Call(p) ==
    /\ phase = p
    /\ calls < MaxCalls
    /\ calls' = calls + 1

Bare(owner) == [owner |-> owner, wraps |-> <<>>]
-----------------------------------------------------------------------------
(* RouteBuilder.                                                           *)

(* get(), post(), put(), delete().                                         *)
AddRoute(m, pattern) ==
    /\ Call("building")
    /\ router' = Insert(router, m, pattern, Bare(0))
    /\ UNCHANGED <<phase, middleware, cors, group, groups>>

(* Mutant: the middleware is put around the handlers there are.            *)
WrapNow(x) ==
    /\ Call("building")
    /\ router' = ApplyMiddleware(router, <<x>>)
    /\ UNCHANGED <<phase, middleware, cors, group, groups>>

Wrap(x) ==
    /\ Call("building")
    /\ middleware' = Append(middleware, x)
    /\ UNCHANGED <<phase, router, cors, group, groups>>

WithCors(b) ==
    /\ Call("building")
    /\ Build(b, Debug) # {}
    /\ cors' = Build(b, Debug)
    /\ UNCHANGED <<phase, router, middleware, group, groups>>

(* mini-unified: one handler for "/" and "/*", and the live reload stream  *)
(* in debug builds.                                                        *)
ServeStatic ==
    /\ Call("building")
    /\ LET t == Insert(Insert(router, "GET", Root, Bare(0)), "GET", <<Wildcard>>, Bare(0))
       IN  router' = IF Debug THEN Insert(t, "GET", <<Static("__mini_reload")>>, Bare(0)) ELSE t
    /\ UNCHANGED <<phase, middleware, cors, group, groups>>

Seal ==
    /\ phase = "building"
    /\ phase' = "sealed"
    /\ router' = ApplyMiddleware(router, middleware)
    /\ UNCHANGED <<calls, middleware, cors, group, groups>>
-----------------------------------------------------------------------------
(* group(): the closure runs on a GroupBuilder of its own; then the        *)
(* middleware of the group is put around all its routes, and they are      *)
(* inserted one by one under the prefix.                                   *)

OpenGroup(prefix) ==
    /\ phase = "building"
    /\ calls < MaxCalls
    /\ phase' = "grouping"
    /\ group' = [NoGroup EXCEPT !.prefix = prefix]
    /\ UNCHANGED <<calls, router, middleware, cors, groups>>

GroupRoute(m, pattern) ==
    /\ Call("grouping")
    /\ group' = [group EXCEPT !.routes = Append(@,
          [method |-> m, pattern |-> pattern, handler |-> Bare(Len(groups) + 1)])]
    /\ UNCHANGED <<phase, router, middleware, cors, groups>>

GroupWrap(x) ==
    /\ Call("grouping")
    /\ group' = [group EXCEPT !.middleware = Append(@, x)]
    /\ UNCHANGED <<phase, router, middleware, cors, groups>>

CloseGroup ==
    /\ phase = "grouping"
    /\ group.routes # <<>>
    /\ phase' = "mounting"
    /\ group' = [group EXCEPT !.routes = [k \in DOMAIN group.routes |->
          LET r == group.routes[k]
          IN  [method |-> r.method, pattern |-> r.pattern,
               handler |-> Wrapped(r.handler, group.middleware)]]]
    /\ groups' = Append(groups, group.middleware)
    /\ UNCHANGED <<calls, router, middleware, cors>>

MountRoute ==
    /\ phase = "mounting"
    /\ group.routes # <<>>
    /\ LET r == Head(group.routes)
       IN  router' = Insert(router, r.method, group.prefix \o r.pattern, r.handler)
    /\ group' = [group EXCEPT !.routes = Tail(@)]
    /\ UNCHANGED <<calls, phase, middleware, cors, groups>>

Mounted ==
    /\ phase = "mounting"
    /\ group.routes = <<>>
    /\ phase' = "building"
    /\ group' = NoGroup
    /\ UNCHANGED <<calls, router, middleware, cors, groups>>

Next ==
    \/ \E m \in RouteMethods, p \in Patterns : AddRoute(m, p) \/ GroupRoute(m, p)
    \/ \E x \in Middlewares : Wrap(x) \/ GroupWrap(x)
    \/ \E b \in CorsBuilders : WithCors(b)
    \/ \E prefix \in GroupPrefixes : OpenGroup(prefix)
    \/ ServeStatic \/ CloseGroup \/ MountRoute \/ Mounted \/ Seal

Spec == Init /\ [][Next]_vars
-----------------------------------------------------------------------------
(* route().  A request has a method, a path, the part that is too long if  *)
(* any, and the headers CORS reads.                                        *)

ErrorResponse(status) ==
    [status |-> status, body |-> "error", length |-> "of the body", headers |-> PlainHeaders({})]

(* The answer of a handler with the given outcome.                         *)
Handled(outcome) ==
    IF outcome.ok
    THEN [status |-> outcome.status, body |-> "full", length |-> "of the body",
          headers |-> PlainHeaders(outcome.vary)]
    ELSE ErrorResponse(outcome.status)

(* No handler is registered for HEAD: the one for GET answers, and the     *)
(* body of what it returns is dropped and its content-length set to zero.  *)
(* Where GET has no handler it is 404, also where GET is 405.              *)
HeadFallback(path, outcome) ==
    IF HasPath(router, path) /\ MatchRoute(router, "GET", path) # NoNode
    THEN IF outcome.ok
         THEN [Handled(outcome) EXCEPT !.body = "empty", !.length = "zero"]
         ELSE Handled(outcome)
    ELSE ErrorResponse(404)

Dispatch(method, path, outcome) ==
    IF MatchRoute(router, method, path) # NoNode THEN Handled(outcome)
    ELSE IF method = "HEAD" THEN HeadFallback(path, outcome)
    ELSE IF HasPath(router, path) THEN ErrorResponse(405)
    ELSE ErrorResponse(404)

(* Mutant: an error answer leaves route() before the headers are applied.  *)
RespondErrorsEarly(req, outcome) ==
    LET resp == Dispatch(req.method, req.path, outcome)
        cfg == CHOOSE c \in cors : TRUE
    IN  IF req.tooLong # "nothing" THEN ErrorResponse(400)
        ELSE IF cors # {} /\ req.method = "OPTIONS" /\ req.origin # None
        THEN PreflightResponse(cfg, req.origin, req.asked)
        ELSE IF cors # {} /\ resp.body # "error"
        THEN [resp EXCEPT !.headers = ApplyToResponse(cfg, @, req.origin)]
        ELSE resp

Respond(req, outcome) ==
    LET resp == Dispatch(req.method, req.path, outcome)
        cfg == CHOOSE c \in cors : TRUE
    IN  IF req.tooLong # "nothing" THEN ErrorResponse(400)
        ELSE IF cors # {} /\ req.method = "OPTIONS" /\ req.origin # None
        THEN PreflightResponse(cfg, req.origin, req.asked)
        ELSE IF cors # {}
        THEN [resp EXCEPT !.headers = ApplyToResponse(cfg, @, req.origin)]
        ELSE resp
-----------------------------------------------------------------------------
TypeOK ==
    /\ calls \in 0..MaxCalls
    /\ phase \in {"building", "grouping", "mounting", "sealed"}
    /\ IsInjective(router.nodes)
    /\ \A n \in ToSet(router.nodes) : n # Root => Front(n) \in ToSet(router.nodes)
    /\ \A k \in DOMAIN router.handlers :
          /\ k[1] \in ToSet(router.nodes) /\ k[2] \in RouteMethods \union {"GET"}
          /\ router.handlers[k] \in [owner : 0..Len(groups), wraps : Seq(Middlewares)]
    /\ middleware \in Seq(Middlewares)
    /\ cors \subseteq UNION {Build(b, Debug) : b \in CorsBuilders}
    /\ group.prefix \in GroupPrefixes \union {<<>>}
    /\ group.middleware \in Seq(Middlewares)
    /\ groups \in Seq(Seq(Middlewares))

Sealed == phase = "sealed"

(* README.md:87 "a trie with backtracking, matching in precedence order:   *)
(* static -> param -> wildcard": the depth-first search finds the node     *)
(* that comes first in that order, segment by segment, among all the nodes *)
(* whose pattern the path has.                                             *)
FindsMostSpecific ==
    Sealed => \A raw \in Paths :
        LET path == SplitPath(raw)
            found == FindNode(router, path)
            fitting == {n \in ToSet(router.nodes) : Matches(n, path)}
        IN  /\ found = NoNode <=> fitting = {}
            /\ \A n \in fitting : n = found \/ Precedes(router, found, n)

(* The parameters a handler is given are those of the route that was found *)
(* and no others: nothing is left of what was captured on the branches the *)
(* search went into before and gave up.                                    *)
ParamsAreOfTheRoute ==
    Sealed => \A raw \in Paths :
        LET path == SplitPath(raw)
            n == FindNode(router, path)
        IN  n # NoNode => Captures(n, path, 1, PathParams(router, path))

(* A handler is wrapped by the middleware of its group and then by that of *)
(* the builder, each once, wherever among the routes wrap() was called,    *)
(* and whatever a group or a later route has replaced.                     *)
GroupMiddleware(owner) == IF owner = 0 THEN <<>> ELSE groups[owner]

MiddlewareOnceEach ==
    Sealed => \A k \in DOMAIN router.handlers :
        LET h == router.handlers[k]
        IN  h.wraps = GroupMiddleware(h.owner) \o middleware

Ok == [ok |-> TRUE, status |-> 200, vary |-> {}]

TooLong == {"nothing", "path", "query"}

Ask(method, path, origin, tooLong) ==
    [method |-> method, path |-> path, origin |-> origin, asked |-> {}, tooLong |-> tooLong]

(* 404 and 405, which route() decides from two searches, are true: 405     *)
(* means that another method is answered at this path, 404 that none is.   *)
NotFoundIsTrue ==
    Sealed => \A path \in Paths, m \in RouteMethods :
        LET answered == \E x \in RouteMethods :
                           Respond(Ask(x, path, None, "nothing"), Ok).status = 200
            status == Respond(Ask(m, path, None, "nothing"), Ok).status
        IN  (status = 405 => answered) /\ (status = 404 => ~answered)

(* A page whose origin is not listed by name never reads an answer that    *)
(* was made with the credentials of the user.                              *)
CredentialsOnlyForListed ==
    Sealed => \A path \in Paths, o \in Origins, outcome \in Outcomes :
        \A m \in {"GET", "OPTIONS"}, long \in TooLong :
            BrowserReads(Respond(Ask(m, path, o, long), outcome).headers, o, TRUE)
                => \E cfg \in cors : o \in ToSet(cfg.origins)

(* A page that is allowed reads what the handlers answer, their errors,    *)
(* the 404 and 405 of the router and the preflights; no other page reads   *)
(* any.  The 400 for a path or a query that is too long is given before    *)
(* CORS is looked at, and no page at all reads it, allowed or not.         *)
ReadableByAllowed ==
    Sealed => \A path \in Paths, o \in Origins \ {None}, outcome \in Outcomes :
        \A m \in {"GET", "HEAD", "OPTIONS"}, long \in TooLong :
            BrowserReads(Respond(Ask(m, path, o, long), outcome).headers, o, FALSE)
                <=> /\ long = "nothing"
                    /\ \E cfg \in cors : {o, Star} \intersect ToSet(cfg.origins) # {}

(* router.rs:121 "overlapping routes ... both work": where some route for  *)
(* the method has the path, a handler answers.                             *)
OverlappingRoutesWork ==
    Sealed => \A raw \in Paths : \A k \in DOMAIN router.handlers :
        Matches(k[1], SplitPath(raw)) => MatchRoute(router, k[2], raw) # NoNode

(* app.rs:226 "HEAD must return identical headers to GET": where a handler *)
(* answers GET, the answer to HEAD has its headers, content-length too.    *)
HeadHasHeadersOfGet ==
    Sealed => \A path \in Paths, o \in Origins :
        LET head == Respond(Ask("HEAD", path, o, "nothing"), Ok)
            get == Respond(Ask("GET", path, o, "nothing"), Ok)
        IN  MatchRoute(router, "GET", path) # NoNode
              => head.headers = get.headers /\ head.length = get.length
=============================================================================
