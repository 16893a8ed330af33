------------------------------ MODULE AppProof ------------------------------
(***************************************************************************)
(* What the builder and the App promise for any routes, groups, middleware *)
(* and CORS settings, and any order and number of builder calls.           *)
(***************************************************************************)
EXTENDS App, RouterProof

(* A handler in the router carries the middleware of its group, complete   *)
(* since the group was closed before its routes were inserted, and that of *)
(* the builder from seal() on.                                             *)
WrapsOf(owner) ==
    IF phase = "sealed" THEN GroupMiddleware(owner) \o middleware ELSE GroupMiddleware(owner)

RouterWrapped ==
    \A k \in DOMAIN router.handlers :
        LET h == router.handlers[k]
        IN  h.owner \in 0..Len(groups) /\ h.wraps = WrapsOf(h.owner)

(* The routes of an open group are bare; those of a closed one are wrapped *)
(* and wait to be inserted.                                                *)
GroupWrapped ==
    /\ phase = "grouping" =>
         \A k \in DOMAIN group.routes : group.routes[k].handler = Bare(Len(groups) + 1)
    /\ phase = "mounting" =>
         \A k \in DOMAIN group.routes :
            LET h == group.routes[k].handler
            IN  h.owner = Len(groups) /\ Len(groups) > 0 /\ h.wraps = groups[Len(groups)]

SeqsOK ==
    /\ phase \in {"building", "grouping", "mounting", "sealed"}
    /\ middleware \in Seq(Middlewares)
    /\ groups \in Seq(Seq(Middlewares))
    /\ group.middleware \in Seq(Middlewares)
    /\ group = [prefix |-> group.prefix, routes |-> group.routes, middleware |-> group.middleware]
    /\ \E S : group.routes \in Seq(S)

IInv == SeqsOK /\ RouterWrapped /\ GroupWrapped

(* Inserting a route leaves every other handler alone.                     *)
LEMMA InsertHandlers ==
    ASSUME NEW t, NEW m, NEW pattern, NEW h,
           NEW k \in DOMAIN Insert(t, m, pattern, h).handlers
    PROVE  \/ Insert(t, m, pattern, h).handlers[k] = h
           \/ k \in DOMAIN t.handlers /\ Insert(t, m, pattern, h).handlers[k] = t.handlers[k]
BY DEF Insert

(* One more handler, of a group there is, keeps the router well wrapped.   *)
LEMMA InsertWrapped ==
    ASSUME RouterWrapped, NEW m, NEW pattern, NEW h,
           h.owner \in 0..Len(groups), h.wraps = WrapsOf(h.owner),
           router' = Insert(router, m, pattern, h),
           UNCHANGED <<phase, middleware, groups>>
    PROVE  RouterWrapped'
<1>2. ASSUME NEW k \in DOMAIN router'.handlers
      PROVE  LET g == router'.handlers[k]
             IN  g.owner \in 0..Len(groups) /\ g.wraps = WrapsOf(g.owner)
    <2>1. CASE router'.handlers[k] = h
        BY <2>1
    <2>2. CASE k \in DOMAIN router.handlers /\ router'.handlers[k] = router.handlers[k]
        BY <2>2 DEF RouterWrapped
    <2> QED
        BY <1>2, <2>1, <2>2, InsertHandlers
<1>3. \A o : WrapsOf(o)' = WrapsOf(o)
    BY DEF WrapsOf, GroupMiddleware
<1> QED
    BY <1>2, <1>3 DEF RouterWrapped

LEMMA BareHandler == \A o : Bare(o).owner = o /\ Bare(o).wraps = <<>>
BY DEF Bare

LEMMA StaticWrapped ==
    ASSUME IInv, ServeStatic PROVE RouterWrapped'
<1> DEFINE good(t) == \A k \in DOMAIN t.handlers :
                         \/ t.handlers[k] = Bare(0)
                         \/ k \in DOMAIN router.handlers /\ t.handlers[k] = router.handlers[k]
<1>1. ASSUME NEW t, NEW p, good(t) PROVE good(Insert(t, "GET", p, Bare(0)))
    <2>1. ASSUME NEW k \in DOMAIN Insert(t, "GET", p, Bare(0)).handlers
          PROVE  \/ Insert(t, "GET", p, Bare(0)).handlers[k] = Bare(0)
                 \/ k \in DOMAIN t.handlers
                    /\ Insert(t, "GET", p, Bare(0)).handlers[k] = t.handlers[k]
        BY <2>1 DEF Insert
    <2> QED
        BY <1>1, <2>1
<1>2. good(router)
    OBVIOUS
<1>3. good(router') /\ UNCHANGED <<phase, middleware, groups>> /\ phase = "building"
    <2> HIDE DEF good
    <2> QED
        BY <1>1, <1>2 DEF ServeStatic, Call
<1>4. \A o : WrapsOf(o)' = WrapsOf(o)
    BY <1>3 DEF WrapsOf, GroupMiddleware
<1>5. WrapsOf(0) = <<>> /\ Len(groups) \in Nat
    BY <1>3 DEF WrapsOf, GroupMiddleware, IInv, SeqsOK
<1> QED
    BY <1>3, <1>4, <1>5, BareHandler DEF RouterWrapped, IInv

LEMMA InitIInv == Init => IInv
BY DEF Init, IInv, SeqsOK, RouterWrapped, GroupWrapped, NewRouter, NoGroup

LEMMA NextIInv == IInv /\ [Next]_vars => IInv'
<1> SUFFICES ASSUME IInv, [Next]_vars PROVE IInv'
    OBVIOUS
<1>0. SeqsOK /\ RouterWrapped /\ GroupWrapped
    BY DEF IInv
<1>a. Len(groups) \in Nat
    BY <1>0 DEF SeqsOK
<1>b. ASSUME phase = "building" PROVE WrapsOf(0) = <<>>
    BY <1>b DEF WrapsOf, GroupMiddleware
<1>1. ASSUME NEW m \in RouteMethods, NEW p \in Patterns, AddRoute(m, p) PROVE IInv'
    <2>1. RouterWrapped'
        <3>1. phase = "building" /\ router' = Insert(router, m, p, Bare(0))
              /\ UNCHANGED <<phase, middleware, groups>>
            BY <1>1 DEF AddRoute, Call
        <3> QED
            BY <1>0, <1>a, <1>b, <3>1, BareHandler, InsertWrapped
    <2> QED
        BY <1>0, <1>1, <2>1 DEF AddRoute, Call, IInv, SeqsOK, GroupWrapped
<1>2. ASSUME NEW m \in RouteMethods, NEW p \in Patterns, GroupRoute(m, p) PROVE IInv'
    <2> DEFINE r == [method |-> m, pattern |-> p, handler |-> Bare(Len(groups) + 1)]
    <2>1. /\ phase = "grouping"
          /\ group' = [group EXCEPT !.routes = Append(@, r)]
          /\ UNCHANGED <<phase, router, middleware, cors, groups>>
        BY <1>2 DEF GroupRoute, Call
    <2>2. PICK S : group.routes \in Seq(S)
        BY <1>0 DEF SeqsOK
    <2>3. group'.routes = Append(group.routes, r) /\ group'.middleware = group.middleware
          /\ group' = [prefix |-> group'.prefix, routes |-> group'.routes, middleware |-> group'.middleware]
        BY <1>0, <2>1 DEF SeqsOK
    <2>4. group'.routes \in Seq(S \union {r})
        BY <2>2, <2>3
    <2>5. SeqsOK'
        BY <1>0, <2>1, <2>3, <2>4 DEF SeqsOK
    <2>6. GroupWrapped'
        <3>1. \A k \in DOMAIN group.routes : group.routes[k].handler = Bare(Len(groups) + 1)
            BY <1>0, <2>1 DEF GroupWrapped
        <3>2. \A k \in DOMAIN group'.routes :
                 \/ group'.routes[k] = r
                 \/ k \in DOMAIN group.routes /\ group'.routes[k] = group.routes[k]
            <4>1. Len(group'.routes) = Len(group.routes) + 1
                BY <2>2, <2>3
            <4>2. \A k \in 1..Len(group.routes) : group'.routes[k] = group.routes[k]
                BY <2>2, <2>3
            <4>3. group'.routes[Len(group.routes) + 1] = r
                BY <2>2, <2>3
            <4>4. /\ Len(group.routes) \in Nat
                  /\ DOMAIN group.routes = 1..Len(group.routes)
                  /\ DOMAIN group'.routes = 1..Len(group'.routes)
                BY <2>2, <2>4
            <4> HIDE DEF r
            <4> QED
                BY <4>1, <4>2, <4>3, <4>4
        <3> QED
            BY <2>1, <3>1, <3>2 DEF GroupWrapped
    <2>7. RouterWrapped'
        BY <1>0, <2>1 DEF RouterWrapped, WrapsOf, GroupMiddleware
    <2> QED
        BY <2>5, <2>6, <2>7 DEF IInv
<1>3. ASSUME NEW x \in Middlewares, Wrap(x) PROVE IInv'
    <2>1. /\ phase = "building" /\ middleware' = Append(middleware, x)
          /\ UNCHANGED <<phase, router, cors, group, groups>>
        BY <1>3 DEF Wrap, Call
    <2>2. SeqsOK'
        BY <1>0, <2>1 DEF SeqsOK
    <2>3. RouterWrapped'
        BY <1>0, <2>1 DEF RouterWrapped, WrapsOf, GroupMiddleware
    <2> QED
        BY <1>0, <2>1, <2>2, <2>3 DEF IInv, GroupWrapped
<1>4. ASSUME NEW x \in Middlewares, GroupWrap(x) PROVE IInv'
    <2>1. /\ phase = "grouping"
          /\ group' = [group EXCEPT !.middleware = Append(@, x)]
          /\ UNCHANGED <<phase, router, middleware, cors, groups>>
        BY <1>4 DEF GroupWrap, Call
    <2>2. group'.routes = group.routes /\ group'.middleware = Append(group.middleware, x)
          /\ group' = [prefix |-> group'.prefix, routes |-> group'.routes, middleware |-> group'.middleware]
        BY <1>0, <2>1 DEF SeqsOK
    <2>3. SeqsOK'
        BY <1>0, <2>1, <2>2 DEF SeqsOK
    <2> QED
        BY <1>0, <2>1, <2>2, <2>3
        DEF IInv, GroupWrapped, RouterWrapped, WrapsOf, GroupMiddleware
<1>5. ASSUME NEW b \in CorsBuilders, WithCors(b) PROVE IInv'
    BY <1>0, <1>5
    DEF WithCors, Call, IInv, SeqsOK, GroupWrapped, RouterWrapped, WrapsOf, GroupMiddleware
<1>6. ASSUME NEW prefix \in GroupPrefixes, OpenGroup(prefix) PROVE IInv'
    <2>1. /\ phase = "building" /\ phase' = "grouping"
          /\ group' = [prefix |-> prefix, routes |-> <<>>, middleware |-> <<>>]
          /\ UNCHANGED <<router, middleware, cors, groups>>
        BY <1>6 DEF OpenGroup, NoGroup
    <2>2. SeqsOK'
        BY <1>0, <2>1 DEF SeqsOK
    <2>3. RouterWrapped'
        BY <1>0, <2>1 DEF RouterWrapped, WrapsOf, GroupMiddleware
    <2> QED
        BY <2>1, <2>2, <2>3 DEF IInv, GroupWrapped
<1>7. CASE ServeStatic
    <2>1. RouterWrapped'
        BY <1>7, StaticWrapped
    <2> QED
        BY <1>0, <1>7, <2>1 DEF ServeStatic, Call, IInv, SeqsOK, GroupWrapped
<1>8. CASE CloseGroup
    <2> DEFINE wrap(r) == [method |-> r.method, pattern |-> r.pattern,
                           handler |-> Wrapped(r.handler, group.middleware)]
    <2>1. /\ phase = "grouping" /\ phase' = "mounting"
          /\ group' = [group EXCEPT !.routes = [k \in DOMAIN group.routes |-> wrap(group.routes[k])]]
          /\ groups' = Append(groups, group.middleware)
          /\ UNCHANGED <<router, middleware, cors>>
        BY <1>8 DEF CloseGroup
    <2>2. PICK S : group.routes \in Seq(S)
        BY <1>0 DEF SeqsOK
    <2>3. /\ group'.routes = [k \in DOMAIN group.routes |-> wrap(group.routes[k])]
          /\ group'.middleware = group.middleware
          /\ group' = [prefix |-> group'.prefix, routes |-> group'.routes, middleware |-> group'.middleware]
        BY <1>0, <2>1 DEF SeqsOK
    <2>4. /\ Len(groups') = Len(groups) + 1
          /\ groups'[Len(groups) + 1] = group.middleware
          /\ \A o \in 1..Len(groups) : groups'[o] = groups[o]
        BY <1>0, <2>1 DEF SeqsOK
    <2>5. SeqsOK'
        <3>1. group'.routes \in Seq({wrap(r) : r \in S})
            BY <2>2, <2>3
        <3>2. groups' \in Seq(Seq(Middlewares))
            BY <1>0, <2>1 DEF SeqsOK
        <3> QED
            BY <1>0, <2>1, <2>3, <3>1, <3>2 DEF SeqsOK
    <2>6. RouterWrapped'
        <3>1. \A o \in 0..Len(groups) : WrapsOf(o)' = WrapsOf(o)
            BY <1>a, <2>1, <2>4 DEF WrapsOf, GroupMiddleware
        <3> QED
            BY <1>0, <1>a, <2>1, <2>4, <3>1 DEF RouterWrapped
    <2>7. GroupWrapped'
        <3>1. ASSUME NEW k \in DOMAIN group'.routes
              PROVE  group'.routes[k].handler
                       = [owner |-> Len(groups) + 1, wraps |-> <<>> \o group.middleware]
            <4>1. k \in DOMAIN group.routes /\ group'.routes[k] = wrap(group.routes[k])
                BY <2>3, <3>1
            <4>2. group.routes[k].handler = Bare(Len(groups) + 1)
                BY <1>0, <2>1, <4>1 DEF GroupWrapped
            <4> QED
                BY <4>1, <4>2 DEF Wrapped, Bare
        <3>2. <<>> \o group.middleware = group.middleware
            BY <1>0 DEF SeqsOK
        <3>3. \A k \in DOMAIN group'.routes :
                 /\ group'.routes[k].handler.owner = Len(groups')
                 /\ group'.routes[k].handler.wraps = groups'[Len(groups')]
            BY <2>4, <3>1, <3>2
        <3>4. Len(groups') > 0
            BY <1>a, <2>4
        <3> QED
            BY <2>1, <3>3, <3>4 DEF GroupWrapped
    <2> QED
        BY <2>5, <2>6, <2>7 DEF IInv
<1>9. CASE MountRoute
    <2> DEFINE r == Head(group.routes)
    <2>1. /\ phase = "mounting" /\ group.routes # <<>>
          /\ router' = Insert(router, r.method, group.prefix \o r.pattern, r.handler)
          /\ group' = [group EXCEPT !.routes = Tail(@)]
          /\ UNCHANGED <<phase, middleware, cors, groups>>
        BY <1>9 DEF MountRoute
    <2>2. PICK S : group.routes \in Seq(S)
        BY <1>0 DEF SeqsOK
    <2>3. /\ group'.routes = Tail(group.routes)
          /\ group'.middleware = group.middleware
          /\ group' = [prefix |-> group'.prefix, routes |-> group'.routes, middleware |-> group'.middleware]
        BY <1>0, <2>1 DEF SeqsOK
    <2>4. SeqsOK'
        <3>1. group'.routes \in Seq(S)
            BY <2>1, <2>2, <2>3
        <3> QED
            BY <1>0, <2>1, <2>3, <3>1 DEF SeqsOK
    <2>5. RouterWrapped'
        <3>1. /\ r.handler.owner = Len(groups) /\ Len(groups) > 0
              /\ r.handler.wraps = groups[Len(groups)]
            <4>1. 1 \in DOMAIN group.routes /\ r = group.routes[1]
                BY <2>1, <2>2
            <4> QED
                BY <1>0, <2>1, <4>1 DEF GroupWrapped
        <3>2. r.handler.wraps = WrapsOf(r.handler.owner)
            BY <1>a, <2>1, <3>1 DEF WrapsOf, GroupMiddleware
        <3> HIDE DEF r
        <3> QED
            BY <1>0, <1>a, <2>1, <3>1, <3>2, InsertWrapped
    <2>6. GroupWrapped'
        <3>1. \A k \in DOMAIN group'.routes :
                 k + 1 \in DOMAIN group.routes /\ group'.routes[k] = group.routes[k + 1]
            BY <2>1, <2>2, <2>3
        <3> QED
            BY <1>0, <2>1, <3>1 DEF GroupWrapped
    <2> QED
        BY <2>4, <2>5, <2>6 DEF IInv
<1>10. CASE Mounted
    <2>1. /\ phase = "mounting" /\ phase' = "building" /\ group' = NoGroup
          /\ UNCHANGED <<router, middleware, cors, groups>>
        BY <1>10 DEF Mounted
    <2>2. SeqsOK'
        BY <1>0, <2>1 DEF SeqsOK, NoGroup
    <2>3. RouterWrapped'
        BY <1>0, <2>1 DEF RouterWrapped, WrapsOf, GroupMiddleware
    <2> QED
        BY <2>1, <2>2, <2>3 DEF IInv, GroupWrapped
<1>11. CASE Seal
    <2>1. /\ phase = "building" /\ phase' = "sealed"
          /\ router' = ApplyMiddleware(router, middleware)
          /\ UNCHANGED <<middleware, cors, group, groups>>
        BY <1>11 DEF Seal
    <2>2. SeqsOK'
        BY <1>0, <2>1 DEF SeqsOK
    <2>3. ASSUME NEW k \in DOMAIN router'.handlers
          PROVE  /\ router'.handlers[k].owner \in 0..Len(groups)
                 /\ router'.handlers[k].wraps
                      = GroupMiddleware(router'.handlers[k].owner) \o middleware
        <3>1. /\ k \in DOMAIN router.handlers
              /\ router'.handlers[k] = Wrapped(router.handlers[k], middleware)
            BY <2>1, <2>3 DEF ApplyMiddleware
        <3>2. /\ router.handlers[k].owner \in 0..Len(groups)
              /\ router.handlers[k].wraps = GroupMiddleware(router.handlers[k].owner)
            BY <1>0, <2>1, <3>1 DEF RouterWrapped, WrapsOf
        <3>3. /\ router'.handlers[k].owner = router.handlers[k].owner
              /\ router'.handlers[k].wraps = router.handlers[k].wraps \o middleware
            BY <3>1 DEF Wrapped
        <3> QED
            BY <3>2, <3>3
    <2>4. RouterWrapped'
        BY <2>1, <2>3 DEF RouterWrapped, WrapsOf, GroupMiddleware
    <2> QED
        BY <2>1, <2>2, <2>4 DEF IInv, GroupWrapped
<1>12. CASE UNCHANGED vars
    BY <1>0, <1>12
    DEF vars, IInv, SeqsOK, GroupWrapped, RouterWrapped, WrapsOf, GroupMiddleware
<1> QED
    BY <1>1, <1>2, <1>3, <1>4, <1>5, <1>6, <1>7, <1>8, <1>9, <1>10, <1>11, <1>12 DEF Next

(* Every handler is wrapped by its group's middleware and then by the      *)
(* builder's, in the order of the wrap() calls, whatever the order of the  *)
(* calls that registered the routes.                                       *)
THEOREM HandlersWrappedOnceEach == Spec => []MiddlewareOnceEach
<1>1. IInv => MiddlewareOnceEach
    BY DEF IInv, RouterWrapped, WrapsOf, MiddlewareOnceEach, Sealed
<1> QED
    BY <1>1, InitIInv, NextIInv, PTL DEF Spec
-----------------------------------------------------------------------------
(* CORS.  build() lets no configuration through that answers every origin  *)
(* by name with credentials.                                               *)
CorsOK == \A c \in cors : c.credentials => ~c.all

LEMMA BuildOK ==
    ASSUME NEW b, NEW d, NEW c \in Build(b, d)
    PROVE  c.credentials => ~c.all
<1> DEFINE all == b.origins = <<Star>>
           off == b.credentials /\ ~all
           cfg == [origins |-> b.origins, all |-> all, credentials |-> off, methods |-> b.methods,
                   headers |-> b.headers, expose |-> b.expose, maxAge |-> b.maxAge]
<1>1. c = cfg
    <2> HIDE DEF cfg
    <2>1. Build(b, d) \in {{}, {cfg}}
        BY Zenon DEF Build, cfg
    <2> QED
        BY <2>1
<1>2. c.credentials = off /\ c.all = all
    <2> HIDE DEF off, all
    <2> QED
        BY <1>1
<1> QED
    BY <1>2

LEMMA NextCorsOK == CorsOK /\ [Next]_vars => CorsOK'
<1> SUFFICES ASSUME CorsOK, [Next]_vars PROVE CorsOK'
    OBVIOUS
<1>1. ASSUME NEW b \in CorsBuilders, WithCors(b) PROVE CorsOK'
    BY <1>1, BuildOK DEF WithCors, CorsOK
<1>2. ASSUME cors' = cors PROVE CorsOK'
    BY <1>2 DEF CorsOK
<1>3. ASSUME NEW m, NEW p, AddRoute(m, p) \/ GroupRoute(m, p) \/ Wrap(m) \/ GroupWrap(m)
      PROVE  cors' = cors
    BY <1>3 DEF AddRoute, GroupRoute, Wrap, GroupWrap
<1>4. ASSUME NEW p, OpenGroup(p) PROVE cors' = cors
    BY <1>4 DEF OpenGroup
<1>5. ASSUME ServeStatic \/ CloseGroup \/ MountRoute \/ Mounted \/ Seal \/ UNCHANGED vars
      PROVE  cors' = cors
    BY <1>5 DEF ServeStatic, CloseGroup, MountRoute, Mounted, Seal, vars
<1> QED
    BY <1>1, <1>2, <1>3, <1>4, <1>5 DEF Next

(* The answer of the router and of the handlers has no CORS header.        *)
LEMMA DispatchPlain ==
    ASSUME NEW m, NEW path, NEW outcome
    PROVE  \E v : Dispatch(m, path, outcome).headers = PlainHeaders(v)
<1>1. \A s : ErrorResponse(s).headers = PlainHeaders({})
    BY DEF ErrorResponse
<1>2. \E v : Handled(outcome).headers = PlainHeaders(v)
    BY <1>1 DEF Handled
<1>3. [Handled(outcome) EXCEPT !.body = "empty", !.length = "zero"].headers = Handled(outcome).headers
    <2>1. CASE outcome.ok
        BY <2>1 DEF Handled
    <2>2. CASE ~outcome.ok
        BY <2>2 DEF Handled, ErrorResponse
    <2> QED
        BY <2>1, <2>2
<1>4. \E v : HeadFallback(path, outcome).headers = PlainHeaders(v)
    BY <1>1, <1>2, <1>3 DEF HeadFallback
<1> QED
    BY <1>1, <1>2, <1>4 DEF Dispatch

LEMMA CredentialsNeedListing ==
    ASSUME NEW cfg, cfg.credentials => ~cfg.all, NEW v, NEW o,
           ApplyToResponse(cfg, PlainHeaders(v), o).origin = o,
           ApplyToResponse(cfg, PlainHeaders(v), o).credentials
    PROVE  o \in ToSet(cfg.origins)
<1>1. AllowedOrigin(cfg, o) # None
    BY DEF ApplyToResponse, PlainHeaders
<1>2. o = AllowedOrigin(cfg, o) /\ cfg.credentials
    BY <1>1 DEF ApplyToResponse, PlainHeaders
<1> QED
    BY <1>1, <1>2 DEF AllowedOrigin, Star

LEMMA PreflightKeeps ==
    ASSUME NEW cfg, NEW v, NEW o, NEW asked
    PROVE  LET h == ApplyToResponse(cfg, PlainHeaders(v), o)
           IN  /\ PreflightHeaders(cfg, h, asked).origin = h.origin
               /\ PreflightHeaders(cfg, h, asked).credentials = h.credentials
BY DEF PreflightHeaders, ApplyToResponse, PlainHeaders

(* The early 400 has none either.                                          *)
LEMMA TooLongPlain ==
    ASSUME NEW m, NEW path, NEW o, NEW long, long # "nothing", NEW outcome
    PROVE  Respond(Ask(m, path, o, long), outcome).headers = PlainHeaders({})
<1> DEFINE req == Ask(m, path, o, long)
           resp == Dispatch(req.method, req.path, outcome)
           cfg == CHOOSE c \in cors : TRUE
           answered == [resp EXCEPT !.headers = ApplyToResponse(cfg, @, req.origin)]
           preflight == PreflightResponse(cfg, req.origin, req.asked)
<1>1. Respond(req, outcome)
        = IF req.tooLong # "nothing" THEN ErrorResponse(400)
          ELSE IF cors # {} /\ req.method = "OPTIONS" /\ req.origin # None THEN preflight
          ELSE IF cors # {} THEN answered
          ELSE resp
    BY DEF Respond
<1>2. req.tooLong # "nothing"
    BY DEF Ask
<1> HIDE DEF req, resp, answered, preflight
<1>3. Respond(req, outcome) = ErrorResponse(400)
    BY <1>1, <1>2
<1>4. ErrorResponse(400).headers = PlainHeaders({})
    BY DEF ErrorResponse
<1> QED
    BY <1>3, <1>4 DEF req

LEMMA PlainIsUnread ==
    ASSUME NEW v, NEW o
    PROVE  /\ ~BrowserReads(PlainHeaders(v), o, TRUE)
           /\ o # None => ~BrowserReads(PlainHeaders(v), o, FALSE)
BY DEF BrowserReads, PlainHeaders, None, Star

LEMMA CorsOKSuffices == CorsOK => CredentialsOnlyForListed
<1> SUFFICES ASSUME CorsOK, NEW path, NEW o, NEW outcome, NEW m, NEW long,
                    BrowserReads(Respond(Ask(m, path, o, long), outcome).headers, o, TRUE)
             PROVE  \E cfg \in cors : o \in ToSet(cfg.origins)
    BY DEF CredentialsOnlyForListed
<1>0. long = "nothing"
    BY TooLongPlain, PlainIsUnread
<1> DEFINE resp == Dispatch(m, path, outcome)
           cfg == CHOOSE c \in cors : TRUE
           answer == Respond(Ask(m, path, o, long), outcome)
<1>1. answer.headers.origin = o /\ answer.headers.credentials
    BY DEF BrowserReads
<1>2. answer = IF cors # {} /\ m = "OPTIONS" /\ o # None THEN PreflightResponse(cfg, o, {})
               ELSE IF cors # {} THEN [resp EXCEPT !.headers = ApplyToResponse(cfg, @, o)]
               ELSE resp
    BY <1>0 DEF Respond, Ask
<1>3. PICK v : resp.headers = PlainHeaders(v)
    BY DispatchPlain
<1>4. cors # {}
    <2> SUFFICES ASSUME cors = {} PROVE FALSE
        OBVIOUS
    <2>1. answer.headers = PlainHeaders(v)
        BY <1>2, <1>3
    <2> QED
        BY <1>1, <2>1 DEF PlainHeaders
<1>5. cfg \in cors /\ (cfg.credentials => ~cfg.all)
    BY <1>4 DEF CorsOK
<1>6. CASE m = "OPTIONS" /\ o # None
    <2>1. answer.headers = PreflightHeaders(cfg, ApplyToResponse(cfg, PlainHeaders({}), o), {})
        <3>1. answer = PreflightResponse(cfg, o, {})
            BY <1>2, <1>4, <1>6
        <3> HIDE DEF cfg, answer
        <3> QED
            BY <3>1 DEF PreflightResponse
    <2> HIDE DEF cfg, answer
    <2> QED
        BY <1>1, <1>5, <2>1, PreflightKeeps, CredentialsNeedListing
<1>7. CASE ~(m = "OPTIONS" /\ o # None)
    <2>1. answer.headers = ApplyToResponse(cfg, PlainHeaders(v), o)
        <3>1. answer = [resp EXCEPT !.headers = ApplyToResponse(cfg, @, o)]
            BY <1>2, <1>4, <1>7
        <3>2. "headers" \in DOMAIN resp
            BY DEF Dispatch, HeadFallback, Handled, ErrorResponse
        <3> HIDE DEF cfg, answer, resp
        <3> QED
            BY <1>3, <3>1, <3>2
    <2> HIDE DEF cfg, answer
    <2> QED
        BY <1>1, <1>5, <2>1, CredentialsNeedListing
<1> QED
    BY <1>6, <1>7

(* No page reads an answer made with the user's credentials unless its     *)
(* origin is listed by name, whatever settings with_cors() was given, in   *)
(* debug and release builds.                                               *)
THEOREM CredentialsNeverForAll == Spec => []CredentialsOnlyForListed
<1>1. Init => CorsOK
    BY DEF Init, CorsOK
<1> QED
    BY <1>1, NextCorsOK, CorsOKSuffices, PTL DEF Spec
-----------------------------------------------------------------------------
(* Types.                                                                  *)

IsHandler(h) == h = [owner |-> h.owner, wraps |-> h.wraps]

(* A trie whose handlers are at its nodes, under methods of the builder.   *)
TypedRouter(t) ==
    /\ Trie(t)
    /\ \A k \in DOMAIN t.handlers :
          /\ k = <<k[1], k[2]>> /\ k[1] \in ToSet(t.nodes) /\ k[2] \in RouteMethods
          /\ IsHandler(t.handlers[k])

TypedGroup ==
    /\ group.prefix \in GroupPrefixes \union {<<>>}
    /\ \A k \in DOMAIN group.routes :
          /\ group.routes[k].method \in RouteMethods
          /\ group.routes[k].pattern \in Patterns
          /\ IsHandler(group.routes[k].handler)

TypedCors ==
    /\ cors \subseteq UNION {Build(b, Debug) : b \in CorsBuilders}
    /\ \A c, d \in cors : c = d

TInv ==
    /\ IInv
    /\ calls \in 0..MaxCalls
    /\ TypedRouter(router)
    /\ TypedGroup
    /\ TypedCors

LEMMA InsertTyped ==
    ASSUME NEW t, TypedRouter(t), NEW m \in RouteMethods, NEW pattern \in Seq(NodeSegments),
           NEW h, IsHandler(h)
    PROVE  TypedRouter(Insert(t, m, pattern, h))
<1> DEFINE u == Insert(t, m, pattern, h)
<1>1. Trie(u) /\ ToSet(t.nodes) \subseteq ToSet(u.nodes) /\ pattern \in ToSet(u.nodes)
    BY InsertKeepsTrie DEF TypedRouter
<1>2. /\ DOMAIN u.handlers = DOMAIN t.handlers \union {<<pattern, m>>}
      /\ \A k \in DOMAIN u.handlers :
            u.handlers[k] = IF k = <<pattern, m>> THEN h ELSE t.handlers[k]
    BY DEF Insert
<1> HIDE DEF u
<1>3. ASSUME NEW k \in DOMAIN u.handlers
      PROVE  /\ k = <<k[1], k[2]>> /\ k[1] \in ToSet(u.nodes) /\ k[2] \in RouteMethods
             /\ IsHandler(u.handlers[k])
    <2>1. CASE k = <<pattern, m>>
        <3>1. k[1] = pattern /\ k[2] = m
            BY <2>1
        <3> QED
            BY <1>1, <1>2, <2>1, <3>1
    <2>2. CASE k # <<pattern, m>>
        BY <1>1, <1>2, <1>3, <2>2 DEF TypedRouter
    <2> QED
        BY <2>1, <2>2
<1>4. TypedRouter(u)
    BY <1>1, <1>3 DEF TypedRouter
<1> QED
    BY <1>4 DEF u

LEMMA BareIsHandler == \A o : IsHandler(Bare(o))
BY DEF Bare, IsHandler

LEMMA PatternsOfNodes ==
    /\ Patterns \subseteq Seq(NodeSegments)
    /\ GroupPrefixes \union {<<>>} \subseteq Seq(NodeSegments)
    /\ Root \in Seq(NodeSegments)
    /\ <<Wildcard>> \in Seq(NodeSegments)
    /\ <<Static("__mini_reload")>> \in Seq(NodeSegments)
<1>1. Seq(Segments) \subseteq Seq(NodeSegments)
    BY SegmentsOfNodes, SeqMonotonic
<1>2. Root \in Seq(NodeSegments) /\ <<>> \in Seq(NodeSegments)
    BY DEF Root
<1>3. <<Wildcard>> \in Seq(NodeSegments) /\ <<Static("__mini_reload")>> \in Seq(NodeSegments)
    BY SegmentsOfNodes
<1> QED
    BY <1>1, <1>2, <1>3, PatternsAssumption

LEMMA BuildAtMostOne ==
    ASSUME NEW b, NEW d PROVE \A x, y \in Build(b, d) : x = y
<1> DEFINE cfg == [origins |-> b.origins, all |-> b.origins = <<Star>>,
                   credentials |-> b.credentials /\ ~(b.origins = <<Star>>),
                   methods |-> b.methods, headers |-> b.headers, expose |-> b.expose,
                   maxAge |-> b.maxAge]
<1>1. Build(b, d) \in {{}, {cfg}}
    BY Zenon DEF Build
<1> HIDE DEF cfg
<1> QED
    BY <1>1

LEMMA InitTInv == Init => TInv
<1> SUFFICES ASSUME Init PROVE TInv
    OBVIOUS
<1>1. router = NewRouter /\ group = NoGroup /\ cors = {} /\ calls = 0
    BY DEF Init
<1>2. TypedRouter(router)
    <2>1. DOMAIN NewRouter.handlers = {}
        BY DEF NewRouter
    <2> QED
        BY <1>1, <2>1, NewTrie DEF TypedRouter
<1>3. TypedGroup
    <2>1. group.prefix = <<>> /\ DOMAIN group.routes = {}
        BY <1>1 DEF NoGroup
    <2> QED
        BY <2>1 DEF TypedGroup
<1>4. TypedCors
    BY <1>1 DEF TypedCors
<1> QED
    BY <1>1, <1>2, <1>3, <1>4, InitIInv, CallsAssumption DEF TInv

LEMMA NextTInv == TInv /\ [Next]_vars => TInv'
<1> SUFFICES ASSUME TInv, [Next]_vars PROVE TInv'
    OBVIOUS
<1>0. /\ IInv /\ calls \in 0..MaxCalls /\ TypedRouter(router) /\ TypedGroup /\ TypedCors
      /\ SeqsOK
    BY DEF TInv, IInv
<1>a. IInv'
    BY <1>0, NextIInv
<1>b. ASSUME UNCHANGED router PROVE TypedRouter(router')
    BY <1>0, <1>b
<1>c. ASSUME UNCHANGED group PROVE TypedGroup'
    BY <1>0, <1>c DEF TypedGroup
<1>d. ASSUME UNCHANGED cors PROVE TypedCors'
    BY <1>0, <1>d DEF TypedCors
<1>e. ASSUME NEW p, Call(p) PROVE calls' \in 0..MaxCalls
    BY <1>0, <1>e, CallsAssumption DEF Call
<1>f. ASSUME UNCHANGED calls PROVE calls' \in 0..MaxCalls
    BY <1>0, <1>f
<1>1. ASSUME NEW m \in RouteMethods, NEW p \in Patterns, AddRoute(m, p) PROVE TInv'
    <2>1. /\ Call("building") /\ router' = Insert(router, m, p, Bare(0))
          /\ UNCHANGED <<cors, group>>
        BY <1>1 DEF AddRoute
    <2>2. TypedRouter(router')
        BY <1>0, <2>1, InsertTyped, BareIsHandler, PatternsOfNodes
    <2> QED
        BY <1>a, <1>c, <1>d, <1>e, <2>1, <2>2 DEF TInv
<1>2. ASSUME NEW m \in RouteMethods, NEW p \in Patterns, GroupRoute(m, p) PROVE TInv'
    <2> DEFINE r == [method |-> m, pattern |-> p, handler |-> Bare(Len(groups) + 1)]
    <2>1. /\ Call("grouping") /\ group' = [group EXCEPT !.routes = Append(@, r)]
          /\ UNCHANGED <<router, cors>>
        BY <1>2 DEF GroupRoute
    <2>2. PICK S : group.routes \in Seq(S)
        BY <1>0 DEF SeqsOK
    <2>3. group'.routes = Append(group.routes, r) /\ group'.prefix = group.prefix
        BY <1>0, <2>1 DEF SeqsOK
    <2>4. \A k \in DOMAIN group'.routes :
             \/ group'.routes[k] = r
             \/ k \in DOMAIN group.routes /\ group'.routes[k] = group.routes[k]
        <3>1. group.routes \in Seq(S \union {r}) /\ r \in S \union {r}
            BY <2>2, SeqMonotonic
        <3> HIDE DEF r
        <3>2. /\ Len(group'.routes) = Len(group.routes) + 1
              /\ \A k \in 1..Len(group.routes) : group'.routes[k] = group.routes[k]
              /\ group'.routes[Len(group.routes) + 1] = r
              /\ group'.routes \in Seq(S \union {r})
            BY <2>3, <3>1, AppendProperties
        <3>3. /\ Len(group.routes) \in Nat /\ DOMAIN group.routes = 1..Len(group.routes)
              /\ DOMAIN group'.routes = 1..Len(group'.routes)
            BY <2>2, <3>2
        <3> QED
            BY <3>2, <3>3
    <2>5. r.method = m /\ r.pattern = p /\ IsHandler(r.handler)
        BY BareIsHandler
    <2> HIDE DEF r
    <2>6. TypedGroup'
        BY <1>0, <2>3, <2>4, <2>5 DEF TypedGroup
    <2> QED
        BY <1>a, <1>b, <1>d, <1>e, <2>1, <2>6 DEF TInv
<1>3. ASSUME NEW x \in Middlewares, Wrap(x) PROVE TInv'
    <2>1. Call("building") /\ UNCHANGED <<router, cors, group>>
        BY <1>3 DEF Wrap
    <2> QED
        BY <1>a, <1>b, <1>c, <1>d, <1>e, <2>1 DEF TInv
<1>4. ASSUME NEW x \in Middlewares, GroupWrap(x) PROVE TInv'
    <2>1. /\ Call("grouping") /\ group' = [group EXCEPT !.middleware = Append(@, x)]
          /\ UNCHANGED <<router, cors>>
        BY <1>4 DEF GroupWrap
    <2>2. group'.routes = group.routes /\ group'.prefix = group.prefix
        BY <1>0, <2>1 DEF SeqsOK
    <2>3. TypedGroup'
        BY <1>0, <2>2 DEF TypedGroup
    <2> QED
        BY <1>a, <1>b, <1>d, <1>e, <2>1, <2>3 DEF TInv
<1>5. ASSUME NEW b \in CorsBuilders, WithCors(b) PROVE TInv'
    <2>1. Call("building") /\ cors' = Build(b, Debug) /\ UNCHANGED <<router, group>>
        BY <1>5 DEF WithCors
    <2>2. TypedCors'
        BY <2>1, BuildAtMostOne DEF TypedCors
    <2> QED
        BY <1>a, <1>b, <1>c, <1>e, <2>1, <2>2 DEF TInv
<1>6. ASSUME NEW prefix \in GroupPrefixes, OpenGroup(prefix) PROVE TInv'
    <2>1. /\ group' = [prefix |-> prefix, routes |-> <<>>, middleware |-> <<>>]
          /\ UNCHANGED <<calls, router, cors>>
        BY <1>6 DEF OpenGroup, NoGroup
    <2>2. TypedGroup'
        BY <2>1 DEF TypedGroup
    <2> QED
        BY <1>a, <1>b, <1>d, <1>f, <2>1, <2>2 DEF TInv
<1>7. CASE ServeStatic
    <2> DEFINE t1 == Insert(router, "GET", Root, Bare(0))
               t2 == Insert(t1, "GET", <<Wildcard>>, Bare(0))
               t3 == Insert(t2, "GET", <<Static("__mini_reload")>>, Bare(0))
    <2>1. /\ Call("building") /\ UNCHANGED <<cors, group>>
          /\ router' = IF Debug THEN t3 ELSE t2
        BY <1>7 DEF ServeStatic
    <2>2. TypedRouter(t1)
        BY <1>0, InsertTyped, BareIsHandler, PatternsOfNodes, MethodsAssumption
    <2> HIDE DEF t1
    <2>3. TypedRouter(t2)
        BY <2>2, InsertTyped, BareIsHandler, PatternsOfNodes, MethodsAssumption
    <2> HIDE DEF t2
    <2>4. TypedRouter(t3)
        BY <2>3, InsertTyped, BareIsHandler, PatternsOfNodes, MethodsAssumption
    <2> HIDE DEF t3
    <2>5. TypedRouter(router')
        BY <2>1, <2>3, <2>4
    <2> QED
        BY <1>a, <1>c, <1>d, <1>e, <2>1, <2>5 DEF TInv
<1>8. CASE CloseGroup
    <2> DEFINE wrap(r) == [method |-> r.method, pattern |-> r.pattern,
                           handler |-> Wrapped(r.handler, group.middleware)]
    <2>1. /\ group' = [group EXCEPT !.routes = [k \in DOMAIN group.routes |-> wrap(group.routes[k])]]
          /\ UNCHANGED <<calls, router, cors>>
        BY <1>8 DEF CloseGroup
    <2>2. /\ group'.routes = [k \in DOMAIN group.routes |-> wrap(group.routes[k])]
          /\ group'.prefix = group.prefix
        BY <1>0, <2>1 DEF SeqsOK
    <2>3. \A r : wrap(r).method = r.method /\ wrap(r).pattern = r.pattern /\ IsHandler(wrap(r).handler)
        BY DEF Wrapped, IsHandler
    <2> HIDE DEF wrap
    <2>4. TypedGroup'
        BY <1>0, <2>2, <2>3 DEF TypedGroup
    <2> QED
        BY <1>a, <1>b, <1>d, <1>f, <2>1, <2>4 DEF TInv
<1>9. CASE MountRoute
    <2> DEFINE r == Head(group.routes)
    <2>1. /\ group.routes # <<>>
          /\ router' = Insert(router, r.method, group.prefix \o r.pattern, r.handler)
          /\ group' = [group EXCEPT !.routes = Tail(@)]
          /\ UNCHANGED <<calls, cors>>
        BY <1>9 DEF MountRoute
    <2>2. PICK S : group.routes \in Seq(S)
        BY <1>0 DEF SeqsOK
    <2>3. group'.routes = Tail(group.routes) /\ group'.prefix = group.prefix
        BY <1>0, <2>1 DEF SeqsOK
    <2>4. 1 \in DOMAIN group.routes /\ r = group.routes[1]
        BY <2>1, <2>2
    <2>5. r.method \in RouteMethods /\ r.pattern \in Patterns /\ IsHandler(r.handler)
        BY <1>0, <2>4 DEF TypedGroup
    <2> HIDE DEF r
    <2>6. group.prefix \o r.pattern \in Seq(NodeSegments)
        <3>1. group.prefix \in Seq(NodeSegments) /\ r.pattern \in Seq(NodeSegments)
            BY <1>0, <2>5, PatternsOfNodes DEF TypedGroup
        <3> QED
            BY <3>1, ConcatProperties
    <2>7. TypedRouter(router')
        BY <1>0, <2>1, <2>5, <2>6, InsertTyped
    <2>8. TypedGroup'
        <3>1. \A k \in DOMAIN group'.routes :
                 k + 1 \in DOMAIN group.routes /\ group'.routes[k] = group.routes[k + 1]
            BY <2>1, <2>2, <2>3
        <3> QED
            BY <1>0, <2>3, <3>1 DEF TypedGroup
    <2> QED
        BY <1>a, <1>d, <1>f, <2>1, <2>7, <2>8 DEF TInv
<1>10. CASE Mounted
    <2>1. group' = NoGroup /\ UNCHANGED <<calls, router, cors>>
        BY <1>10 DEF Mounted
    <2>2. TypedGroup'
        <3>1. group'.prefix = <<>> /\ DOMAIN group'.routes = {}
            BY <2>1 DEF NoGroup
        <3> QED
            BY <3>1 DEF TypedGroup
    <2> QED
        BY <1>a, <1>b, <1>d, <1>f, <2>1, <2>2 DEF TInv
<1>11. CASE Seal
    <2>1. router' = ApplyMiddleware(router, middleware) /\ UNCHANGED <<calls, cors, group>>
        BY <1>11 DEF Seal
    <2>2. /\ router'.nodes = router.nodes /\ DOMAIN router'.handlers = DOMAIN router.handlers
          /\ \A k \in DOMAIN router.handlers : router'.handlers[k] = Wrapped(router.handlers[k], middleware)
        BY <2>1 DEF ApplyMiddleware
    <2>3. \A h : IsHandler(Wrapped(h, middleware))
        BY DEF Wrapped, IsHandler
    <2>4. TypedRouter(router')
        BY <1>0, <2>2, <2>3 DEF TypedRouter, Trie
    <2> QED
        BY <1>a, <1>c, <1>d, <1>f, <2>1, <2>4 DEF TInv
<1>12. CASE UNCHANGED vars
    BY <1>a, <1>b, <1>c, <1>d, <1>f, <1>12 DEF vars, TInv
<1> QED
    BY <1>1, <1>2, <1>3, <1>4, <1>5, <1>6, <1>7, <1>8, <1>9, <1>10, <1>11, <1>12 DEF Next

LEMMA TypesOfHandlers ==
    ASSUME TInv, NEW k \in DOMAIN router.handlers
    PROVE  router.handlers[k] \in [owner : 0..Len(groups), wraps : Seq(Middlewares)]
<1> DEFINE h == router.handlers[k]
<1>1. h = [owner |-> h.owner, wraps |-> h.wraps]
    BY DEF TInv, TypedRouter, IsHandler
<1>2. h.owner \in 0..Len(groups) /\ h.wraps = WrapsOf(h.owner)
    BY DEF TInv, IInv, RouterWrapped
<1>3. middleware \in Seq(Middlewares) /\ groups \in Seq(Seq(Middlewares)) /\ Len(groups) \in Nat
    BY DEF TInv, IInv, SeqsOK
<1>4. GroupMiddleware(h.owner) \in Seq(Middlewares)
    <2>1. h.owner = 0 \/ h.owner \in 1..Len(groups)
        BY <1>2, <1>3
    <2> QED
        BY <1>3, <2>1, ElementOfSeq, EmptySeq DEF GroupMiddleware
<1>5. WrapsOf(h.owner) \in Seq(Middlewares)
    BY <1>3, <1>4, ConcatProperties DEF WrapsOf
<1> HIDE DEF h
<1>6. h \in [owner : 0..Len(groups), wraps : Seq(Middlewares)]
    BY <1>1, <1>2, <1>5
<1> QED
    BY <1>6 DEF h

(* The builder's state keeps its types: a trie without double nodes and    *)
(* with all ancestors, handlers at its nodes only, middleware that was     *)
(* given, a CORS configuration that build() lets through.                  *)
THEOREM BuilderKeepsTypes == Spec => []TypeOK
<1>1. ASSUME TInv PROVE TypeOK
    <2>1. /\ calls \in 0..MaxCalls
          /\ phase \in {"building", "grouping", "mounting", "sealed"}
          /\ middleware \in Seq(Middlewares) /\ groups \in Seq(Seq(Middlewares))
          /\ group.middleware \in Seq(Middlewares)
          /\ group.prefix \in GroupPrefixes \union {<<>>}
          /\ cors \subseteq UNION {Build(b, Debug) : b \in CorsBuilders}
        BY <1>1 DEF TInv, IInv, SeqsOK, TypedGroup, TypedCors
    <2>2. /\ IsInjective(router.nodes)
          /\ \A n \in ToSet(router.nodes) : n # Root => Front(n) \in ToSet(router.nodes)
        BY <1>1 DEF TInv, TypedRouter, Trie
    <2>3. \A k \in DOMAIN router.handlers :
             k[1] \in ToSet(router.nodes) /\ k[2] \in RouteMethods \union {"GET"}
        BY <1>1 DEF TInv, TypedRouter
    <2> QED
        BY <1>1, <2>1, <2>2, <2>3, TypesOfHandlers DEF TypeOK
<1> QED
    BY <1>1, InitTInv, NextTInv, PTL DEF Spec
-----------------------------------------------------------------------------
(* What route() finds.                                                     *)

LEMMA PathsAreSplit == \A raw \in Paths : SplitPath(raw) \in Seq(STRING)
BY PathsAssumption, SplitPathIsSequence

(* Whatever routes were registered, in whatever order, and for any path,   *)
(* the backtracking search finds a node if some pattern has the path, and  *)
(* the first such node in precedence order.                                *)
THEOREM SearchFindsMostSpecific == Spec => []FindsMostSpecific
<1>1. ASSUME TInv PROVE FindsMostSpecific
    <2>1. Trie(router)
        BY <1>1 DEF TInv, TypedRouter
    <2> QED
        BY <2>1, PathsAreSplit, FindNodeIsFirst DEF FindsMostSpecific
<1> QED
    BY <1>1, InitTInv, NextTInv, PTL DEF Spec

(* The handler is given the parameters of its own route and no others, for *)
(* any routes and any path, whatever branches the search gave up before.   *)
THEOREM ParamsAreOfTheRouteFound == Spec => []ParamsAreOfTheRoute
<1>1. ASSUME TInv PROVE ParamsAreOfTheRoute
    <2>1. Trie(router)
        BY <1>1 DEF TInv, TypedRouter
    <2> QED
        BY <2>1, PathsAreSplit, ParamsOfSearch DEF ParamsAreOfTheRoute
<1> QED
    BY <1>1, InitTInv, NextTInv, PTL DEF Spec
-----------------------------------------------------------------------------
(* What route() answers.                                                   *)

Answer(s, b, l, v) == [status |-> s, body |-> b, length |-> l, headers |-> PlainHeaders(v)]

LEMMA HandledAnswer ==
    ASSUME NEW outcome
    PROVE  Handled(outcome) = IF outcome.ok
                              THEN Answer(outcome.status, "full", "of the body", outcome.vary)
                              ELSE Answer(outcome.status, "error", "of the body", {})
BY DEF Handled, ErrorResponse, Answer

LEMMA ErrorAnswer == \A s : ErrorResponse(s) = Answer(s, "error", "of the body", {})
BY DEF ErrorResponse, Answer

LEMMA HeadAnswer ==
    ASSUME NEW path, NEW outcome
    PROVE  HeadFallback(path, outcome)
             = IF HasPath(router, path) /\ MatchRoute(router, "GET", path) # NoNode
               THEN IF outcome.ok THEN Answer(outcome.status, "empty", "zero", outcome.vary)
                    ELSE Answer(outcome.status, "error", "of the body", {})
               ELSE Answer(404, "error", "of the body", {})
<1>1. CASE HasPath(router, path) /\ MatchRoute(router, "GET", path) # NoNode
    <2>1. CASE outcome.ok
        <3>1. HeadFallback(path, outcome)
                = [Answer(outcome.status, "full", "of the body", outcome.vary)
                     EXCEPT !.body = "empty", !.length = "zero"]
            BY <1>1, <2>1, HandledAnswer DEF HeadFallback
        <3> QED
            BY <1>1, <2>1, <3>1 DEF Answer
    <2>2. CASE ~outcome.ok
        BY <1>1, <2>2, HandledAnswer DEF HeadFallback
    <2> QED
        BY <2>1, <2>2
<1>2. CASE ~(HasPath(router, path) /\ MatchRoute(router, "GET", path) # NoNode)
    BY <1>2, ErrorAnswer DEF HeadFallback
<1> QED
    BY <1>1, <1>2

LEMMA DispatchAnswer ==
    ASSUME NEW m, NEW path, NEW outcome
    PROVE  \E s, b, l, v : Dispatch(m, path, outcome) = Answer(s, b, l, v)
<1>1. \E s, b, l, v : Handled(outcome) = Answer(s, b, l, v)
    BY HandledAnswer
<1>2. \E s, b, l, v : HeadFallback(path, outcome) = Answer(s, b, l, v)
    <2>1. \/ HeadFallback(path, outcome) = Answer(outcome.status, "empty", "zero", outcome.vary)
          \/ HeadFallback(path, outcome) = Answer(outcome.status, "error", "of the body", {})
          \/ HeadFallback(path, outcome) = Answer(404, "error", "of the body", {})
        BY HeadAnswer
    <2> QED
        BY <2>1
<1>3. \A x : \E s, b, l, v : ErrorResponse(x) = Answer(s, b, l, v)
    BY ErrorAnswer
<1>4. \/ Dispatch(m, path, outcome) = Handled(outcome)
      \/ Dispatch(m, path, outcome) = HeadFallback(path, outcome)
      \/ \E x : Dispatch(m, path, outcome) = ErrorResponse(x)
    BY DEF Dispatch
<1> QED
    BY <1>1, <1>2, <1>3, <1>4

(* CORS changes the headers of an answer and nothing else.                 *)
LEMMA RespondToRequest ==
    ASSUME NEW m, NEW path, NEW o, NEW outcome, m # "OPTIONS" \/ o = None
    PROVE  LET answer == Respond(Ask(m, path, o, "nothing"), outcome)
               resp == Dispatch(m, path, outcome)
           IN  /\ answer.status = resp.status /\ answer.body = resp.body
               /\ answer.length = resp.length
               /\ answer.headers = IF cors = {} THEN resp.headers
                                   ELSE ApplyToResponse(CHOOSE c \in cors : TRUE, resp.headers, o)
<1> DEFINE resp == Dispatch(m, path, outcome)
           cfg == CHOOSE c \in cors : TRUE
<1>1. Respond(Ask(m, path, o, "nothing"), outcome)
        = IF cors # {} THEN [resp EXCEPT !.headers = ApplyToResponse(cfg, @, o)] ELSE resp
    BY DEF Respond, Ask
<1>2. PICK s, b, l, v : resp = Answer(s, b, l, v)
    BY DispatchAnswer
<1> HIDE DEF resp, cfg
<1>3. [resp EXCEPT !.headers = ApplyToResponse(cfg, @, o)]
        = [status |-> s, body |-> b, length |-> l,
           headers |-> ApplyToResponse(cfg, PlainHeaders(v), o)]
    BY <1>2 DEF Answer
<1>4. /\ resp.status = s /\ resp.body = b /\ resp.length = l /\ resp.headers = PlainHeaders(v)
    BY <1>2 DEF Answer
<1>5. CASE cors = {}
    BY <1>1, <1>5 DEF resp
<1>6. CASE cors # {}
    BY <1>1, <1>3, <1>4, <1>6 DEF resp, cfg
<1> QED
    BY <1>5, <1>6

(* A method finds a handler only where has_path() is true, and where it is *)
(* true some method of the builder does.                                   *)
LEMMA PathsHaveMethods ==
    ASSUME TInv, NEW raw
    PROVE  /\ \A m : MatchRoute(router, m, raw) # NoNode =>
                HasPath(router, raw) /\ m \in RouteMethods
           /\ HasPath(router, raw) => \E m \in RouteMethods : MatchRoute(router, m, raw) # NoNode
<1> DEFINE n == FindNode(router, SplitPath(raw))
<1>1. Trie(router) /\ \A k \in DOMAIN router.handlers :
         k = <<k[1], k[2]>> /\ k[1] \in ToSet(router.nodes) /\ k[2] \in RouteMethods
    BY DEF TInv, TypedRouter
<1> HIDE DEF n
<1>2. \A m : MatchRoute(router, m, raw)
               = IF <<n, m>> \in DOMAIN router.handlers THEN n ELSE NoNode
    BY DEF MatchRoute, HasHandler, n
<1>3. HasPath(router, raw) <=> \E k \in DOMAIN router.handlers : k[1] = n
    BY DEF HasPath, n
<1>4. ASSUME NEW m, MatchRoute(router, m, raw) # NoNode
      PROVE  HasPath(router, raw) /\ m \in RouteMethods
    <2>1. <<n, m>> \in DOMAIN router.handlers
        BY <1>2, <1>4
    <2>2. <<n, m>>[1] = n /\ <<n, m>>[2] = m
        OBVIOUS
    <2> QED
        BY <1>1, <1>3, <2>1, <2>2
<1>5. ASSUME HasPath(router, raw)
      PROVE  \E m \in RouteMethods : MatchRoute(router, m, raw) # NoNode
    <2>1. PICK k \in DOMAIN router.handlers : k[1] = n
        BY <1>3, <1>5
    <2>2. k = <<n, k[2]>> /\ n \in ToSet(router.nodes) /\ k[2] \in RouteMethods
        BY <1>1, <2>1
    <2>3. n # NoNode
        BY <1>1, <2>2, NodesAreSequences
    <2>4. <<n, k[2]>> \in DOMAIN router.handlers
        BY <2>1, <2>2
    <2>5. MatchRoute(router, k[2], raw) # NoNode
        BY <1>2, <2>3, <2>4
    <2> QED
        BY <2>2, <2>5
<1> QED
    BY <1>4, <1>5

(* 405 only where another method is answered, 404 only where none is.      *)
THEOREM NotFoundAndNotAllowed == Spec => []NotFoundIsTrue
<1>1. ASSUME TInv PROVE NotFoundIsTrue
    <2> SUFFICES ASSUME NEW path \in Paths, NEW m \in RouteMethods
                 PROVE  LET answered == \E x \in RouteMethods :
                                           Respond(Ask(x, path, None, "nothing"), Ok).status = 200
                            status == Respond(Ask(m, path, None, "nothing"), Ok).status
                        IN  (status = 405 => answered) /\ (status = 404 => ~answered)
        BY DEF NotFoundIsTrue
    <2> DEFINE st(x) == Respond(Ask(x, path, None, "nothing"), Ok).status
    <2>1. Handled(Ok).status = 200 /\ \A s : ErrorResponse(s).status = s
        BY DEF Handled, Ok, ErrorResponse
    <2>2. ASSUME NEW x \in RouteMethods
          PROVE  st(x) = IF MatchRoute(router, x, path) # NoNode THEN 200
                         ELSE IF HasPath(router, path) THEN 405 ELSE 404
        <3>1. st(x) = Dispatch(x, path, Ok).status
            BY RespondToRequest
        <3>2. x # "HEAD"
            BY MethodsAssumption
        <3> HIDE DEF st
        <3> QED
            BY <2>1, <3>1, <3>2 DEF Dispatch
    <2> HIDE DEF st
    <2>3. st(m) = 405 => \E x \in RouteMethods : st(x) = 200
        BY <1>1, <2>2, PathsHaveMethods
    <2>4. st(m) = 404 => \A x \in RouteMethods : st(x) # 200
        BY <1>1, <2>2, PathsHaveMethods
    <2> QED
        BY <2>3, <2>4 DEF st
<1> QED
    BY <1>1, InitTInv, NextTInv, PTL DEF Spec

LEMMA ReadsWhatIsAllowed ==
    ASSUME NEW cfg, cfg.credentials => ~cfg.all, NEW v, NEW o, o # None
    PROVE  BrowserReads(ApplyToResponse(cfg, PlainHeaders(v), o), o, FALSE)
             <=> {o, Star} \intersect ToSet(cfg.origins) # {}
<1> DEFINE h == ApplyToResponse(cfg, PlainHeaders(v), o)
           allowed == AllowedOrigin(cfg, o)
<1>1. allowed = IF Star \in ToSet(cfg.origins) THEN Star
                ELSE IF o \in ToSet(cfg.origins) THEN o ELSE None
    BY DEF AllowedOrigin
<1>2. h.origin = allowed
    <2>1. CASE allowed = None
        BY <2>1 DEF ApplyToResponse, PlainHeaders
    <2>2. CASE allowed # None
        BY <2>2 DEF ApplyToResponse, PlainHeaders
    <2> QED
        BY <2>1, <2>2
<1>3. BrowserReads(h, o, FALSE) <=> h.origin = o \/ h.origin = Star
    BY DEF BrowserReads
<1> HIDE DEF h, allowed
<1>4. BrowserReads(h, o, FALSE) <=> {o, Star} \intersect ToSet(cfg.origins) # {}
    BY <1>1, <1>2, <1>3 DEF None, Star
<1> QED
    BY <1>4 DEF h

(* What handlers answer, their errors, the 404 and 405 of the router and   *)
(* the preflights are read by the pages the configuration allows and by no *)
(* other, and the 400 for a path or query that is too long by none.        *)
THEOREM AllowedPagesRead == Spec => []ReadableByAllowed
<1>1. ASSUME TInv, CorsOK PROVE ReadableByAllowed
    <2> SUFFICES ASSUME NEW path, NEW o, o # None, NEW outcome, NEW m, NEW long
                 PROVE  BrowserReads(Respond(Ask(m, path, o, long), outcome).headers, o, FALSE)
                          <=> /\ long = "nothing"
                              /\ \E cfg \in cors : {o, Star} \intersect ToSet(cfg.origins) # {}
        BY DEF ReadableByAllowed
    <2>0. CASE long # "nothing"
        BY <2>0, TooLongPlain, PlainIsUnread
    <2> DEFINE cfg == CHOOSE c \in cors : TRUE
               answer == Respond(Ask(m, path, o, "nothing"), outcome)
    <2> SUFFICES BrowserReads(answer.headers, o, FALSE)
                   <=> \E c \in cors : {o, Star} \intersect ToSet(c.origins) # {}
        BY <2>0
    <2>1. CASE cors = {}
        <3>1. answer = Dispatch(m, path, outcome)
            BY <2>1 DEF Respond, Ask
        <3>2. PICK v : answer.headers = PlainHeaders(v)
            BY <3>1, DispatchPlain
        <3> HIDE DEF answer
        <3>3. answer.headers.origin = None
            BY <3>2 DEF PlainHeaders
        <3>4. ~BrowserReads(answer.headers, o, FALSE)
            BY <3>3 DEF BrowserReads, None, Star
        <3> QED
            BY <2>1, <3>4 DEF answer
    <2>2. CASE cors # {}
        <3>1. cfg \in cors /\ (cfg.credentials => ~cfg.all) /\ \A c \in cors : c = cfg
            BY <1>1, <2>2 DEF CorsOK, TInv, TypedCors
        <3>2. \E v : answer.headers.origin = ApplyToResponse(cfg, PlainHeaders(v), o).origin
            <4>1. CASE m = "OPTIONS"
                <5>1. answer = PreflightResponse(cfg, o, {})
                    BY <2>2, <4>1 DEF Respond, Ask
                <5> HIDE DEF cfg, answer
                <5>2. answer.headers = PreflightHeaders(cfg, ApplyToResponse(cfg, PlainHeaders({}), o), {})
                    BY <5>1 DEF PreflightResponse
                <5> QED
                    BY <5>2, PreflightKeeps
            <4>2. CASE m # "OPTIONS"
                <5>1. PICK v : Dispatch(m, path, outcome).headers = PlainHeaders(v)
                    BY DispatchPlain
                <5>2. answer.headers = ApplyToResponse(cfg, PlainHeaders(v), o)
                    BY <2>2, <4>2, <5>1, RespondToRequest
                <5> HIDE DEF cfg, answer
                <5> QED
                    BY <5>2
            <4> QED
                BY <4>1, <4>2
        <3> HIDE DEF cfg, answer
        <3>3. BrowserReads(answer.headers, o, FALSE) <=> {o, Star} \intersect ToSet(cfg.origins) # {}
            <4>1. PICK v : answer.headers.origin = ApplyToResponse(cfg, PlainHeaders(v), o).origin
                BY <3>2
            <4>2. BrowserReads(answer.headers, o, FALSE)
                    <=> BrowserReads(ApplyToResponse(cfg, PlainHeaders(v), o), o, FALSE)
                BY <4>1 DEF BrowserReads
            <4> QED
                BY <3>1, <4>2, ReadsWhatIsAllowed
        <3> QED
            BY <3>1, <3>3 DEF answer
    <2> QED
        BY <2>1, <2>2
<1>2. Init => CorsOK
    BY DEF Init, CorsOK
<1> QED
    BY <1>1, <1>2, InitTInv, NextTInv, NextCorsOK, PTL DEF Spec
=============================================================================
