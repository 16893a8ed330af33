-------------------------------- MODULE Cors --------------------------------
(***************************************************************************)
(* mini-serve's CorsConfig: what the builder makes of its settings, and    *)
(* the headers of an answer and of a preflight.                            *)
(*                                                                         *)
(* Data.  An origin, a method and a header name are strings.  The origins  *)
(* are listed in order, since the builder looks at how many there are; of  *)
(* the other lists the set counts.  A header the answer does not have is   *)
(* None, or the empty set.  Values that are no legal header text, which    *)
(* apply_headers() skips, are left out.                                    *)
(***************************************************************************)
EXTENDS Sequences, SequencesExt

None == "none"
Star == "*"

(* Every header an answer may have that a browser's check or a cache reads *)
PlainHeaders(vary) ==
    [origin |-> None, credentials |-> FALSE, vary |-> vary, expose |-> {},
     methods |-> {}, headers |-> {}, maxAge |-> None]

(* Mutant: the settings are taken as they are.                             *)
BuildUnchecked(b, debug) ==
    {[origins |-> b.origins, all |-> b.origins = <<Star>>, credentials |-> b.credentials,
      methods |-> b.methods, headers |-> b.headers, expose |-> b.expose, maxAge |-> b.maxAge]}

(* CorsConfigBuilder::build: no config (it panics) in a debug build, and   *)
(* no credentials in a release build, for a lone "*" with credentials.     *)
Build(b, debug) ==
    LET all == b.origins = <<Star>>
    IN  IF debug /\ b.credentials /\ all THEN {}
        ELSE {[origins |-> b.origins, all |-> all, credentials |-> b.credentials /\ ~all,
               methods |-> b.methods, headers |-> b.headers, expose |-> b.expose,
               maxAge |-> b.maxAge]}

AllowedOrigin(cfg, origin) ==
    IF cfg.credentials /\ cfg.all THEN (IF origin = None THEN Star ELSE origin)
    ELSE IF Star \in ToSet(cfg.origins) THEN Star
    ELSE IF origin \in ToSet(cfg.origins) THEN origin
    ELSE None

(* apply_headers(): a header replaces the one the answer has, except that  *)
(* Vary is merged.                                                         *)
ApplyToResponse(cfg, headers, origin) ==
    LET allowed == AllowedOrigin(cfg, origin)
    IN  IF allowed = None THEN headers
        ELSE [headers EXCEPT
                !.origin = allowed,
                !.vary = IF allowed = Star THEN @ ELSE @ \union {"origin"},
                !.credentials = @ \/ cfg.credentials,
                !.expose = IF cfg.expose = {} THEN @ ELSE cfg.expose]

(* The allow-list "*" of headers echoes what the browser asks for.         *)
PreflightHeaders(cfg, headers, asked) ==
    [headers EXCEPT
        !.methods = cfg.methods,
        !.headers = IF Star \in cfg.headers
                    THEN (IF asked = {} THEN {Star} ELSE asked)
                    ELSE cfg.headers,
        !.maxAge = cfg.maxAge]

PreflightResponse(cfg, origin, asked) ==
    [status |-> 204, body |-> "empty", length |-> "of the body",
     headers |-> PreflightHeaders(cfg, ApplyToResponse(cfg, PlainHeaders({}), origin), asked)]
-----------------------------------------------------------------------------
(* The browser (the Fetch standard): a page of origin o may read an answer *)
(* if it is named or, without credentials, if everybody is.                *)
BrowserReads(headers, o, withCredentials) ==
    \/ headers.origin = o /\ (withCredentials => headers.credentials)
    \/ headers.origin = Star /\ ~withCredentials
=============================================================================
