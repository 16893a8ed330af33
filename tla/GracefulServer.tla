--------------------------- MODULE GracefulServer ---------------------------
(***************************************************************************)
(* What `bind_with_shutdown` and `run_with_shutdown` can be relied on for, *)
(* seen from outside the process: a bounded set of connections is served;  *)
(* at some moment the server begins to drain; from then on no connection   *)
(* is admitted, the ones being served leave only by ending, and the        *)
(* function returns when none is left.                                     *)
(*                                                                         *)
(* The moment is when the accept loop NOTICES the shutdown future, which   *)
(* is later than the moment the future completes (see ServeLoop).          *)
(***************************************************************************)
EXTENDS Naturals, FiniteSets

CONSTANTS Conns,          \* the connections a client may open
          MaxConnections  \* with_max_connections

VARIABLES phase,  \* "serving", "draining" or "stopped"
          open    \* the connections that are being served

avars == <<phase, open>>

AInit ==
    /\ phase = "serving"
    /\ open = {}

Admit(c) ==
    /\ phase = "serving"
    /\ c \notin open
    /\ Cardinality(open) < MaxConnections
    /\ open' = open \union {c}
    /\ UNCHANGED phase

End(c) ==
    /\ c \in open
    /\ open' = open \ {c}
    /\ UNCHANGED phase

BeginDrain ==
    /\ phase = "serving"
    /\ phase' = "draining"
    /\ UNCHANGED open

Stop ==
    /\ phase = "draining"
    /\ open = {}
    /\ phase' = "stopped"
    /\ UNCHANGED open

ANext ==
    \/ \E c \in Conns : Admit(c) \/ End(c)
    \/ BeginDrain
    \/ Stop

ASpec == AInit /\ [][ANext]_avars
=============================================================================
