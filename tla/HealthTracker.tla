---------------------------- MODULE HealthTracker ----------------------------
(***************************************************************************)
(* The health map of config/health.go and the two methods that write it on *)
(* behalf of requests and of the probe loop.  Each takes t.mu around its   *)
(* map accesses.  The alert each sends after the unlock changes nothing    *)
(* here and is left out.                                                   *)
(***************************************************************************)
CONSTANT Server    \* server ids

VARIABLES
    status,        \* status[s]: "up", "down", or "unknown" for no entry
    throttled      \* servers with a running Retry-After window in t.throttled

healthVars == <<status, throttled>>

HealthTypeOK ==
    /\ status \in [Server -> {"up", "down", "unknown"}]
    /\ throttled \subseteq Server

\* A server without an entry reads as unhealthy.
IsHealthy(s) == status[s] = "up"

\* A server that is healthy again has no pause to keep.
MarkHealthy(s) ==
    /\ status' = [status EXCEPT ![s] = "up"]
    /\ throttled' = throttled \ {s}

MarkUnhealthy(s) ==
    /\ status' = [status EXCEPT ![s] = "down"]
    /\ UNCHANGED throttled

==============================================================================
