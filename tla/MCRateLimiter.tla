--------------------------- MODULE MCRateLimiter ---------------------------
(***************************************************************************)
(* Model-checking instance of RateLimiter.  Servers do not interact inside *)
(* the limiter, so one server is enough; the times are small, with a hint  *)
(* below, inside and above the clamp's bounds.                             *)
(***************************************************************************)
EXTENDS RateLimiter

\* The statuses that fall into different kinds: a transport error, a stream
\* cut after a 200, a bad request, a refusal and a backend failure.
MCStatuses == {0, 200, 400, 429, 503}

=============================================================================
