------------------------------ MODULE MCRouter ------------------------------
(***************************************************************************)
(* Model-checking instances of Router: two requests that fall over from a  *)
(* primary to a fallback, with the trackers each run is about.             *)
(***************************************************************************)
EXTENDS Router, TLC

CONSTANTS s1, s2, s3

RequestSymmetry == Permutations(Request)

\* With a server the request does not fit, as the first or the only attempt.
FailoverOrMisfit == {<<s1, s2>>, <<s3, s2>>, <<s3>>}

\* A server that refuses the dialect, one that does not, and its fallback.
Mixed == {<<s3, s1, s2>>}

NoCap == [s \in Server |-> 0]
CapOne == [s \in Server |-> 1]

Reply(kind, st) == [kind |-> kind, status |-> st]

\* One reply of each way to leave the proxy call.
ControlReplies == {Reply("ok", 200), Reply("mid", 200), Reply("reset", 0),
                   Reply("buffered", 429), Reply("buffered", 503)}

ServedOrLost == {Reply("ok", 200), Reply("reset", 0)}

=============================================================================
