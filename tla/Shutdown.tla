------------------------------ MODULE Shutdown ------------------------------
(***************************************************************************)
(* The end of the process in main.go: the goroutine that waits for SIGTERM *)
(* and drains, beside main itself, which sits in ListenAndServe.  The      *)
(* listener belongs to net/http: Shutdown closes it before it waits for    *)
(* the active requests, and ListenAndServe returns ErrServerClosed as soon *)
(* as it is closed.  When main returns the process ends and takes every    *)
(* request with it.                                                        *)
(***************************************************************************)
CONSTANT Request       \* client connections, a request at a time on each

VARIABLES
    stopper,       \* the signal goroutine
    listening,     \* whether the server's listener is open
    expired,       \* the DRAIN_TIMEOUT context is done
    exited,        \* main has returned
    request        \* request[q]: what a client connection is doing

vars == <<stopper, listening, expired, exited, request>>

\* wait: for a signal; flag: about to set draining; probe: to stop the health
\* checker; close: to call Shutdown; drain: inside Shutdown; done: returned.
Stages == {"wait", "flag", "probe", "close", "drain", "done"}

\* Every variable stays in its set, and the listener is closed exactly from the
\* moment on that Shutdown was called.
TypeOK ==
    /\ stopper \in Stages
    /\ {listening, expired, exited} \subseteq BOOLEAN
    /\ request \in [Request -> {"none", "active", "cut"}]
    /\ listening <=> stopper \in {"wait", "flag", "probe", "close"}

Init ==
    /\ stopper = "wait"
    /\ listening = TRUE /\ expired = FALSE /\ exited = FALSE
    /\ request = [q \in Request |-> "none"]

Active == {q \in Request : request[q] = "active"}

-----------------------------------------------------------------------------

Signal ==
    /\ ~exited /\ stopper = "wait"
    /\ stopper' = "flag"
    /\ UNCHANGED <<listening, expired, exited, request>>

\* /readyz answers 503 from here on.
SetDraining ==
    /\ ~exited /\ stopper = "flag"
    /\ stopper' = "probe"
    /\ UNCHANGED <<listening, expired, exited, request>>

StopChecker ==
    /\ ~exited /\ stopper = "probe"
    /\ stopper' = "close"
    /\ UNCHANGED <<listening, expired, exited, request>>

\* Shutdown's first half: no new connection.
CloseListener ==
    /\ ~exited /\ stopper = "close"
    /\ stopper' = "drain" /\ listening' = FALSE
    /\ UNCHANGED <<expired, exited, request>>

\* The deadline of the drain passes.
DrainExpires ==
    /\ ~exited /\ stopper = "drain" /\ ~expired
    /\ expired' = TRUE
    /\ UNCHANGED <<stopper, listening, exited, request>>

\* Shutdown's second half returns when nothing is active, or at the deadline.
Drained ==
    /\ ~exited /\ stopper = "drain"
    /\ Active = {} \/ expired
    /\ stopper' = "done"
    /\ UNCHANGED <<listening, expired, exited, request>>

\* Mutant of MainReturns: main waits for the requests without a bound.
MainReturns_Unbounded ==
    /\ ~exited /\ ~listening /\ Active = {}
    /\ exited' = TRUE
    /\ UNCHANGED <<stopper, listening, expired, request>>

\* ListenAndServe returns ErrServerClosed, main returns, the process ends.
MainReturns ==
    /\ ~exited /\ ~listening
    /\ exited' = TRUE
    /\ request' = [q \in Request |-> IF q \in Active THEN "cut" ELSE request[q]]
    /\ UNCHANGED <<stopper, listening, expired>>

RequestArrives(q) ==
    /\ ~exited /\ listening /\ request[q] = "none"
    /\ request' = [request EXCEPT ![q] = "active"]
    /\ UNCHANGED <<stopper, listening, expired, exited>>

RequestServed(q) ==
    /\ ~exited /\ request[q] = "active"
    /\ request' = [request EXCEPT ![q] = "none"]
    /\ UNCHANGED <<stopper, listening, expired, exited>>

Stopper == SetDraining \/ StopChecker \/ CloseListener \/ Drained

Next ==
    \/ Signal \/ Stopper \/ DrainExpires \/ MainReturns
    \/ \E q \in Request : RequestArrives(q) \/ RequestServed(q)

Spec == Init /\ [][Next]_vars

\* Both goroutines run, and the deadline is a timer.  A request need not ever
\* end: a wedged connection is what the deadline is for.
Fairness == WF_vars(Stopper) /\ WF_vars(DrainExpires) /\ WF_vars(MainReturns)
FairSpec == Spec /\ Fairness

-----------------------------------------------------------------------------

\* A signalled process ends, whatever its requests do ("the only thing the
\* bound protects is a wedged connection").
SignalEnds == stopper # "wait" ~> exited

\* main.go: "so a shutdown never cuts a generation short mid-stream".  A
\* request may be cut by the end of the process only once the drain's deadline
\* has passed.
DrainHonoured == (\E q \in Request : request[q] = "cut") => expired

=============================================================================
