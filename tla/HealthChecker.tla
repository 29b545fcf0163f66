---------------------------- MODULE HealthChecker ----------------------------
(***************************************************************************)
(* The background checker of config/health.go beside the requests that     *)
(* report to it and the administrator who adds and deletes servers.        *)
(*                                                                         *)
(* Time is left out: the interval between two rounds and a Retry-After     *)
(* window are timers that end at some point, each by an action of its own. *)
(***************************************************************************)
EXTENDS HealthTracker

VARIABLES
    config,        \* servers the configuration defines
    loop,          \* the checker goroutine
    flight,        \* servers with a request in flight
    backend,       \* backend[s]: what s answers a probe (the backend's state)
    asked          \* servers whose last 429 to a probe asked for a pause that
                   \* has not ended (the backend's state)

checkerVars == <<healthVars, config, loop, flight, backend, asked>>

Answers == {"ok", "throttle", "refused", "dead"}

\* pc: wait for the interval; forget removed servers; walk the snapshot;
\* probe srv; mark srv, which answered, healthy.
Loop == [pc : {"wait", "forget", "walk", "probe", "mark"},
         todo : SUBSET Server, srv : Server \cup {"none"}]

\* The maps and the loop's locals are well-typed: a probe has a server, and a
\* round is over only when every server of its snapshot was looked at.
CheckerTypeOK ==
    /\ HealthTypeOK
    /\ config \subseteq Server
    /\ loop \in Loop
    /\ loop.pc = "wait" => loop.todo = {}
    /\ loop.pc \in {"probe", "mark"} => loop.srv \in Server
    /\ flight \subseteq Server
    /\ backend \in [Server -> Answers]
    /\ asked \subseteq Server

\* Start() marks every server the configuration names as healthy.
Init ==
    /\ config \in SUBSET Server
    /\ status = [s \in Server |-> IF s \in config THEN "up" ELSE "unknown"]
    /\ throttled = {}
    /\ loop = [pc |-> "wait", todo |-> {}, srv |-> "none"]
    /\ flight = {}
    /\ backend = [s \in Server |-> "ok"]
    /\ asked = {}

-----------------------------------------------------------------------------

\* checkAll takes its snapshot of the configuration once per round.
StartRound ==
    /\ loop.pc = "wait"
    /\ loop' = [loop EXCEPT !.pc = "forget", !.todo = config]
    /\ UNCHANGED <<healthVars, config, flight, backend, asked>>

\* Mutant of forgetRemoved: only the servers that are down are swept.
forgetRemoved_DownOnly ==
    LET gone == {s \in Server : status[s] = "down" /\ s \notin loop.todo} IN
    /\ loop.pc = "forget"
    /\ status' = [s \in Server |-> IF s \in gone THEN "unknown" ELSE status[s]]
    /\ throttled' = throttled \ gone
    /\ loop' = [loop EXCEPT !.pc = "walk"]
    /\ UNCHANGED <<config, flight, backend, asked>>

forgetRemoved ==
    LET gone == {s \in Server : status[s] # "unknown" /\ s \notin loop.todo} IN
    /\ loop.pc = "forget"
    /\ status' = [s \in Server |-> IF s \in gone THEN "unknown" ELSE status[s]]
    /\ throttled' = throttled \ gone
    /\ loop' = [loop EXCEPT !.pc = "walk"]
    /\ UNCHANGED <<config, flight, backend, asked>>

\* Healthy servers are not probed, nor are throttled ones.
Skip(s) ==
    /\ loop.pc = "walk" /\ s \in loop.todo
    /\ IsHealthy(s) \/ s \in throttled
    /\ loop' = [loop EXCEPT !.todo = @ \ {s}]
    /\ UNCHANGED <<healthVars, config, flight, backend, asked>>

SendProbe(s) ==
    /\ loop.pc = "walk" /\ s \in loop.todo
    /\ ~IsHealthy(s) /\ s \notin throttled
    /\ loop' = [pc |-> "probe", todo |-> loop.todo \ {s}, srv |-> s]
    /\ UNCHANGED <<healthVars, config, flight, backend, asked>>

\* Mutant of ProbeAnswered: a 401 or 403 counts as an outage.
ProbeAnswered_RefusalIsDown(hint) ==
    LET s == loop.srv IN
    /\ loop.pc = "probe"
    /\ hint => backend[s] = "throttle"
    /\ throttled' = IF hint THEN throttled \cup {s} ELSE throttled
    /\ asked' = IF hint THEN asked \cup {s} ELSE asked
    /\ loop' = [loop EXCEPT !.pc = IF backend[s] \in {"dead", "refused"} THEN "walk" ELSE "mark"]
    /\ UNCHANGED <<status, config, flight, backend>>

\* checkServer's answer: 200, 429, 401 and 403 mean the server is up.  A 429
\* may come with a Retry-After.
ProbeAnswered(hint) ==
    LET s == loop.srv IN
    /\ loop.pc = "probe"
    /\ hint => backend[s] = "throttle"
    /\ throttled' = IF hint THEN throttled \cup {s} ELSE throttled
    /\ asked' = IF hint THEN asked \cup {s} ELSE asked
    /\ loop' = [loop EXCEPT !.pc = IF backend[s] = "dead" THEN "walk" ELSE "mark"]
    /\ UNCHANGED <<status, config, flight, backend>>

MarkProbed ==
    /\ loop.pc = "mark"
    /\ MarkHealthy(loop.srv)
    /\ loop' = [loop EXCEPT !.pc = "walk"]
    /\ UNCHANGED <<config, flight, backend, asked>>

EndRound ==
    /\ loop.pc = "walk" /\ loop.todo = {}
    /\ loop' = [pc |-> "wait", todo |-> {}, srv |-> "none"]
    /\ UNCHANGED <<healthVars, config, flight, backend, asked>>

Round ==
    \/ StartRound \/ forgetRemoved \/ MarkProbed \/ EndRound
    \/ \E s \in Server : Skip(s) \/ SendProbe(s)
    \/ \E hint \in BOOLEAN : ProbeAnswered(hint)

\* A Retry-After window ends, for the tracker and for the backend at once.
WindowEnds(s) ==
    /\ s \in asked
    /\ asked' = asked \ {s}
    /\ throttled' = throttled \ {s}
    /\ UNCHANGED <<status, config, loop, flight, backend>>

\* A request starts on a configured server, and reports when it ends, which
\* may be after the server was deleted.
RequestStarts(s) ==
    /\ s \in config
    /\ flight' = flight \cup {s}
    /\ UNCHANGED <<healthVars, config, loop, backend, asked>>

RequestEnds(s) ==
    /\ s \in flight
    /\ \/ MarkHealthy(s) \/ MarkUnhealthy(s)
       \/ UNCHANGED healthVars
    /\ \/ flight' = flight \ {s} \/ flight' = flight
    /\ UNCHANGED <<config, loop, backend, asked>>

AddServer(s) ==
    /\ s \notin config
    /\ config' = config \cup {s}
    /\ UNCHANGED <<healthVars, loop, flight, backend, asked>>

DeleteServer(s) ==
    /\ s \in config
    /\ config' = config \ {s}
    /\ UNCHANGED <<healthVars, loop, flight, backend, asked>>

BackendChanges(s, answer) ==
    /\ backend' = [backend EXCEPT ![s] = answer]
    /\ UNCHANGED <<healthVars, config, loop, flight, asked>>

Next ==
    \/ Round
    \/ \E s \in Server :
          \/ WindowEnds(s) \/ RequestStarts(s) \/ RequestEnds(s)
          \/ AddServer(s) \/ DeleteServer(s)
          \/ \E a \in Answers : BackendChanges(s, a)

Spec == Init /\ [][Next]_checkerVars

\* The checker goroutine runs a round per interval, and a request that was
\* sent reports some day.
Fairness ==
    /\ WF_checkerVars(Round)
    /\ \A s \in Server : WF_checkerVars(RequestEnds(s) /\ flight' = flight \ {s})

FairSpec == Spec /\ Fairness

-----------------------------------------------------------------------------

\* checkAll: a server that is down is watched for recovery.  A configured
\* server whose backend answers the probe, with a refusal included, is seen
\* as healthy again and again, whatever requests report in between and
\* however the configuration changes during a round.
RecoveryNoticed ==
    \A s \in Server : []<>(s \notin config \/ backend[s] = "dead" \/ IsHealthy(s))

\* forgetRemoved: "the sweep runs on every tick, so a delete can not leave a
\* ghost behind".  A server deleted for good is forgotten for good, although
\* requests and a probe that started before the delete still report on it.
GhostSwept ==
    \A s \in Server : <>[](s \notin config) => <>[](status[s] = "unknown")

\* health_test.go: "A backend that says "come back in two minutes" to the
\* probe is obeyed: the next probe happens after the window".
ThrottleObeyed ==
    [][\A s \in Server : loop.pc = "walk" /\ loop' = [pc |-> "probe", todo |-> loop.todo \ {s}, srv |-> s]
            => s \notin asked]_checkerVars

\* checkAll: "A server the tracker has never probed starts healthy [...] which
\* is what gives a server added later through the admin API the same start".
NewServerStartsHealthy ==
    \A s \in config : status[s] = "unknown" => IsHealthy(s)

==============================================================================
