-------------------------------- MODULE Edge --------------------------------
(***************************************************************************)
(* The client-facing edge: main.go clientEdge and its reload, the CORS     *)
(* middleware (config/cors.go) and the inbound token bucket                *)
(* (config/inbound.go), on the requests of Shutdown's process, with the    *)
(* alerter a reload also replaces.  A request takes the chain with one     *)
(* atomic load and keeps it; a reload writes the limiter field and the     *)
(* chain one after the other.                                              *)
(*                                                                         *)
(* Tokens are counted in parts of Unit, so that a rate may be a fraction   *)
(* of a request per tick.  Alerts share nothing with requests but the      *)
(* reload, and the end of the process takes less than a tick, so each of   *)
(* the three is exercised by behaviours of its own (scene).                *)
(***************************************************************************)
EXTENDS Shutdown, Alert, Sequences, FiniteSets, FiniteSetsExt

CONSTANTS
    Visits,           \* [client, origin, preflight]: what arrives
    Settings,         \* [rate, burst, perIP, cors, webhook]: contents of the file
    Unit,             \* parts of a token
    InboundSweepAt,
    MaxReloads        \* bound

\* A rate of 0 is a limit that is off; rate and tokens are in parts of Unit.
ASSUME EdgeAssumption ==
    /\ Visits \subseteq [client : STRING, origin : STRING, preflight : BOOLEAN]
    /\ Settings \subseteq [rate : Nat, burst : Nat, perIP : BOOLEAN,
                            cors : STRING, webhook : BOOLEAN]
    /\ Unit \in Nat \ {0} /\ DedupWindow \in Nat

VARIABLES
    settings,         \* what the store holds
    limiters,         \* the limiter objects built so far
    ideal,            \* ghost: a bucket per client of each limiter, never forgotten
    field,            \* clientEdge.limiter: index of a limiter, 0 = nil
    chain,            \* clientEdge.next: [cors, limiter]
    rebuild,          \* the reload under way: [pc, s, limiter]
    at,               \* at[q]: where a request is in its chain
    reloads,
    scene             \* what this behaviour exercises: "traffic", "alerts" or "stop"

edgeVars == <<settings, limiters, ideal, field, chain, rebuild, at, reloads, scene>>

Keys == {v.client : v \in Visits} \cup {""}
NoRebuild == [pc |-> "idle", s |-> CHOOSE s \in Settings : TRUE, limiter |-> 0]
Outside == [pc |-> "outside", visit |-> CHOOSE v \in Visits : TRUE, chain |-> [cors |-> "off", limiter |-> 0]]

-----------------------------------------------------------------------------
(* InboundLimiter.                                                         *)

\* NewInboundLimiter: an unset burst is the rate rounded up to a request.
NewInboundLimiter(s) ==
    [rate |-> s.rate, perIP |-> s.perIP, keys |-> <<>>,
     burst |-> Unit * IF s.burst < 1 THEN (s.rate + Unit - 1) \div Unit ELSE s.burst]

Refilled(l, b) == Min({b.tokens + b.idle * l.rate, l.burst})

\* Mutant of sweepLocked: one idle tick is enough to be forgotten.
sweepLocked_Eager(l) == {k \in DOMAIN l.keys : l.keys[k].idle = 0}

\* The keys that stay: those not idle for two full refills.
sweepLocked(l) == {k \in DOMAIN l.keys : l.keys[k].idle * l.rate <= 2 * l.burst}

\* The limiter with a bucket for the key.
WithKey(l, key) ==
    LET stay == IF Cardinality(DOMAIN l.keys) >= InboundSweepAt THEN sweepLocked(l) ELSE DOMAIN l.keys
    IN  IF key \in DOMAIN l.keys THEN l
        ELSE [l EXCEPT !.keys = [k \in stay \cup {key} |->
                                    IF k = key THEN [tokens |-> l.burst, idle |-> 0] ELSE l.keys[k]]]

\* Allow: refill by the time passed, then spend a token or deny.
Allow(l, key) ==
    LET w == WithKey(l, key)
        tokens == Refilled(w, w.keys[key])
        ok == tokens >= Unit
    IN  [ok |-> ok, l |-> [w EXCEPT !.keys[key] = [tokens |-> IF ok THEN tokens - Unit ELSE tokens, idle |-> 0]]]

-----------------------------------------------------------------------------
(* A request.                                                              *)

\* ServeHTTP: the chain of this moment.
Enter(q, v) ==
    /\ scene # "alerts" /\ RequestArrives(q)
    /\ at' = [at EXCEPT ![q] = [pc |-> "chain", visit |-> v, chain |-> chain]]
    /\ UNCHANGED <<settings, limiters, ideal, field, chain, rebuild, reloads, scene, alertVars>>

allowOrigin(cors, origin) == origin # "" /\ (cors = "any" \/ cors = origin)

\* CORS answers a preflight of an allowed origin itself; anything else is for the
\* limiter, if there is one.
Middleware(q) ==
    LET a == at[q]
        i == a.chain.limiter
        key == IF i > 0 /\ limiters[i].perIP THEN a.visit.client ELSE ""
        got == Allow(limiters[i], key)
        answered == a.visit.preflight /\ allowOrigin(a.chain.cors, a.visit.origin)
    IN  /\ ~exited /\ request[q] = "active" /\ a.pc = "chain"
        /\ IF answered \/ i = 0
           THEN /\ at' = [at EXCEPT ![q].pc = IF answered THEN "answered" ELSE "inner"]
                /\ UNCHANGED <<limiters, ideal>>
           ELSE /\ at' = [at EXCEPT ![q].pc = IF got.ok THEN "inner" ELSE "denied"]
                /\ limiters' = [limiters EXCEPT ![i] = got.l]
                /\ ideal' = [ideal EXCEPT ![i][key] = IF got.ok THEN @ - Unit ELSE @]
        /\ UNCHANGED <<settings, field, chain, rebuild, reloads, scene, vars, alertVars>>

Leave(q) ==
    /\ at[q].pc \in {"inner", "answered", "denied"} /\ RequestServed(q)
    /\ at' = [at EXCEPT ![q] = Outside]
    /\ UNCHANGED <<settings, limiters, ideal, field, chain, rebuild, reloads, scene, alertVars>>

-----------------------------------------------------------------------------
(* A reload: one operator at a time.                                       *)

\* The store loads the file; the callback reads the settings (an unchanged
\* file is not worth a behaviour).
Reload(s) ==
    /\ ~exited /\ rebuild.pc = "idle" /\ reloads < MaxReloads /\ reloads' = reloads + 1
    /\ s # settings /\ settings' = s
    /\ rebuild' = [pc |-> "field", s |-> s, limiter |-> 0]
    /\ UNCHANGED <<limiters, ideal, field, chain, at, scene, vars, alertVars>>

\* Rebuild: the new limiter is published to Denied first ...
RebuildField ==
    LET l == NewInboundLimiter(rebuild.s)
        built == rebuild.s.rate > 0
        i == IF built THEN Len(limiters) + 1 ELSE 0
    IN  /\ ~exited /\ rebuild.pc = "field"
        /\ limiters' = IF built THEN Append(limiters, l) ELSE limiters
        /\ ideal' = IF built THEN Append(ideal, [k \in Keys |-> l.burst]) ELSE ideal
        /\ field' = i
        /\ rebuild' = [rebuild EXCEPT !.pc = "chain", !.limiter = i]
        /\ UNCHANGED <<settings, chain, at, reloads, scene, vars, alertVars>>

\* Mutant of RebuildChain: the chain mounted at startup stays.
RebuildChain_Frozen ==
    /\ ~exited /\ rebuild.pc = "chain"
    /\ rebuild' = [rebuild EXCEPT !.pc = "runtime"]
    /\ UNCHANGED <<settings, limiters, ideal, field, chain, at, reloads, scene, vars, alertVars>>

\* ... then the chain is swapped ...
RebuildChain ==
    /\ ~exited /\ rebuild.pc = "chain"
    /\ chain' = [cors |-> rebuild.s.cors, limiter |-> rebuild.limiter]
    /\ rebuild' = [rebuild EXCEPT !.pc = "runtime"]
    /\ UNCHANGED <<settings, limiters, ideal, field, at, reloads, scene, vars, alertVars>>

\* ... and applyRuntimeSettings installs the alerter.
ApplyRuntimeSettings ==
    /\ ~exited /\ rebuild.pc = "runtime"
    /\ SetAlerter(rebuild.s.webhook)
    /\ rebuild' = NoRebuild
    /\ UNCHANGED <<settings, limiters, ideal, field, chain, at, reloads, scene, vars>>

-----------------------------------------------------------------------------

\* Past two refills a longer idle time changes nothing.
IdleCap(l) == (2 * l.burst) \div l.rate + 1

EdgeTick ==
    /\ scene # "stop"
    /\ limiters' = [i \in DOMAIN limiters |->
            LET l == limiters[i]
            IN  [l EXCEPT !.keys = [k \in DOMAIN l.keys |-> [l.keys[k] EXCEPT !.idle = Min({@ + 1, IdleCap(l)})]]]]
    /\ ideal' = [i \in DOMAIN ideal |-> [k \in Keys |-> Min({ideal[i][k] + limiters[i].rate, limiters[i].burst})]]
    /\ AlertTick
    /\ UNCHANGED <<settings, field, chain, rebuild, at, reloads, scene, vars>>

EdgeInit ==
    /\ Init /\ AlertInit
    /\ settings \in Settings /\ alerting = settings.webhook
    /\ limiters = IF settings.rate > 0 THEN <<NewInboundLimiter(settings)>> ELSE <<>>
    /\ ideal = [i \in DOMAIN limiters |-> [k \in Keys |-> limiters[i].burst]]
    /\ field = Len(limiters)
    /\ chain = [cors |-> settings.cors, limiter |-> Len(limiters)]
    /\ rebuild = NoRebuild /\ reloads = 0
    /\ scene \in {"traffic", "alerts", "stop"}
    /\ at = [q \in Request |-> Outside]

Process == Signal \/ Stopper \/ DrainExpires \/ MainReturns

EdgeNext ==
    \/ scene = "stop" /\ Process /\ UNCHANGED <<edgeVars, alertVars>>
    \/ \E q \in Request : Middleware(q) \/ Leave(q) \/ \E v \in Visits : Enter(q, v)
    \/ \E s \in Settings : Reload(s)
    \/ RebuildField \/ RebuildChain \/ ApplyRuntimeSettings \/ EdgeTick
    \/ scene = "alerts" /\ ~exited /\ EdgeEvent /\ UNCHANGED <<vars, edgeVars>>
    \/ ~exited /\ (\E x \in pending : Notify(x)) /\ UNCHANGED <<vars, edgeVars>>

EdgeSpec ==
    /\ EdgeInit /\ [][EdgeNext]_<<vars, edgeVars, alertVars>>
    /\ Fairness

-----------------------------------------------------------------------------

\* The type invariants of the parts; the limiter field and the chain name limiters
\* that exist, and differ only while a reload is between the two writes.
EdgeTypeOK ==
    /\ TypeOK /\ AlertTypeOK
    /\ {field, chain.limiter} \subseteq 0 .. Len(limiters)
    /\ rebuild.pc # "chain" => field = chain.limiter
    /\ \A q \in Request : at[q].pc # "outside" => request[q] \in {"active", "cut"}

\* "They are back at the burst cap, so forgetting them costs nothing": a client's
\* bucket, kept, refilled late or forgotten by a sweep, always holds what a bucket
\* that is never forgotten would hold, so no client is admitted early or denied
\* late because of the traffic of others.
SweepCostsNothing ==
    \A i \in DOMAIN limiters : \A k \in Keys :
        LET l == limiters[i]
        IN  ideal[i][k] = IF k \in DOMAIN l.keys THEN Refilled(l, l.keys[k]) ELSE l.burst

\* clientEdge: "the chain itself is what has to be swappable".  Once a reload is
\* through, new requests meet the limits and the origins the store holds, and
\* the alerts go where it says, however many requests were under way.
EdgeFollowsSettings ==
    rebuild.pc = "idle" =>
        /\ chain.cors = settings.cors /\ alerting = settings.webhook
        /\ (chain.limiter = 0) = (settings.rate = 0)
        /\ chain.limiter > 0 => limiters[chain.limiter].rate = settings.rate /\ limiters[chain.limiter].perIP = settings.perIP

=============================================================================
