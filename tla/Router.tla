------------------------------- MODULE Router -------------------------------
(***************************************************************************)
(* The attempt walk of router.go's Handle: each request walks its chain of *)
(* attempts past the gates (health, cooldown, context window, parallel     *)
(* cap, quota, dialect, reservation), sends the ones that pass, retries,   *)
(* falls over to the next, and ends with one answer for the client.        *)
(*                                                                         *)
(* Requests are processes.  A step of one makes at most one access to what *)
(* they share (a tracker's method, the in-flight count), so every          *)
(* interleaving of those accesses is a behaviour of this module.  The      *)
(* backend's part is the reply StreamProxy returns, any of Replies.        *)
(***************************************************************************)
EXTENDS Integers, Sequences, FiniteSets

CONSTANTS
    Request,           \* requests the router serves
    Server,            \* configured backends
    Chains,            \* attempt lists a rule may produce, as sequences of servers
    Replies,           \* what StreamProxy may return: [kind, status] records
    Cap,               \* max_parallel_requests of each server; 0 = unlimited
    Overflow,          \* servers whose declared context window is too small
    Refusing,          \* servers that do not speak the client's dialect
    BadBody,           \* servers whose model rewrite fails on the request's body
    Converting,        \* servers the request is converted for
    Unconvertible,     \* of those, the ones whose dialect the body does not fit
    NumRetries,        \* the retry budget of the rule or of X-Router-Retries
    Explicit,          \* whether the budget was asked for, or is the default
    UseHealth, UseRateLimit, UseQuota,  \* whether each tracker is installed
    FailWindow, Thresholds, Durations, Overrides, HintMin, HintMax, Hints,
    QuotaWindow, TPMs, RPMs, Estimates, Usages,  \* of the trackers' modules
    MaxTime            \* bound on the clock

Kinds == {"ok", "mid", "reset", "refused", "buffered"}

ASSUME RouterAssumption ==
    /\ IsFiniteSet(Request)
    /\ Chains \subseteq Seq(Server) /\ \A c \in Chains : Len(c) > 0
    /\ Replies \subseteq [kind : Kinds, status : Nat]
    /\ Cap \in [Server -> Nat]
    /\ Unconvertible \subseteq Converting
    /\ NumRetries \in Nat
    /\ {Explicit, UseHealth, UseRateLimit, UseQuota} \subseteq BOOLEAN
    /\ Estimates \subseteq Nat /\ Usages \subseteq Nat

VARIABLES
    now,
    failures, cooldown, reason, maxFails, maxFails4xx, cooldownDur, override,
    status, throttled,
    tokens, requests, reserved, tpm, rpm,
    inflight,          \* inflight[s]: the in-flight count of s
    req,               \* req[r]: the local state of the handler of r
    gone               \* requests whose client has disconnected

Limiter == INSTANCE RateLimiter WITH Window <- FailWindow,
                Statuses <- {reply.status : reply \in Replies} \cup {0}, MaxEntries <- 0
Health == INSTANCE HealthTracker
Quota == INSTANCE QuotaTracker

limiterVars == <<failures, cooldown, reason, maxFails, maxFails4xx, cooldownDur, override>>
healthVars == <<status, throttled>>
quotaVars == <<tokens, requests, reserved, tpm, rpm>>
trackers == <<limiterVars, healthVars, quotaVars>>
vars == <<now, trackers, inflight, req, gone>>

-----------------------------------------------------------------------------

\* The control points of Handle, in the order of the source.
Gates == {"health", "cooldown", "cap", "quota", "usage", "plan", "reserve", "slot"}
\* The attempt holds its in-flight slot.
Sending == {"proxy", "backoff", "okHealth", "okLimit", "okCount",
            "midHealth", "midLimit", "failHealth", "failLimit", "release"}
PCs == Gates \cup Sending \cup {"idle", "complete", "conclude", "done"}

Outcomes == {"none", "served", "midstream", "gone", "rewrite",
             "refused", "answer", "badgateway"}

NoReply == [kind |-> "ok", status |-> 0]

\* chain, i: the attempt list and the attempt (1-based) being made; retry: the
\* retry counter; est, held: declared budget and reservedTokens; reply: what
\* StreamProxy returned last; tried: attempts that were sent; broke: attempts
\* that ended in a transport or mid-stream error; err: lastErr is set; answer:
\* the attempt lastAnswer came from (0 = none); meta: the attempt whose plan
\* reqMeta describes; refusal: the last attempt refused; then: where to go
\* after the teardown; out: how the request ended.
Handler == [pc : PCs, chain : Chains \cup {<<>>}, i : Nat, retry : Nat,
            est : Estimates \cup {0}, held : Nat, reply : Replies \cup {NoReply},
            tried : SUBSET Nat, broke : SUBSET Nat, err : BOOLEAN, answer : Nat,
            meta : Nat, refusal : BOOLEAN, then : {"next", "done"}, out : Outcomes]

Fresh == [pc |-> "idle", chain |-> <<>>, i |-> 0, retry |-> 0, est |-> 0, held |-> 0,
          reply |-> NoReply, tried |-> {}, broke |-> {}, err |-> FALSE, answer |-> 0,
          meta |-> 0, refusal |-> FALSE, then |-> "next", out |-> "none"]

Srv(r) == req[r].chain[req[r].i]
Last(r) == req[r].i = Len(req[r].chain)
Holders(s) == {r \in Request : req[r].pc \in Sending /\ Srv(r) = s}

Init ==
    /\ now = 0
    /\ Limiter!Init
    /\ status = [s \in Server |-> "up"] /\ throttled = {}
    /\ Quota!QuotaInit
    /\ inflight = [s \in Server |-> 0]
    /\ req = [r \in Request |-> Fresh]
    /\ gone = {}

-----------------------------------------------------------------------------

Goto(r, pc) == req' = [req EXCEPT ![r].pc = pc]

\* `continue' of the attempt loop: the next attempt, or the end of the chain.
Following(q) == IF q.i < Len(q.chain) THEN [q EXCEPT !.i = @ + 1, !.pc = "health"]
                ELSE [q EXCEPT !.pc = "conclude"]
SkipAttempt(r) == req' = [req EXCEPT ![r] = Following(@)]

\* The request arrives; a rule matches and yields its attempt list.
Arrive(r, chain, est) ==
    /\ req[r].pc = "idle"
    /\ req' = [req EXCEPT ![r] = [Fresh EXCEPT !.pc = "health", !.chain = chain,
                                  !.i = 1, !.est = est]]
    /\ UNCHANGED <<now, trackers, inflight, gone>>

GateHealth(r) ==
    /\ req[r].pc = "health"
    /\ IF UseHealth /\ ~Health!IsHealthy(Srv(r)) /\ ~Last(r)
       THEN SkipAttempt(r) ELSE Goto(r, "cooldown")
    /\ UNCHANGED <<now, trackers, inflight, gone>>

\* The cooldown gate, and the context-window gate that needs no shared state.
GateCooldown(r) ==
    /\ req[r].pc = "cooldown"
    /\ IF ~Last(r) /\ ((UseRateLimit /\ Limiter!ShouldSkip(Srv(r))) \/ Srv(r) \in Overflow)
       THEN SkipAttempt(r) ELSE Goto(r, "cap")
    /\ UNCHANGED <<now, trackers, inflight, gone>>

\* Mutant of GateCap: the last attempt is skipped like any other.
GateCap_LastToo(r) ==
    /\ req[r].pc = "cap"
    /\ IF Cap[Srv(r)] > 0 /\ inflight[Srv(r)] >= Cap[Srv(r)]
       THEN SkipAttempt(r) ELSE Goto(r, "quota")
    /\ UNCHANGED <<now, trackers, inflight, gone>>

GateCap(r) ==
    /\ req[r].pc = "cap"
    /\ IF ~Last(r) /\ Cap[Srv(r)] > 0 /\ inflight[Srv(r)] >= Cap[Srv(r)]
       THEN SkipAttempt(r) ELSE Goto(r, "quota")
    /\ UNCHANGED <<now, trackers, inflight, gone>>

\* Allow is asked on the last attempt too, and its answer ignored there.
GateQuota(r) ==
    /\ req[r].pc = "quota"
    /\ IF UseQuota THEN Quota!Allow(Srv(r)) ELSE UNCHANGED quotaVars
    /\ Goto(r, IF UseQuota /\ ~Quota!Allowed(Srv(r)) /\ ~Last(r) THEN "usage" ELSE "plan")
    /\ UNCHANGED <<now, limiterVars, healthVars, inflight, gone>>

\* The skipped attempt's log line reads Usage.
LogUsage(r) ==
    /\ req[r].pc = "usage"
    /\ Quota!Usage(Srv(r))
    /\ SkipAttempt(r)
    /\ UNCHANGED <<now, limiterVars, healthVars, inflight, gone>>

\* The dialect decision, the model rewrite and the body's conversion, in this
\* order.  A refusal is no failure: nothing was sent and nothing is recorded.
Plan(r) ==
    LET s == Srv(r)
        refuses == s \in Refusing \/ s \in Unconvertible \ BadBody
        planned == IF s \in Refusing THEN req[r] ELSE [req[r] EXCEPT !.meta = req[r].i]
    IN  /\ req[r].pc = "plan"
        /\ req' = [req EXCEPT ![r] =
             CASE refuses /\ ~Last(r) -> Following(planned)
               [] refuses /\ Last(r) -> [planned EXCEPT !.pc = "conclude", !.refusal = TRUE]
               [] ~refuses /\ s \in BadBody -> [planned EXCEPT !.pc = "done", !.out = "rewrite"]
               [] OTHER -> [planned EXCEPT !.pc = "reserve"]]
        /\ UNCHANGED <<now, trackers, inflight, gone>>

\* The TPM reservation.  The last attempt is sent without one.
ReserveBudget(r) ==
    LET asks == UseQuota /\ req[r].est > 0
        admitted == Quota!Admits(Srv(r), req[r].est)
    IN  /\ req[r].pc = "reserve"
        /\ IF asks THEN Quota!Reserve(Srv(r), req[r].est) ELSE UNCHANGED quotaVars
        /\ IF asks /\ ~admitted /\ ~Last(r) THEN SkipAttempt(r)
           ELSE req' = [req EXCEPT ![r].pc = "slot",
                                   ![r].held = IF asks /\ admitted THEN req[r].est ELSE 0]
        /\ UNCHANGED <<now, limiterVars, healthVars, inflight, gone>>

TakeSlot(r) ==
    /\ req[r].pc = "slot"
    /\ inflight' = [inflight EXCEPT ![Srv(r)] = @ + 1]
    /\ req' = [req EXCEPT ![r].pc = "proxy", ![r].retry = 0, ![r].tried = @ \cup {req[r].i}]
    /\ UNCHANGED <<now, trackers, gone>>

-----------------------------------------------------------------------------

\* Mutant of Budget: one retry too many.
Budget_OneMore(reply) == IF reply.kind = "refused" THEN 0 ELSE NumRetries + 1

\* The same-server retry budget of a failed try: none after a refused
\* connection or a 429, the operator's explicit one after a 5xx.
Budget(reply) ==
    CASE reply.kind = "refused" -> 0
      [] reply.kind = "buffered" -> IF reply.status # 429 /\ Explicit THEN NumRetries ELSE 0
      [] OTHER -> NumRetries

\* StreamProxy returns while the client is there, or returns success.
ProxyReturns(r, reply) ==
    LET failed == reply.kind \in {"reset", "refused", "buffered"}
        next == CASE reply.kind = "ok" -> "okHealth"
                  [] reply.kind = "mid" -> "midHealth"
                  [] OTHER -> IF req[r].retry < Budget(reply) THEN "backoff" ELSE "failHealth"
    IN  /\ req[r].pc = "proxy"
        /\ r \notin gone \/ reply.kind = "ok"
        /\ req' = [req EXCEPT
              ![r].pc = next,
              ![r].reply = reply,
              ![r].err = @ \/ failed,
              ![r].broke = IF reply.kind \in {"mid", "reset", "refused"}
                           THEN @ \cup {req[r].i} ELSE @,
              ![r].answer = IF reply.kind = "buffered" THEN req[r].i ELSE @]
        /\ UNCHANGED <<now, trackers, inflight, gone>>

\* Mutant of ClientGone: the early return skips the in-flight release.
ClientGone_KeepsSlot(r) ==
    /\ req[r].pc \in {"proxy", "backoff"} /\ r \in gone
    /\ req' = [req EXCEPT ![r].pc = "complete", ![r].then = "done", ![r].out = "gone"]
    /\ UNCHANGED <<now, trackers, inflight, gone>>

\* StreamProxy returns an error and the client's context is done, or the
\* client leaves during the backoff: no fallback, only the teardown.
ClientGone(r) ==
    /\ req[r].pc \in {"proxy", "backoff"} /\ r \in gone
    /\ req' = [req EXCEPT ![r].pc = "release", ![r].then = "done", ![r].out = "gone"]
    /\ UNCHANGED <<now, trackers, inflight, gone>>

\* Mutant of Retry: the retry is not counted.
Retry_Uncounted(r) ==
    /\ req[r].pc = "backoff"
    /\ Goto(r, "proxy")
    /\ UNCHANGED <<now, trackers, inflight, gone>>

\* The backoff before the next try of the same server.
Retry(r) ==
    /\ req[r].pc = "backoff"
    /\ req' = [req EXCEPT ![r].pc = "proxy", ![r].retry = @ + 1]
    /\ UNCHANGED <<now, trackers, inflight, gone>>

-----------------------------------------------------------------------------

\* The bookkeeping of a served request, one tracker after the other.
OkHealth(r) ==
    /\ req[r].pc = "okHealth"
    /\ IF UseHealth THEN Health!MarkHealthy(Srv(r)) ELSE UNCHANGED healthVars
    /\ Goto(r, "okLimit")
    /\ UNCHANGED <<now, limiterVars, quotaVars, inflight, gone>>

OkLimit(r, hint) ==
    /\ req[r].pc = "okLimit"
    /\ CASE ~UseRateLimit -> UNCHANGED limiterVars
         [] UseRateLimit /\ req[r].reply.status >= 400 ->
                Limiter!RecordFailure(Srv(r), req[r].reply.status, hint)
         [] OTHER -> Limiter!RecordSuccess(Srv(r))
    /\ Goto(r, "okCount")
    /\ UNCHANGED <<now, healthVars, quotaVars, inflight, gone>>

OkCount(r) ==
    /\ req[r].pc = "okCount"
    /\ IF UseQuota THEN Quota!RecordRequest(Srv(r)) ELSE UNCHANGED quotaVars
    /\ req' = [req EXCEPT ![r].pc = "release", ![r].then = "done", ![r].out = "served"]
    /\ UNCHANGED <<now, limiterVars, healthVars, inflight, gone>>

\* A stream that broke after its headers were sent: no retry, no fallback.
MidHealth(r) ==
    /\ req[r].pc = "midHealth"
    /\ IF UseHealth THEN Health!MarkUnhealthy(Srv(r)) ELSE UNCHANGED healthVars
    /\ Goto(r, "midLimit")
    /\ UNCHANGED <<now, limiterVars, quotaVars, inflight, gone>>

MidLimit(r, hint) ==
    /\ req[r].pc = "midLimit"
    /\ IF UseRateLimit THEN Limiter!RecordFailure(Srv(r), req[r].reply.status, hint)
       ELSE UNCHANGED limiterVars
    /\ req' = [req EXCEPT ![r].pc = "release", ![r].then = "done", ![r].out = "midstream"]
    /\ UNCHANGED <<now, healthVars, quotaVars, inflight, gone>>

\* Mutant of FailHealth: a 429 or 5xx marks the server down too.
FailHealth_AnyFailure(r) ==
    /\ req[r].pc = "failHealth"
    /\ IF UseHealth THEN Health!MarkUnhealthy(Srv(r)) ELSE UNCHANGED healthVars
    /\ Goto(r, "failLimit")
    /\ UNCHANGED <<now, limiterVars, quotaVars, inflight, gone>>

\* An attempt that failed for good.  A backend that answered is reachable, so
\* only a transport error marks it down; the limiter hears of both.
FailHealth(r) ==
    /\ req[r].pc = "failHealth"
    /\ IF UseHealth /\ req[r].reply.kind # "buffered"
       THEN Health!MarkUnhealthy(Srv(r)) ELSE UNCHANGED healthVars
    /\ Goto(r, "failLimit")
    /\ UNCHANGED <<now, limiterVars, quotaVars, inflight, gone>>

FailLimit(r, hint) ==
    LET buffered == req[r].reply.kind = "buffered" IN
    /\ req[r].pc = "failLimit"
    /\ IF UseRateLimit
       THEN Limiter!RecordFailure(Srv(r), IF buffered THEN req[r].reply.status ELSE 0,
                                  IF buffered THEN hint ELSE 0)
       ELSE UNCHANGED limiterVars
    /\ req' = [req EXCEPT ![r].pc = "release", ![r].then = "next"]
    /\ UNCHANGED <<now, healthVars, quotaVars, inflight, gone>>

\* releaseQuota: the in-flight slot goes back, then the reservation.
Release(r) ==
    /\ req[r].pc = "release"
    /\ inflight' = [inflight EXCEPT ![Srv(r)] = @ - 1]
    /\ req' = [req EXCEPT ![r].pc = "complete", ![r].reply = NoReply, ![r].retry = 0]
    /\ UNCHANGED <<now, trackers, gone>>

\* Mutant of CompleteQuota: the teardown gives nothing back.
CompleteQuota_KeepsHeld(r, used) ==
    /\ req[r].pc = "complete"
    /\ IF UseQuota THEN Quota!Complete(Srv(r), 0, used) ELSE UNCHANGED quotaVars
    /\ req' = [req EXCEPT ![r] = LET q == [@ EXCEPT !.held = 0] IN
                                 IF q.then = "done" THEN [q EXCEPT !.pc = "done"]
                                 ELSE Following(q)]
    /\ UNCHANGED <<now, limiterVars, healthVars, inflight, gone>>

CompleteQuota(r, used) ==
    /\ req[r].pc = "complete"
    /\ IF UseQuota THEN Quota!Complete(Srv(r), req[r].held, used) ELSE UNCHANGED quotaVars
    /\ req' = [req EXCEPT ![r] = LET q == [@ EXCEPT !.held = 0] IN
                                 IF q.then = "done" THEN [q EXCEPT !.pc = "done"]
                                 ELSE Following(q)]
    /\ UNCHANGED <<now, limiterVars, healthVars, inflight, gone>>

\* The chain is exhausted: our 400 for a refusal, else the last backend answer
\* that was held back, else a 502.
Conclude(r) ==
    LET q == req[r] IN
    /\ q.pc = "conclude"
    /\ req' = [req EXCEPT
          ![r].pc = "done",
          ![r].meta = IF q.refusal THEN 0 ELSE @,
          ![r].out = IF q.refusal THEN "refused"
                     ELSE IF q.answer > 0 THEN "answer" ELSE "badgateway"]
    /\ UNCHANGED <<now, trackers, inflight, gone>>

-----------------------------------------------------------------------------

\* One step of the handler of r.
Handle(r) ==
    \/ GateHealth(r) \/ GateCooldown(r) \/ GateCap(r) \/ GateQuota(r) \/ LogUsage(r)
    \/ Plan(r) \/ ReserveBudget(r) \/ TakeSlot(r)
    \/ \E reply \in Replies : ProxyReturns(r, reply)
    \/ ClientGone(r) \/ Retry(r)
    \/ OkHealth(r) \/ OkCount(r) \/ MidHealth(r) \/ FailHealth(r)
    \/ \E hint \in Hints : OkLimit(r, hint) \/ MidLimit(r, hint) \/ FailLimit(r, hint)
    \/ Release(r)
    \/ \E used \in Usages : CompleteQuota(r, used)
    \/ Conclude(r)

\* The client closes its connection; the handler notices only inside and
\* between StreamProxy calls.
ClientLeaves(r) ==
    /\ req[r].pc \notin {"idle", "done"} /\ r \notin gone
    /\ gone' = gone \cup {r}
    /\ UNCHANGED <<now, trackers, inflight, req>>

\* The health checker finds a server that is down answering again.
ProbeBack(s) ==
    /\ UseHealth /\ ~Health!IsHealthy(s)
    /\ Health!MarkHealthy(s)
    /\ UNCHANGED <<now, limiterVars, quotaVars, inflight, req, gone>>

Tick ==
    /\ now < MaxTime
    /\ now' = now + 1
    /\ UNCHANGED <<trackers, inflight, req, gone>>

Next ==
    \/ \E r \in Request, c \in Chains, e \in Estimates : Arrive(r, c, e)
    \/ \E r \in Request : Handle(r) \/ ClientLeaves(r)
    \/ \E s \in Server : ProbeBack(s)
    \/ Tick

Spec == Init /\ [][Next]_vars

\* The Go scheduler runs every handler; StreamProxy returns and backoffs end.
Fairness == \A r \in Request : WF_vars(Handle(r))
FairSpec == Spec /\ Fairness

-----------------------------------------------------------------------------

\* The attempt of r as the quota tracker's contract sees it.
CallOf(r) ==
    LET q == req[r]
        counted == q.pc \in {"release", "complete"} /\ q.out = "served"
        state == CASE q.pc \in {"plan", "reserve"} -> "allowed"
                   [] q.pc = "usage" -> "blocked"
                   [] counted -> "counted"
                   [] ~counted /\ q.pc \in Sending \cup {"slot", "complete"} -> "sent"
                   [] OTHER -> "idle"
        out == state \in {"sent", "counted"}
    IN  [st |-> state,
         srv |-> IF state = "idle" THEN "none" ELSE Srv(r),
         last |-> state # "idle" /\ Last(r),
         budget |-> IF out THEN q.est ELSE 0,
         held |-> IF out THEN q.held ELSE 0]

\* No administrator edits limits here; 0 stands for a budget not declared.
Contract == INSTANCE QuotaUse WITH call <- [r \in Request |-> CallOf(r)],
                Estimates <- Estimates \cup {0}, Reports <- Usages, Edits <- {}

\* The handlers use the tracker the way its contract says: every attempt asks
\* Allow, reserves at most once before it is sent, is counted only when it is
\* served, and completes exactly once with what it reserved, on every path.
QuotaContract == Contract!UseSpec

\* A handler that is under way stands on an attempt of its non-empty chain, and
\* it never retries a server more often than num_retries allows.
TypeOK ==
    /\ now \in Nat
    /\ inflight \in [Server -> Int]
    /\ req \in [Request -> Handler]
    /\ gone \subseteq Request
    /\ \A r \in Request : req[r].pc # "idle" => req[r].chain # <<>> /\ req[r].i \in 1 .. Len(req[r].chain)
    /\ \A r \in Request : req[r].retry <= NumRetries

\* The in-flight count that least-connections and max_parallel_requests read
\* is the number of attempts out on the server, on every exit path of every
\* handler ("the count `least-connections` reads can not leak a request that
\* never finished").
InflightExact == \A s \in Server : inflight[s] = Cardinality(Holders(s))

\* The gates never leave a request without a real try: when it ends with the
\* router's 502 or with a held-back backend answer, the last attempt of its
\* chain was sent, and a 502 is only invented when no backend answered.
ChainExhausted ==
    \A r \in Request : req[r].out \in {"answer", "badgateway"} =>
        /\ Len(req[r].chain) \in req[r].tried
        /\ req[r].out = "badgateway" => req[r].err /\ req[r].answer = 0

\* "A backend that answered is reachable": a server the router holds for down
\* had an attempt that ended in a transport or a mid-stream error.
DownForCause ==
    \A s \in Server : status[s] = "down" =>
        \E r \in Request : \E i \in req[r].broke : req[r].chain[i] = s

\* Every request ends: the walk of gates, retries and fallbacks is finite.
RequestsEnd == \A r \in Request : req[r].pc = "health" ~> req[r].pc = "done"

\* bufferedAnswer: kept "so the metric, the fallback marker and the response
\* translation all describe the attempt that answered": the metric reports a
\* conversion exactly when that attempt was converted.
MetricDescribesAnswer ==
    \A r \in Request : req[r].out = "answer" =>
        (req[r].chain[req[r].meta] \in Converting <=> req[r].chain[req[r].answer] \in Converting)

=============================================================================
