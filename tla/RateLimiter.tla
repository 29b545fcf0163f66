---------------------------- MODULE RateLimiter ----------------------------
(***************************************************************************)
(* The failure-driven cooldown of config/ratelimit.go.  Every method of    *)
(* RateLimiter takes rl.mu for its whole body, so each one is a single     *)
(* action here.  A failure is an entry of the server's window; enough      *)
(* entries of one kind, or one refusal (429, 401, 403), bench the server   *)
(* until an expiry time.                                                   *)
(*                                                                         *)
(* Entries are kept as a set: [at, kind, n] is the n-th failure recorded   *)
(* at the instant `at'.  The code keeps a slice, but reads nothing of it   *)
(* except how many entries of a kind are young enough.                     *)
(***************************************************************************)
EXTENDS Integers, FiniteSets

CONSTANTS
    Server,        \* the backends the configuration names
    Window,        \* rl.window: how long a failure counts
    Thresholds,    \* values settings.limiter.allowed_fails may take
    Durations,     \* values settings.limiter.cooldown_seconds may take
    Overrides,     \* values of a server's cooldown_time; 0 = not set
    HintMin,       \* clampHint's lower bound (one second in the code)
    HintMax,       \* clampHint's upper bound (one hour in the code)
    Statuses,      \* HTTP statuses a failure may carry; 0 = transport error
    Hints,         \* Retry-After hints a failure may carry; 0 = none
    MaxEntries,    \* bound on the failures a server's window collects
    MaxTime        \* bound on the clock

ASSUME LimiterAssumption ==
    /\ Window \in Nat \ {0}
    /\ Thresholds \subseteq Nat \ {0}
    /\ Durations \subseteq Nat \ {0}
    /\ Overrides \subseteq Nat
    /\ HintMin \in Nat \ {0} /\ HintMax \in Nat /\ HintMin <= HintMax
    /\ Statuses \subseteq Nat
    /\ Hints \subseteq Nat
    /\ MaxEntries \in Nat /\ MaxTime \in Nat

VARIABLES
    now,          \* the process clock
    failures,     \* failures[s]: recorded failures of s
    cooldown,     \* cooldown[s]: expiry of the cooldown, or NoCooldown
    reason,       \* reason[s]: what put s into cooldown
    maxFails, maxFails4xx, cooldownDur,   \* the thresholds in force
    override      \* override[s]: cooldown_time of s in the configuration

limiterVars == <<failures, cooldown, reason, maxFails, maxFails4xx,
                 cooldownDur, override>>
vars == <<now, limiterVars>>

NoCooldown == -1

Kinds == {"immediate", "server", "client"}
Reasons == {"none", "failures", "status"}
Failure == [at : Nat, kind : Kinds, n : Nat]

\* The maps are well-typed; SetThresholds keeps both thresholds positive and the
\* one for 4xx the double of the other.
TypeOK ==
    /\ now \in Nat
    /\ failures \in [Server -> SUBSET Failure]
    /\ cooldown \in [Server -> Nat \cup {NoCooldown}]
    /\ reason \in [Server -> Reasons]
    /\ maxFails \in Nat \ {0}
    /\ maxFails4xx = 2 * maxFails
    /\ cooldownDur \in Nat \ {0}
    /\ override \in [Server -> Overrides]

Init ==
    /\ now = 0
    /\ failures = [s \in Server |-> {}]
    /\ cooldown = [s \in Server |-> NoCooldown]
    /\ reason = [s \in Server |-> "none"]
    /\ maxFails \in Thresholds
    /\ maxFails4xx = maxFails * 2
    /\ cooldownDur \in Durations
    /\ override \in [Server -> Overrides]

-----------------------------------------------------------------------------

\* The kind of a failure with the given HTTP status; 0 is a transport error.
classifyFailure(status) ==
    IF status \in {429, 401, 403} THEN "immediate"
    ELSE IF status = 0 \/ status >= 500 THEN "server"
    ELSE "client"

thresholdFor(kind) == IF kind = "client" THEN maxFails4xx ELSE maxFails

cooldownDuration(s) == IF override[s] > 0 THEN override[s] ELSE cooldownDur

hasCooldownOverride(s) == override[s] > 0

\* Mutant of clampHint: the upper bound forgotten.
clampHint_NoMax(hint) ==
    IF hint <= 0 THEN 0 ELSE IF hint < HintMin THEN HintMin ELSE hint

\* The backend's Retry-After hint, bounded; 0 stays "no hint".
clampHint(hint) ==
    IF hint <= 0 THEN 0
    ELSE IF hint < HintMin THEN HintMin
    ELSE IF hint > HintMax THEN HintMax
    ELSE hint

ShouldSkip(s) == cooldown[s] # NoCooldown /\ now < cooldown[s]

\* Mutants of StillCooling: a running cooldown is not looked for; an expired
\* one is taken for a running one.
StillCooling_Never(s) == FALSE
StillCooling_Expired(s) == cooldown[s] # NoCooldown

\* A cooldown RecordFailure considers still running.  It is not the negation
\* of ShouldSkip: at the very instant of the expiry the server is eligible
\* again, and RecordFailure still refuses to start a new cooldown.
StillCooling(s) == cooldown[s] # NoCooldown /\ now <= cooldown[s]

\* The failures of s that remain after the pruning at the current instant,
\* with the new one of the given kind added.
Recorded(s, kind) ==
    LET valid == {f \in failures[s] : f.at > now - Window}
        n == Cardinality({f \in valid : f.at = now}) + 1
    IN  valid \cup {[at |-> now, kind |-> kind, n |-> n]}

\* The duration of a cooldown that a failure of this kind starts.
BenchFor(s, kind, hint) ==
    IF kind = "immediate" /\ clampHint(hint) > 0 /\ ~hasCooldownOverride(s)
    THEN clampHint(hint)
    ELSE cooldownDuration(s)

\* A failed request to s: the HTTP status (0 for a transport error) and the
\* Retry-After hint that came with it (0 for none).
RecordFailure(s, status, hint) ==
    LET kind == classifyFailure(status)
        entries == Recorded(s, kind)
        count == Cardinality({f \in entries : f.kind = kind})
        benched == /\ kind = "immediate" \/ count >= thresholdFor(kind)
                   /\ ~StillCooling(s)
    IN  /\ failures' = [failures EXCEPT ![s] = entries]
        /\ \/ /\ benched
              /\ cooldown' = [cooldown EXCEPT ![s] = now + BenchFor(s, kind, hint)]
              /\ reason' = [reason EXCEPT ![s] = IF kind = "immediate"
                                                 THEN "status" ELSE "failures"]
           \/ ~benched /\ UNCHANGED <<cooldown, reason>>
        /\ UNCHANGED <<now, maxFails, maxFails4xx, cooldownDur, override>>

\* Mutant of Forgive: the reason is not deleted with its cooldown.
Forgive_KeepsReason(s) ==
    /\ failures' = [failures EXCEPT ![s] = {}]
    /\ cooldown' = [cooldown EXCEPT ![s] = NoCooldown]
    /\ UNCHANGED <<now, reason, maxFails, maxFails4xx, cooldownDur, override>>

\* Forget everything held against s.
Forgive(s) ==
    /\ failures' = [failures EXCEPT ![s] = {}]
    /\ cooldown' = [cooldown EXCEPT ![s] = NoCooldown]
    /\ reason' = [reason EXCEPT ![s] = "none"]
    /\ UNCHANGED <<now, maxFails, maxFails4xx, cooldownDur, override>>

RecordSuccess(s) == Forgive(s)
ClearCooldown(s) == Forgive(s)

\* POST /admin/api/config/reload: a zero leaves the value in force.
SetThresholds(fails, dur) ==
    /\ \/ /\ fails > 0
          /\ maxFails' = fails
          /\ maxFails4xx' = fails * 2
       \/ fails <= 0 /\ UNCHANGED <<maxFails, maxFails4xx>>
    /\ cooldownDur' = IF dur > 0 THEN dur ELSE cooldownDur
    /\ UNCHANGED <<now, failures, cooldown, reason, override>>

\* The administrator edits a server's cooldown_time; the limiter looks it up
\* lazily through SetCooldownOverride's function.
EditOverride(s, d) ==
    /\ override' = [override EXCEPT ![s] = d]
    /\ UNCHANGED <<now, failures, cooldown, reason, maxFails, maxFails4xx,
                   cooldownDur>>

Tick ==
    /\ now < MaxTime
    /\ now' = now + 1
    /\ UNCHANGED limiterVars

\* Requests report in any order, from any number of handlers; the operator
\* reloads settings and edits servers at any time.
Next ==
    \/ \E s \in Server, status \in Statuses, hint \in Hints :
            /\ Cardinality(failures[s]) < MaxEntries
            /\ RecordFailure(s, status, hint)
    \/ \E s \in Server : RecordSuccess(s)
    \/ \E s \in Server : ClearCooldown(s)
    \/ \E fails \in Thresholds \cup {0}, dur \in Durations \cup {0} :
            SetThresholds(fails, dur)
    \/ \E s \in Server, d \in Overrides : EditOverride(s, d)
    \/ Tick

Spec == Init /\ [][Next]_vars

-----------------------------------------------------------------------------

\* No answer, header or configuration edit benches a server for longer than
\* the longest duration the operator configured or, for a Retry-After hint,
\* than the clamp of clampHint (RecordFailure, cooldown set at now + dur).
BenchBounded ==
    \A s \in Server : cooldown[s] # NoCooldown =>
        \E d \in Durations \cup Overrides \cup {HintMax} : cooldown[s] <= now + d

\* A server has a cooldown entry exactly when it has a reason for it: the
\* admin list (Cooldown) and the router (ShouldSkip) read the two maps under
\* one lock and must never disagree.
ReasonMatches ==
    \A s \in Server : (cooldown[s] = NoCooldown) <=> (reason[s] = "none")

\* While a cooldown runs, further failures neither extend nor shorten it:
\* its expiry moves only by being forgiven.  Requests that were in flight
\* when the bench started keep failing, and must not push the expiry out.
ExpiryFrozen ==
    [][\A s \in Server : ShouldSkip(s) => cooldown'[s] \in {cooldown[s], NoCooldown}]_vars

\* A 429, 401 or 403 is never ignored: in the step that records it the
\* server is benched, or already was (at the instant of its expiry included).
RefusalBenches ==
    [][\A s \in Server :
          (\E f \in failures'[s] \ failures[s] : f.kind = "immediate") => now' <= cooldown'[s]]_vars

=============================================================================
