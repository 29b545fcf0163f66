------------------------------ MODULE Observe -------------------------------
(***************************************************************************)
(* What the router remembers of its requests: the metrics store            *)
(* (metrics/metrics.go, domain/metric.go) with its ring of recent requests *)
(* and its running summaries, and the request trace (trace/store.go,       *)
(* trace/capture.go) with its ring and its capture window, fed by the      *)
(* handlers of router.go (IncrActive, Armed, record) and steered by the    *)
(* admin API (resetMetrics, setTrace, resetTrace).                         *)
(*                                                                         *)
(* Averages, token rates and the byte count of a summary are left out: they *)
(* are the sums below divided by the totals below.  A summary key is a     *)
(* tuple, where the code joins strings.  The two stores share nothing but  *)
(* the handlers that feed them, so a behaviour exercises one of them.      *)
(***************************************************************************)
EXTENDS Integers, Sequences, FiniteSets, FiniteSetsExt

CONSTANTS
    Handler,           \* goroutines that serve requests, one at a time each
    Model, Server,
    AudioServer,       \* the servers whose answers are neither JSON, SSE nor text
    Outcomes,          \* [status, latency, fallback, api, prompt, cached, created]: how one ended
    Windows,           \* [seconds, models, servers]: windows the operator may arm, 0 = until Stop
    LatencyBuckets,    \* LatencyBucketsMs
    MaxRecent,         \* size of the metrics ring
    MaxTrace,          \* size of the trace ring
    MaxResponseBytes,
    MaxChunks,         \* bound on the response chunks of a request
    MaxRequests,       \* bound on the requests
    MaxCommands        \* bound on the operator's commands

\* The window of a negative length is one without an end.
ASSUME ObserveAssumption ==
    /\ {MaxRecent, MaxTrace} \subseteq Nat \ {0} /\ MaxResponseBytes \in Nat
    /\ IsFiniteSet(Handler) /\ Model # {}
    /\ Outcomes # {}
    /\ Outcomes \subseteq [status : Nat, latency : Nat, fallback : BOOLEAN, api : {"openai", "anthropic"},
                           prompt : Nat, cached : Int, created : Nat]
    /\ Windows # {} /\ Windows \subseteq [seconds : Int, models : SUBSET Model, servers : SUBSET Server]
    /\ LatencyBuckets \in Seq(Nat)

VARIABLES
    recent,            \* metrics ring: [slot, index, count]
    summaries,         \* key -> summary
    active,            \* activeRequests
    entries,           \* trace ring: [slot, index, count]
    window,            \* [enabled, left, models, servers]; left = Never is the zero time
    handler,           \* handler[q]: [pc, id, model, server, capture]
    metricLog,         \* ghost: every metric added since the last reset
    traceLog,          \* ghost: every entry added since the last reset
    asked,             \* ghost: the window the operator asked for, ended on time
    inside,            \* ghost: handlers whose request was routed inside that window
    started,           \* how many requests have arrived
    commands,
    scene              \* which store this behaviour exercises: "metrics" or "trace"

metricVars == <<recent, summaries, metricLog>>
traceVars  == <<entries, traceLog>>
observeVars == <<metricVars, traceVars, active, window, handler, asked, inside, started, commands, scene>>

Never == -1
NoCapture == [bytes |-> -1, kept |-> 0, binary |-> FALSE]

-----------------------------------------------------------------------------
(* The rings.                                                              *)

EmptyRing == [slot |-> <<>>, index |-> 0, count |-> 0]

\* Mutant of RingAdd: the count stops one short of the size.
RingAdd_Short(ring, max, e) ==
    [slot |-> [i \in DOMAIN ring.slot \cup {ring.index} |-> IF i = ring.index THEN e ELSE ring.slot[i]],
     index |-> (ring.index + 1) % max,
     count |-> IF ring.count < max - 1 THEN ring.count + 1 ELSE ring.count]

\* Add: overwrite the slot at the index.
RingAdd(ring, max, e) ==
    [slot |-> [i \in DOMAIN ring.slot \cup {ring.index} |-> IF i = ring.index THEN e ELSE ring.slot[i]],
     index |-> (ring.index + 1) % max,
     count |-> Min({ring.count + 1, max})]

\* List, Recent: the slots in chronological order.
RingList(ring, max) ==
    LET from == IF ring.count < max THEN 0 ELSE ring.index
    IN  [i \in 1 .. ring.count |-> ring.slot[(from + i - 1) % max]]

-----------------------------------------------------------------------------
(* Summaries.                                                              *)

StatusClass(status) ==
    CASE status = 0 -> "transport"
      [] status \in 1 .. 299 -> "2xx"
      [] status \in 300 .. 399 -> "3xx"
      [] status \in 400 .. 499 -> "4xx"
      [] OTHER -> "5xx"

Classes == {"transport", "2xx", "3xx", "4xx", "5xx"}

\* Mutant of AddLatencyBucket: a sample counts in the first bucket it fits.
AddLatencyBucket_NotCumulative(buckets, ms) ==
    LET n == Len(buckets)
        fits == {i \in 1 .. n - 1 : ms <= LatencyBuckets[i]} \cup {n}
    IN  [buckets EXCEPT ![Min(fits)] = @ + 1]

\* AddLatencyBucket: a sample counts in every bucket it fits, and in +Inf.
AddLatencyBucket(buckets, ms) ==
    [i \in DOMAIN buckets |-> IF i = Len(buckets) \/ ms <= LatencyBuckets[i] THEN buckets[i] + 1 ELSE buckets[i]]

NoSummary ==
    [total |-> 0, success |-> 0, error |-> 0, fallback |-> 0, class |-> [c \in Classes |-> 0],
     buckets |-> [i \in 1 .. Len(LatencyBuckets) + 1 |-> 0], latencySum |-> 0, min |-> 0, max |-> 0,
     prompt |-> 0, input |-> 0, cached |-> 0, created |-> 0]

\* Mutant of InputContext: cache reads are taken to be inside every prompt.
InputContext_OneConvention(m) == m.prompt

\* The request's whole input: Anthropic reports its cache beside the prompt.
InputContext(m) ==
    m.prompt + IF m.api = "anthropic" THEN Max({m.cached, 0}) + m.created ELSE 0

updateSummary(sum, m) ==
    LET ok == m.status \in 200 .. 299
    IN  [total |-> sum.total + 1,
         success |-> sum.success + (IF ok THEN 1 ELSE 0),
         error |-> sum.error + (IF ok THEN 0 ELSE 1),
         fallback |-> sum.fallback + (IF m.fallback THEN 1 ELSE 0),
         class |-> [sum.class EXCEPT ![StatusClass(m.status)] = @ + 1],
         buckets |-> AddLatencyBucket(sum.buckets, m.latency),
         latencySum |-> sum.latencySum + m.latency,
         min |-> IF sum.min = 0 \/ m.latency < sum.min THEN m.latency ELSE sum.min,
         max |-> Max({sum.max, m.latency}),
         prompt |-> sum.prompt + m.prompt,
         input |-> sum.input + InputContext(m),
         cached |-> sum.cached + Max({m.cached, 0}),
         created |-> sum.created + m.created]

\* Mutant of SummaryKeys: an answer with no backend has no server group.
SummaryKeys_NamedServers(m) ==
    {<<"model", m.model>>, <<"class", m.class>>}
    \cup IF m.server = "" THEN {} ELSE {<<"server", m.server>>, <<"target", m.server, m.model>>}

\* The groups a metric belongs to (every rule passes the model through).
SummaryKeys(m) ==
    {<<"model", m.model>>, <<"server", m.server>>, <<"target", m.server, m.model>>, <<"class", m.class>>}

\* metrics.Add: the ring and the summaries in one critical section (a behaviour about
\* the trace keeps no metrics).
MetricsAdd(m) ==
    IF scene = "trace" THEN UNCHANGED metricVars
    ELSE /\ recent' = RingAdd(recent, MaxRecent, m)
         /\ summaries' = [k \in DOMAIN summaries \cup SummaryKeys(m) |->
                LET old == IF k \in DOMAIN summaries THEN summaries[k] ELSE NoSummary
                IN  IF k \in SummaryKeys(m) THEN updateSummary(old, m) ELSE old]
         /\ metricLog' = Append(metricLog, m)

\* The metric of request q, ended as o.
Metric(q, server, class, o) ==
    [id |-> handler[q].id, model |-> handler[q].model, server |-> server, class |-> class, status |-> o.status, latency |-> o.latency,
     fallback |-> o.fallback, api |-> o.api, prompt |-> o.prompt, cached |-> o.cached, created |-> o.created]

-----------------------------------------------------------------------------
(* The capture window.                                                     *)

\* Mutant of Expired: an expired window ends when somebody looks at it.
Expired_NotYet(w) == ~w.enabled

\* expireLocked: whether tracing is off; a finished window is disarmed on the way.
Expired(w) == ~w.enabled \/ w.left = 0
Disarmed(w) == [w EXCEPT !.enabled = FALSE, !.left = Never]
expireLocked(w) == IF w.enabled /\ w.left = 0 THEN Disarmed(w) ELSE w

Matches(filter, v) == filter = {} \/ v \in filter
Armed(w, model, server) == ~Expired(w) /\ Matches(w.models, model) /\ Matches(w.servers, server)

Armed0(c) ==
    [enabled |-> TRUE, left |-> IF c.seconds > 0 THEN c.seconds ELSE Never, models |-> c.models, servers |-> c.servers]

Command == commands < MaxCommands /\ commands' = commands + 1

\* setTrace with enabled: an earlier window is replaced, its end included.
StartTrace(c) ==
    /\ Command
    /\ window' = Armed0(c) /\ asked' = Armed0(c)
    /\ UNCHANGED <<metricVars, traceVars, active, handler, inside, started>>

StopTrace ==
    /\ Command /\ asked.enabled
    /\ window' = Disarmed(window) /\ asked' = Disarmed(asked)
    /\ UNCHANGED <<metricVars, traceVars, active, handler, inside, started>>

\* getTrace: a poll of the panel disarms a finished window.
PollTrace ==
    /\ window # expireLocked(window)
    /\ window' = expireLocked(window)
    /\ UNCHANGED <<metricVars, traceVars, active, handler, asked, inside, started, commands>>

ResetTrace ==
    /\ Command /\ entries.count > 0
    /\ entries' = EmptyRing /\ traceLog' = <<>>
    /\ UNCHANGED <<metricVars, active, window, handler, asked, inside, started>>

\* Mutant of ResetMetrics: the counter of live requests is cleared too.
ResetMetrics_Active ==
    /\ Command /\ recent.count > 0
    /\ recent' = EmptyRing /\ summaries' = <<>> /\ metricLog' = <<>> /\ active' = 0
    /\ UNCHANGED <<traceVars, window, handler, asked, inside, started>>

\* metrics.Reset: everything but the counter of live requests.
ResetMetrics ==
    /\ Command /\ recent.count > 0
    /\ recent' = EmptyRing /\ summaries' = <<>> /\ metricLog' = <<>>
    /\ UNCHANGED <<traceVars, active, window, handler, asked, inside, started>>

Tick ==
    /\ asked.left > 0
    /\ window' = [window EXCEPT !.left = IF @ > 0 THEN @ - 1 ELSE @]
    /\ asked' = IF asked.left = 1 THEN Disarmed(asked) ELSE [asked EXCEPT !.left = @ - 1]
    /\ UNCHANGED <<metricVars, traceVars, active, handler, inside, started, commands>>

-----------------------------------------------------------------------------
(* A handler.                                                              *)

Idle == [pc |-> "idle", id |-> 0, model |-> CHOOSE x \in Model : TRUE, server |-> "", capture |-> NoCapture]

At(q, pc) == handler[q].pc = pc
To(q, pc) == handler' = [handler EXCEPT ![q].pc = pc]

\* A count_tokens request is answered by the router itself, before it is active.
LocalAnswer(q, model, o) ==
    /\ At(q, "idle") /\ o.status = 200 /\ ~o.fallback
    /\ started < MaxRequests /\ started' = started + 1
    /\ MetricsAdd([Metric(q, "router", "count_tokens", o) EXCEPT !.id = started + 1, !.model = model])
    /\ UNCHANGED <<traceVars, handler, active, window, asked, inside, commands>>

\* IncrActive, with its deferred DecrActive below.
Arrive(q, model) ==
    /\ At(q, "idle")
    /\ started < MaxRequests /\ started' = started + 1
    /\ active' = active + 1
    /\ handler' = [handler EXCEPT ![q] = [Idle EXCEPT !.pc = "routing", !.id = started + 1, !.model = model]]
    /\ UNCHANGED <<metricVars, traceVars, window, asked, inside, commands>>

\* No rule or no usable backend: answered, and recorded nowhere.
NoRoute(q) ==
    /\ At(q, "routing") /\ To(q, "leave")
    /\ UNCHANGED <<metricVars, traceVars, active, window, asked, inside, started, commands>>

\* The security gate answers 400 before the window is consulted.
Blocked(q) ==
    /\ At(q, "routing") /\ To(q, "leave")
    /\ MetricsAdd(Metric(q, "", "chat", [status |-> 400, latency |-> 1, fallback |-> FALSE, api |-> "openai",
                                         prompt |-> 0, cached |-> 0, created |-> 0]))
    /\ UNCHANGED <<traceVars, active, window, asked, inside, started, commands>>

\* The window is consulted once, for the first attempt's server.
Route(q, server) ==
    LET on == Armed(window, handler[q].model, server)
    IN  /\ At(q, "routing")
        /\ window' = expireLocked(window)
        /\ handler' = [handler EXCEPT ![q].pc = "answer", ![q].server = server,
                                      ![q].capture = IF on THEN [bytes |-> 0, kept |-> 0, binary |-> server \in AudioServer] ELSE NoCapture]
        /\ inside' = IF Armed(asked, handler[q].model, server) THEN inside \cup {q} ELSE inside
        /\ UNCHANGED <<metricVars, traceVars, active, asked, started, commands>>

\* Mutant of WriteResponse: a chunk that does not fit is dropped whole.
WriteResponse_WholeChunks(c, n) ==
    [c EXCEPT !.bytes = @ + n, !.kept = IF c.binary \/ c.kept + n > MaxResponseBytes THEN @ ELSE @ + n]

\* WriteResponse: everything is counted, the prefix that fits is kept.
WriteResponse(c, n) ==
    [c EXCEPT !.bytes = @ + n,
              !.kept = IF c.binary THEN @ ELSE @ + Min({n, Max({MaxResponseBytes - c.kept, 0})})]

\* The proxy writes n bytes of the answer and taps them into the capture.
Chunk(q, n) ==
    /\ At(q, "answer") /\ handler[q].capture # NoCapture
    /\ handler[q].capture.bytes + n <= MaxChunks
    /\ handler' = [handler EXCEPT ![q].capture = WriteResponse(@, n)]
    /\ UNCHANGED <<metricVars, traceVars, active, window, asked, inside, started, commands>>

\* record, first half: the metric ...
Record(q, server, o) ==
    /\ At(q, "answer")
    /\ server # handler[q].server => o.fallback
    /\ To(q, "trace")
    /\ MetricsAdd(Metric(q, server, "chat", o))
    /\ UNCHANGED <<traceVars, active, window, asked, inside, started, commands>>

\* Capture.Entry: what the trace shows of the answer; an error body stands in for
\* an answer that never came.
Entry(q, errorBody) ==
    LET c == handler[q].capture
        shown == IF c.bytes = 0 THEN IF errorBody THEN "error" ELSE "nothing"
                 ELSE IF c.binary THEN "stub" ELSE "body"
    IN  [id |-> handler[q].id, shown |-> shown, bytes |-> c.bytes, kept |-> c.kept,
         truncated |-> shown = "body" /\ c.bytes > c.kept]

\* ... second half: the trace entry, if there is a capture.
RecordTrace(q, errorBody) ==
    /\ At(q, "trace") /\ (errorBody => handler[q].capture.bytes = 0)
    /\ handler' = [handler EXCEPT ![q].pc = "leave", ![q].capture = NoCapture]
    /\ inside' = inside \ {q}
    /\ IF handler[q].capture = NoCapture THEN UNCHANGED traceVars
       ELSE /\ entries' = RingAdd(entries, MaxTrace, Entry(q, errorBody))
            /\ traceLog' = Append(traceLog, Entry(q, errorBody))
    /\ UNCHANGED <<metricVars, active, window, asked, started, commands>>

\* DecrActive.
Leave(q) ==
    /\ At(q, "leave") /\ handler' = [handler EXCEPT ![q] = Idle]
    /\ active' = active - 1
    /\ UNCHANGED <<metricVars, traceVars, window, asked, inside, started, commands>>

-----------------------------------------------------------------------------

\* New: the window is armed from the configured defaults.
ObserveInit ==
    /\ recent = EmptyRing /\ summaries = <<>> /\ active = 0 /\ entries = EmptyRing
    /\ window \in {Armed0(c) : c \in Windows} \cup {Disarmed(Armed0(CHOOSE c \in Windows : TRUE))}
    /\ asked = window
    /\ handler = [q \in Handler |-> Idle]
    /\ metricLog = <<>> /\ traceLog = <<>> /\ inside = {} /\ started = 0 /\ commands = 0
    /\ scene \in {"metrics", "trace"} /\ (scene = "metrics" => ~window.enabled)

Operator ==
    \/ scene = "trace" /\ ((\E c \in Windows : StartTrace(c)) \/ StopTrace \/ PollTrace \/ ResetTrace \/ Tick)
    \/ scene = "metrics" /\ ResetMetrics

Handle(q) ==
    \/ \E x \in Model : Arrive(q, x)
    \/ \E s \in Server : Route(q, s)
    \/ \E n \in 1 .. 2 : Chunk(q, n)
    \/ \E e \in BOOLEAN : RecordTrace(q, e)
    \/ Leave(q)
    \/ scene = "trace" /\ Record(q, handler[q].server, CHOOSE o \in Outcomes : TRUE)
    \/ scene = "metrics" /\ (NoRoute(q) \/ Blocked(q))
    \/ scene = "metrics" /\ \E o \in Outcomes : (\E x \in Model : LocalAnswer(q, x, o)) \/ \E s \in Server : Record(q, s, o)

ObserveNext == (Operator \/ \E q \in Handler : Handle(q)) /\ UNCHANGED scene
ObserveSpec == ObserveInit /\ [][ObserveNext]_observeVars

-----------------------------------------------------------------------------

\* Every variable has its type; the rings are within their size, and the counter of
\* live requests counts them, whatever was reset while they ran ("zeroing it while
\* requests run would let their deferred DecrActive push the counter negative").
ObserveTypeOK ==
    /\ recent.index \in 0 .. MaxRecent - 1 /\ recent.count \in 0 .. MaxRecent
    /\ entries.index \in 0 .. MaxTrace - 1 /\ entries.count \in 0 .. MaxTrace
    /\ window.enabled \in BOOLEAN /\ window.left \in Int
    /\ \A q \in Handler : handler[q].pc \in {"idle", "routing", "answer", "trace", "leave"}
    /\ active = Cardinality({q \in Handler : handler[q].pc # "idle"})

\* The last n of a sequence.
LastOf(s, n) == SubSeq(s, Max({Len(s) - n + 1, 1}), Len(s))

\* Recent returns the newest requests since the last reset, each once and in the
\* order they were recorded, however often the ring has wrapped.
RecentInOrder == RingList(recent, MaxRecent) = LastOf(metricLog, MaxRecent)

\* So does List with the traced ones.
TracesInOrder == RingList(entries, MaxTrace) = LastOf(traceLog, MaxTrace)

Logged(k) == {i \in DOMAIN metricLog : k \in SummaryKeys(metricLog[i])}

\* Each summary is that of the metrics recorded since the last reset: every request is
\* either a success or an error, in one status class and in exactly the buckets its
\* latency fits, so that a quantile read off the histogram is one of the requests.
SummariesAgree ==
    \A k \in DOMAIN summaries :
        LET sum == summaries[k]
        IN  /\ sum.total = Cardinality(Logged(k))
            /\ sum.success = sum.class["2xx"] /\ sum.error = sum.total - sum.success
            /\ \A c \in Classes : sum.class[c] = Cardinality({i \in Logged(k) : StatusClass(metricLog[i].status) = c})
            /\ sum.buckets[Len(LatencyBuckets) + 1] = sum.total
            /\ \A b \in DOMAIN LatencyBuckets :
                   sum.buckets[b] = Cardinality({i \in Logged(k) : metricLog[i].latency <= LatencyBuckets[b]})
            /\ Logged(k) # {} => sum.max = Max({metricLog[i].latency : i \in Logged(k)})

\* Every recorded request is counted under exactly one server and one class, so the
\* groups of either kind add up to the same total, blocked and local answers included.
GroupsAddUp ==
    \A kind \in {"model", "server", "target", "class"} :
        MapThenSumSet(LAMBDA x : summaries[x].total, {k \in DOMAIN summaries : k[1] = kind}) = Len(metricLog)

\* "The two conventions can not be summed into one field without double counting one of
\* them": where each backend's report is sound in its own convention, no group has
\* more tokens from the cache than it has input, so a hit rate is at most one.
HitRateSound == \A k \in DOMAIN summaries : summaries[k].cached <= summaries[k].input

\* "A request that starts inside the window is traced to the end even if the window
\* expires mid-generation", and no other is: the window ends on time although nothing
\* ends it, and neither a reset nor a poll changes what it covers.
TracedIffInside ==
    \A q \in Handler :
        handler[q].pc \in {"answer", "trace"} => (handler[q].capture # NoCapture <=> q \in inside)

\* An entry says what it lost: what was kept is the longest prefix that fits, and the
\* entry is marked truncated exactly when the answer was longer than that.
EntriesHonest ==
    \A i \in DOMAIN traceLog :
        LET e == traceLog[i]
        IN  e.shown = "body" => /\ e.kept = Min({e.bytes, MaxResponseBytes})
                                /\ e.truncated <=> e.bytes > MaxResponseBytes

\* What the metrics page reports is true of the requests recorded since the last
\* reset and of those that run.
MetricsFaithful == ObserveTypeOK /\ RecentInOrder /\ SummariesAgree /\ GroupsAddUp /\ HitRateSound

\* The trace holds exactly the requests routed inside the window, the oldest first
\* to go, and no entry pretends to be whole.
TraceFaithful == TracesInOrder /\ TracedIffInside /\ EntriesHonest

=============================================================================
