------------------------------ MODULE Balance ------------------------------
(***************************************************************************)
(* The attempt list of a static rule (router.go Handle, balanceRotation,   *)
(* balanceLeast, sweepRotations) and the pins that keep a conversation on  *)
(* one backend (sticky.go).  Requests are processes; between two of their  *)
(* steps the operator may change the rule or the servers, time may pass    *)
(* and other requests move the rotation, the pins and the in-flight counts.*)
(* The walk along the list is Router's; here an attempt is served or not.  *)
(***************************************************************************)
EXTENDS Integers, Sequences, FiniteSets, SequencesExt, Lists

CONSTANTS
    PoolServer,      \* backends a rule may name
    Request,         \* handlers
    Conversation,    \* conversation identities; "" is a request without one
    RuleVersions,    \* what the operator may make of the rule
    StickyTTL, StickySweepAt, RotationSweepAt,
    MaxFallbacks,    \* settings.routing.max_fallbacks; 0 = no cap
    MaxTurns, MaxEdits    \* bounds on the turns and the edits

VARIABLES
    rule,            \* the rule of the active profile
    defined,         \* servers the configuration defines
    rotations,       \* pool key -> the counter object stored under it
    count,           \* value of each counter object
    rotationKeys,    \* router.rotationKeys
    pins,            \* conversation -> [server, left]: the time left until it expires
    inflight,        \* open attempts per server
    req,             \* req[r]: the local state of a handler
    home,            \* ghost: where a conversation was served last, and for how long it binds
    starts,          \* ghost: the pool of each counter object and the starts it dealt
    turns, edits

poolVars == <<rule, defined, rotations, count, rotationKeys, pins, inflight, req, home, starts, turns, edits>>

Balances(mode) == mode \in {"round-robin", "least-connections"}
NoServer == "none"

Fallback == [server : PoolServer, enabled : BOOLEAN, priority : Int, weight : Int]
PoolRule == [server : PoolServer, fallbacks : Seq(Fallback), balance : STRING]

ASSUME PoolAssumption ==
    /\ RuleVersions \subseteq PoolRule
    /\ NoServer \notin PoolServer
    /\ StickyTTL \in Nat /\ StickySweepAt \in Nat /\ MaxFallbacks \in Nat

-----------------------------------------------------------------------------
(* The attempt list.                                                       *)

EnabledFallbacks(r) == Keep(r.fallbacks, {i \in DOMAIN r.fallbacks : r.fallbacks[i].enabled})

\* Mutant of orderedFallbacks: list order, whatever the priorities say.
orderedFallbacks_Listed(r) == EnabledFallbacks(r)

\* The enabled fallbacks by priority; unset (0) after all others, ties in order.
orderedFallbacks(r) ==
    LET on == EnabledFallbacks(r)
        Ahead(i, j) == on[i].priority # 0 /\ (on[j].priority = 0 \/ on[i].priority < on[j].priority)
    IN  Listed(on, Sorted([j \in DOMAIN on |->
                            {i \in DOMAIN on : Ahead(i, j) \/ (~Ahead(j, i) /\ i < j)}]))

\* The primary and the fallbacks among the names that are defined, with their
\* weights.
AttemptsIn(r, names) ==
    LET all == orderedFallbacks(r)
        on == Keep(all, {k \in DOMAIN all : all[k].server \in names})
    IN  <<[server |-> r.server, weight |-> 1]>>
        \o [k \in DOMAIN on |-> [server |-> on[k].server,
                                 weight |-> IF on[k].weight > 1 THEN on[k].weight ELSE 1]]

Attempts(r) == AttemptsIn(r, defined)

Servers(list) == [k \in DOMAIN list |-> list[k].server]

\* Mutant of Rotated: the members before the start are not wrapped around.
Rotated_Cut(list, i) == SubSeq(list, i, Len(list))

Rotated(list, i) == SubSeq(list, i, Len(list)) \o SubSeq(list, 1, i - 1)
Slots(list) == FoldLeft(LAMBDA n, a : n + a.weight, 0, list)
Before(list, i) == Slots(SubSeq(list, 1, i - 1))

\* The member that owns the n-th start: the weights deal out the slots.
StartOf(list, n) ==
    LET slot == n % Slots(list)
    IN  CHOOSE i \in DOMAIN list : Before(list, i) <= slot /\ slot < Before(list, i) + list[i].weight

\* balanceLeast: fewest open attempts per unit of weight first, ties in order.
LeastBusyFirst(list) ==
    LET Load(i) == inflight[list[i].server]
        Idler(i, j) == Load(i) * list[j].weight < Load(j) * list[i].weight
    IN  Listed(list, Sorted([j \in DOMAIN list |->
                                {i \in DOMAIN list : Idler(i, j) \/ (~Idler(j, i) /\ i < j)}]))

Capped(list) ==
    IF MaxFallbacks > 0 /\ Len(list) > MaxFallbacks + 1 THEN SubSeq(list, 1, MaxFallbacks + 1) ELSE list

-----------------------------------------------------------------------------
(* The pins.                                                               *)

Live(conv) == conv \in DOMAIN pins /\ pins[conv].left >= 0

\* stickyGet: the pinned server; reading a live pin extends it, an expired one
\* is dropped.
Pinned(conv) == IF Live(conv) THEN pins[conv].server ELSE NoServer

\* Mutant of AfterGet: reading a pin does not extend it.
AfterGet_NoRefresh(conv) == pins

AfterGet(conv) ==
    IF Live(conv) THEN [pins EXCEPT ![conv].left = StickyTTL]
    ELSE [k \in DOMAIN pins \ {conv} |-> pins[k]]

\* Mutant of AfterPut: the sweep never drops anything.
AfterPut_NoSweep(conv, s) ==
    [k \in DOMAIN pins \cup {conv} |->
        IF k = conv THEN [server |-> s, left |-> StickyTTL] ELSE pins[k]]

\* stickyPut: a store at its bound drops its expired pins first.
AfterPut(conv, s) ==
    LET kept == IF Cardinality(DOMAIN pins) >= StickySweepAt
                THEN {k \in DOMAIN pins : pins[k].left >= 0} ELSE DOMAIN pins
    IN  [k \in kept \cup {conv} |->
            IF k = conv THEN [server |-> s, left |-> StickyTTL] ELSE pins[k]]

-----------------------------------------------------------------------------
(* A handler.                                                              *)

Idle == [pc |-> "idle", conv |-> "", list |-> <<>>, mode |-> "", pin |-> NoServer, due |-> NoServer,
         counter |-> 0, live |-> {}, epoch |-> 0, chain |-> <<>>, i |-> 0]

Step(r, new) == req' = [req EXCEPT ![r] = new]

\* The ghost's view of where the conversation belongs.
DueAt(conv) == IF conv \in DOMAIN home /\ home[conv].left >= 0 THEN home[conv].server ELSE NoServer

\* Handle up to the balancing: the rule, its servers and, for a pool, the pin.
Arrive(r, conv) ==
    /\ req[r].pc = "idle" /\ turns < MaxTurns /\ turns' = turns + 1
    /\ rule.server \in defined
    /\ LET list == Attempts(rule)
           pool == Len(list) > 1 /\ Balances(rule.balance)
           q == [Idle EXCEPT !.conv = conv, !.list = list, !.mode = rule.balance,
                             !.pin = Pinned(conv), !.due = DueAt(conv)]
       IN  IF ~pool
           THEN /\ Step(r, [q EXCEPT !.pc = "send", !.conv = "", !.chain = Capped(Servers(list)), !.i = 1,
                                     !.due = NoServer])
                /\ UNCHANGED <<pins, home>>
           ELSE /\ pins' = IF conv = "" THEN pins ELSE AfterGet(conv)
                /\ home' = IF DueAt(conv) # NoServer THEN [home EXCEPT ![conv].left = StickyTTL] ELSE home
                /\ Step(r, [q EXCEPT !.pc = rule.balance,
                                     !.due = IF \E a \in ToSet(list) : a.server = @ THEN @ ELSE NoServer])
    /\ UNCHANGED <<rule, defined, rotations, count, rotationKeys, inflight, starts, edits>>

PinnedChain(q) ==
    LET i == SelectInSeq(q.list, LAMBDA a : a.server = q.pin)
    IN  IF i = 0 THEN <<>> ELSE Rotated(q.list, i)

\* balanceLeast.
Least(r) ==
    /\ req[r].pc = "least-connections"
    /\ LET list == IF PinnedChain(req[r]) # <<>> THEN PinnedChain(req[r]) ELSE LeastBusyFirst(req[r].list)
       IN  Step(r, [req[r] EXCEPT !.pc = "send", !.chain = Capped(Servers(list)), !.i = 1])
    /\ UNCHANGED <<rule, defined, rotations, count, rotationKeys, pins, inflight, home, starts, turns, edits>>

\* balanceRotation: LoadOrStore of the counter; a new key may owe a sweep.
FindCounter(r) ==
    LET key == Servers(req[r].list)
        fresh == key \notin DOMAIN rotations
        g == IF fresh THEN Len(count) + 1 ELSE rotations[key]
    IN  /\ req[r].pc = "round-robin"
        /\ rotations' = [k \in DOMAIN rotations \cup {key} |-> IF k = key THEN g ELSE rotations[k]]
        /\ count' = IF fresh THEN Append(count, 0) ELSE count
        /\ starts' = IF fresh THEN Append(starts, [list |-> req[r].list, dealt |-> [i \in DOMAIN req[r].list |-> 0]]) ELSE starts
        /\ rotationKeys' = IF fresh THEN rotationKeys + 1 ELSE rotationKeys
        /\ Step(r, [req[r] EXCEPT !.counter = g,
                    !.pc = IF fresh /\ rotationKeys + 1 > RotationSweepAt THEN "scan" ELSE "rotate"])
        /\ UNCHANGED <<rule, defined, pins, inflight, home, turns, edits>>

\* Mutant of LiveKeys: the fallbacks in the order they are listed.
LiveKeys_Listed(r) ==
    LET on == orderedFallbacks_Listed(r)
        ids == <<r.server>> \o [k \in DOMAIN on |-> on[k].server]
    IN  IF Balances(r.balance) /\ Len(ids) > 1 THEN {ids} ELSE {}

\* sweepRotations reads the rules: the pools they build ...
LiveKeys(r) ==
    LET ids == <<r.server>> \o [k \in DOMAIN orderedFallbacks(r) |-> orderedFallbacks(r)[k].server]
    IN  IF Balances(r.balance) /\ Len(ids) > 1 THEN {ids} ELSE {}

SweepScan(r) ==
    /\ req[r].pc = "scan"
    /\ Step(r, [req[r] EXCEPT !.pc = "sweep", !.live = LiveKeys(rule), !.epoch = edits])
    /\ UNCHANGED <<rule, defined, rotations, count, rotationKeys, pins, inflight, home, starts, turns, edits>>

\* ... and drops the counters of all others.
SweepDrop(r) ==
    /\ req[r].pc = "sweep"
    /\ rotations' = [k \in DOMAIN rotations \cap req[r].live |-> rotations[k]]
    /\ rotationKeys' = Cardinality(req[r].live)
    /\ Step(r, [req[r] EXCEPT !.pc = "rotate", !.live = {}, !.epoch = 0])
    /\ UNCHANGED <<rule, defined, count, pins, inflight, home, starts, turns, edits>>

\* Mutant of Rotate: a pinned turn advances the shared counter too.
Rotate_PinSpends(r) ==
    LET q == req[r]
        i == StartOf(q.list, count[q.counter])
    IN  /\ q.pc = "rotate"
        /\ count' = [count EXCEPT ![q.counter] = @ + 1]
        /\ starts' = IF PinnedChain(q) = <<>> THEN [starts EXCEPT ![q.counter].dealt[i] = @ + 1] ELSE starts
        /\ Step(r, [q EXCEPT !.pc = "send", !.i = 1, !.counter = 0,
                    !.chain = Capped(Servers(IF PinnedChain(q) = <<>> THEN Rotated(q.list, i) ELSE PinnedChain(q)))])
        /\ UNCHANGED <<rule, defined, rotations, rotationKeys, pins, inflight, home, turns, edits>>

\* The rest of balanceRotation: a pinned turn starts on its member and spends
\* no rotation, any other takes the next slot of the counter it found.
Rotate(r) ==
    LET q == req[r]
        i == StartOf(q.list, count[q.counter])
    IN  /\ q.pc = "rotate"
        /\ \/ /\ PinnedChain(q) # <<>>
              /\ Step(r, [q EXCEPT !.pc = "send", !.i = 1, !.counter = 0, !.chain = Capped(Servers(PinnedChain(q)))])
              /\ UNCHANGED <<count, starts>>
           \/ /\ PinnedChain(q) = <<>>
              /\ count' = [count EXCEPT ![q.counter] = @ + 1]
              /\ starts' = [starts EXCEPT ![q.counter].dealt[i] = @ + 1]
              /\ Step(r, [q EXCEPT !.pc = "send", !.i = 1, !.counter = 0, !.chain = Capped(Servers(Rotated(q.list, i)))])
        /\ UNCHANGED <<rule, defined, rotations, rotationKeys, pins, inflight, home, turns, edits>>

\* An attempt is open on its server until it ends.
Send(r) ==
    /\ req[r].pc = "send"
    /\ inflight' = [inflight EXCEPT ![req[r].chain[req[r].i]] = @ + 1]
    /\ Step(r, [Idle EXCEPT !.pc = "open", !.conv = req[r].conv, !.chain = req[r].chain, !.i = req[r].i])
    /\ UNCHANGED <<rule, defined, rotations, count, rotationKeys, pins, home, starts, turns, edits>>

\* Served below 400: the conversation belongs to this backend now.
Served(r) ==
    LET q == req[r]
        s == q.chain[q.i]
    IN  /\ q.pc = "open"
        /\ inflight' = [inflight EXCEPT ![s] = @ - 1]
        /\ pins' = IF q.conv = "" THEN pins ELSE AfterPut(q.conv, s)
        /\ home' = IF q.conv = "" THEN home
                   ELSE [k \in DOMAIN home \cup {q.conv} |->
                            IF k = q.conv THEN [server |-> s, left |-> StickyTTL] ELSE home[k]]
        /\ Step(r, Idle)
        /\ UNCHANGED <<rule, defined, rotations, count, rotationKeys, starts, turns, edits>>

\* The attempt fails: the next one of the chain, or the end.
Failed(r) ==
    LET q == req[r]
    IN  /\ q.pc = "open"
        /\ inflight' = [inflight EXCEPT ![q.chain[q.i]] = @ - 1]
        /\ Step(r, IF q.i < Len(q.chain) THEN [q EXCEPT !.pc = "send", !.i = @ + 1] ELSE Idle)
        /\ UNCHANGED <<rule, defined, rotations, count, rotationKeys, pins, home, starts, turns, edits>>

-----------------------------------------------------------------------------

EditRule(version) ==
    /\ edits < MaxEdits /\ edits' = edits + 1 /\ version # rule
    /\ rule' = version
    /\ UNCHANGED <<defined, rotations, count, rotationKeys, pins, inflight, req, home, starts, turns>>

\* A reload of a file edited by hand: a rule may name servers it does not define.
DropServer(s) ==
    /\ edits < MaxEdits /\ edits' = edits + 1 /\ s \in defined
    /\ defined' = defined \ {s}
    /\ UNCHANGED <<rule, rotations, count, rotationKeys, pins, inflight, req, home, starts, turns>>

\* Time passes: every pin is nearer its expiry.
Older(map) == [k \in DOMAIN map |-> [map[k] EXCEPT !.left = IF @ < 0 THEN @ ELSE @ - 1]]

PoolTick ==
    /\ pins' = Older(pins) /\ home' = Older(home)
    /\ UNCHANGED <<rule, defined, rotations, count, rotationKeys, inflight, req, starts, turns, edits>>

PoolInit ==
    /\ rule \in RuleVersions /\ defined = PoolServer
    /\ rotations = <<>> /\ count = <<>> /\ starts = <<>> /\ rotationKeys = 0
    /\ pins = <<>> /\ home = <<>>
    /\ inflight = [s \in PoolServer |-> 0]
    /\ req = [r \in Request |-> Idle]
    /\ turns = 0 /\ edits = 0

Handle(r) ==
    \/ \E conv \in Conversation : Arrive(r, conv)
    \/ Least(r) \/ FindCounter(r) \/ SweepScan(r) \/ SweepDrop(r) \/ Rotate(r)
    \/ Send(r) \/ Served(r) \/ Failed(r)

PoolNext ==
    \/ \E r \in Request : Handle(r)
    \/ \E v \in RuleVersions : EditRule(v)
    \/ \E s \in PoolServer : DropServer(s)
    \/ PoolTick

-----------------------------------------------------------------------------

\* Indices and counters stay in range, and the in-flight count of a server is
\* the number of attempts open on it.
PoolTypeOK ==
    /\ \A k \in DOMAIN rotations : rotations[k] \in DOMAIN count
    /\ DOMAIN count = DOMAIN starts
    /\ DOMAIN pins \subseteq Conversation \ {""}
    /\ \A r \in Request : req[r].pc \in {"send", "open"} => req[r].i \in DOMAIN req[r].chain
    /\ \A s \in PoolServer : inflight[s] = Cardinality({r \in Request : req[r].pc = "open" /\ req[r].chain[req[r].i] = s})

\* The lists the versions of the rule can build, and the hypothesis FairShare is
\* stated under: versions with the same members give them the same weights.
PoolLists == {AttemptsIn(v, names) : v \in RuleVersions, names \in SUBSET PoolServer}
WeightsKept == \A a, b \in PoolLists : Servers(a) = Servers(b) => a = b

\* Whatever way the requests of several conversations interleave, and while the
\* weights of its pool are not edited, each counter deals its starts in the
\* declared proportions: after whole rounds every member has started exactly its
\* weight per round, and within a round no member is ahead of its share ("letting it advance the shared counter would
\* drift every other conversation's share along with it").
FairShare ==
    \A g \in DOMAIN count :
        LET list == starts[g].list
            rounds == count[g] \div Slots(list)
        IN  \A i \in DOMAIN list :
                /\ starts[g].dealt[i] >= rounds * list[i].weight
                /\ starts[g].dealt[i] <= (rounds + 1) * list[i].weight
                /\ count[g] % Slots(list) = 0 => starts[g].dealt[i] = rounds * list[i].weight

\* A turn of a conversation starts on the backend that served its last turn,
\* for as long as the conversation is alive and the backend in the pool, in
\* both balance modes, whatever other conversations come and go ("an agent loop
\* running for an hour must not be repinned mid-flight").
PinHonoured ==
    \A r \in Request :
        req[r].pc = "send" /\ req[r].i = 1 /\ req[r].due # NoServer => req[r].chain[1] = req[r].due

\* Past its bound the pin store holds live conversations only: abandoned ones
\* never push it further ("an abandoned conversation must not hold a slot
\* forever").
PinsBounded ==
    [][DOMAIN pins' \ DOMAIN pins # {} /\ Cardinality(DOMAIN pins') > StickySweepAt
        => \A k \in DOMAIN pins' : pins'[k].left >= 0]_pins

\* fallbackIDs: "so a pool key computed here matches the runtime one".  A sweep
\* takes the counter of a pool the rule builds only when the operator changed
\* the configuration while it ran, or a fallback the rule names is not defined:
\* otherwise the rotation of a pool in use is never restarted.
RotationKept ==
    [][\A r \in Request :
        /\ req[r].pc = "sweep" /\ req'[r].pc = "rotate" /\ req[r].epoch = edits
        /\ Balances(rule.balance)
        /\ \A f \in ToSet(orderedFallbacks(rule)) : f.server \in defined
        => Servers(Attempts(rule)) \notin DOMAIN rotations \ DOMAIN rotations']_<<req, rotations>>

\* The two bounded stores are swept of what is dead, and of nothing else.
SweepsExact == PinsBounded /\ RotationKept

\* A balanced request walks its pool up to the cap: as many members as there
\* are, and none twice unless the rule names it twice.
ChainComplete ==
    \A r \in Request : req[r].pc = "send" /\ req[r].i = 1 =>
        /\ ToSet(req[r].chain) \subseteq ToSet(Servers(req[r].list))
        /\ IsInjective(Servers(req[r].list)) => IsInjective(req[r].chain)
        /\ Len(req[r].chain) = IF MaxFallbacks = 0 \/ Len(req[r].list) <= MaxFallbacks + 1
                               THEN Len(req[r].list) ELSE MaxFallbacks + 1

=============================================================================
