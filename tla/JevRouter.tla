----------------------------- MODULE JevRouter -----------------------------
(***************************************************************************)
(* A jev rule (router/jev.go): a decision model picks one candidate of the *)
(* rule's pool, the others follow as the fallback chain.  The pool is      *)
(* first filtered by what the backends report about themselves             *)
(* (config/capabilities.go, probed lazily); decisions are cached and       *)
(* pinned per conversation.  Requests are processes: probes, the decision  *)
(* call and the look-ups of the servers are steps of their own.            *)
(*                                                                         *)
(* Confidence is counted in tenths.  The request text, its images and its  *)
(* size are members of small sets: jevRequestText and jevRequestImages     *)
(* only decide which of the branches below a body takes.  A time stamp is   *)
(* kept as the time left until it expires, which JevTick counts down.       *)
(***************************************************************************)
EXTENDS Integers, Sequences, FiniteSets, SequencesExt, Lists

CONSTANTS
    JevRequest,      \* handlers
    Pools,           \* candidate lists the rule may have
    DefaultTiers,    \* default_tier values
    MinConfidence,
    Security,        \* the rule asks the harm question
    Turns,           \* [conv, text, images, large, off]: what requests ask
    Answers,         \* [choice, confidence, harm]: what the decision model says
    Listings,        \* what a backend may report: "silent", "vision", "blind", "audio"
    CacheTTL, JevStickyTTL, CapsTTL,
    JevSweepAt,      \* jevCacheSweepAt, shared by the cache and the pins
    MaxJevTurns, MaxListings   \* bounds

VARIABLES
    pool0, tier0,    \* the rule: candidates and default tier
    undefined,       \* servers the rule names and the configuration lacks
    listing,         \* external: what each backend reports now
    caps,            \* CapabilitiesCache.entries: [said, left] per server
    jevCache,        \* decision key -> [choice, confidence, reason, left]
    jevSticky,       \* conversation -> [choice, left]
    jreq,            \* handlers
    jhome,           \* ghost: what a conversation was settled on, [choice, left]
    jturns, relists

jevVars == <<pool0, tier0, undefined, listing, caps, jevCache, jevSticky, jreq, jhome, jturns, relists>>

Candidates == UNION {ToSet(p) : p \in Pools}
CandidateServers == {c.server : c \in Candidates}
NoChoice == "?"

Candidate == [id : STRING \ {NoChoice}, server : STRING, tier : Int, vision : {"yes", "no", "unset"}, enabled : BOOLEAN]
Turn == [conv : STRING, text : STRING, images : BOOLEAN, large : BOOLEAN, off : BOOLEAN]
Answer == [choice : STRING, confidence : Int, harm : BOOLEAN]

ASSUME JevAssumption ==
    /\ Pools \subseteq Seq(Candidate) /\ DefaultTiers \subseteq Int /\ MinConfidence \in Int
    /\ Turns \subseteq Turn /\ Answers \subseteq Answer /\ "silent" \in Listings
    /\ CapsTTL \in Nat /\ JevStickyTTL \in Nat /\ CacheTTL \in Nat

-----------------------------------------------------------------------------
(* Pure parts.                                                             *)

EnabledCandidates(p) == Keep(p, {i \in DOMAIN p : p[i].enabled})
Ids(p) == [i \in DOMAIN p |-> p[i].id]
Dist(c, tier) == IF c.tier > tier THEN 2 * (c.tier - tier) ELSE tier - c.tier

\* The index at the tier, else the nearest; a tier above counts double.
jevTierIndex(p, tier) ==
    LET exact == {i \in DOMAIN p : p[i].tier = tier}
        near == {i \in DOMAIN p : \A j \in DOMAIN p : Dist(p[i], tier) <= Dist(p[j], tier)}
    IN  Min(IF exact # {} THEN exact ELSE near)

\* The index with the highest tier at or below the ceiling.
jevNearestIndex(p, ceiling) ==
    LET below == {i \in DOMAIN p : p[i].tier <= ceiling}
    IN  IF below = {} THEN jevTierIndex(p, ceiling)
        ELSE Min({i \in below : \A j \in below : p[j].tier <= p[i].tier})

\* jevAudioPool: without the candidates whose backends declare an audio model.
NotAudio(p, said) == Keep(p, {i \in DOMAIN p : said[p[i].server] # "audio"})

\* resolveVisionPool and jevVisionPool: without those known not to see.
Seeing(p, said) ==
    Keep(p, {i \in DOMAIN p : p[i].vision # "no" /\ (p[i].vision = "unset" => said[p[i].server] # "blind")})

\* A filter that would leave nothing is not applied.
OrAll(kept, all) == IF kept = <<>> THEN all ELSE kept

\* Mutant of Filtered: the audio filter may leave nothing.
Filtered_Closed(p, said, images) == NotAudio(p, said)

\* The pool of a request, given what the backends have said.
Filtered(p, said, images) ==
    LET text == OrAll(NotAudio(p, said), p)
    IN  IF images THEN OrAll(Seeing(text, said), text) ELSE text

\* Mutant of Clamped: an unsure answer is followed.
Clamped_Trusting(p, choice, confidence, reason, large) ==
    LET def == jevTierIndex(p, tier0)
    IN  IF choice = 0 THEN def ELSE choice

\* What becomes of the decision model's choice (0 = none): the default without
\* one; unsure, never weaker than the default nor more than a tier above it;
\* never weaker on a large conversation.
Clamped(p, choice, confidence, reason, large) ==
    LET def == jevTierIndex(p, tier0)
        unsure == choice # 0 /\ reason # "sticky" /\ confidence < MinConfidence
        first == IF choice = 0 THEN def
                 ELSE IF unsure /\ p[choice].tier < p[def].tier THEN def
                 ELSE IF unsure /\ p[choice].tier > p[def].tier + 1 THEN jevNearestIndex(p, p[def].tier + 1)
                 ELSE choice
    IN  IF p[first].tier < p[def].tier /\ large THEN def ELSE first

\* The candidates of I by their tiers, ties in the order of the pool.
Upwards(p, I) ==
    Sorted([i \in I |-> {j \in I : p[j].tier < p[i].tier \/ (p[j].tier = p[i].tier /\ j < i)}])
Downwards(p, I) ==
    Sorted([i \in I |-> {j \in I : p[j].tier > p[i].tier \/ (p[j].tier = p[i].tier /\ j < i)}])

\* Mutant of FallbackOrder: the strongest of the rest first.
FallbackOrder_Strongest(p, first) == <<first>> \o Downwards(p, DOMAIN p \ {first})

\* The chosen candidate, the stronger ones upwards, the others downwards.
FallbackOrder(p, first) ==
    LET up == {i \in DOMAIN p \ {first} : p[i].tier > p[first].tier}
        down == (DOMAIN p \ {first}) \ up
    IN  <<first>> \o Upwards(p, up) \o Downwards(p, down)

-----------------------------------------------------------------------------
(* The two maps behind jevMu.                                              *)

\* Mutant of Kept: the sweep drops live entries too.
Kept_None(map) == {}

\* A put into a map at its bound drops the expired entries first.
Kept(map) ==
    IF Cardinality(DOMAIN map) >= JevSweepAt
    THEN {k \in DOMAIN map : map[k].left >= 0} ELSE DOMAIN map

Put(map, key, entry) == [k \in Kept(map) \cup {key} |-> IF k = key THEN entry ELSE map[k]]
Hit(map, key) == key \in DOMAIN map /\ map[key].left >= 0
Drop(map, key) == [k \in DOMAIN map \ {key} |-> map[k]]

-----------------------------------------------------------------------------
(* A handler.                                                              *)

NoTurn == [conv |-> "", text |-> "", images |-> FALSE, large |-> FALSE, off |-> FALSE]
Waiting == [pc |-> "idle", turn |-> NoTurn, said |-> <<>>, k |-> 0, pool |-> <<>>, choice |-> NoChoice,
            confidence |-> 0, reason |-> "", first |-> 0, attempts |-> <<>>, due |-> NoChoice]

JStep(r, new) == jreq' = [jreq EXCEPT ![r] = new]
CacheKey(q) == <<Ids(q.pool), q.turn.text, q.turn.images>>

\* The ghost's view of where the conversation's tool turns belong.
JDue(conv) ==
    IF conv \in DOMAIN jhome /\ jhome[conv].left >= 0 THEN jhome[conv].choice ELSE NoChoice

JevArrives(r, turn) ==
    /\ jreq[r].pc = "idle" /\ jturns < MaxJevTurns /\ jturns' = jturns + 1
    /\ EnabledCandidates(pool0) # <<>>
    /\ JStep(r, [Waiting EXCEPT !.pc = "filter", !.turn = turn, !.k = 1,
                                !.said = [s \in CandidateServers |-> "silent"]])
    /\ UNCHANGED <<pool0, tier0, undefined, listing, caps, jevCache, jevSticky, jhome, relists>>

\* The candidate whose capabilities are asked for next, and what is learnt.
Asked(q) == EnabledCandidates(pool0)[q.k].server
Learn(q, what) ==
    LET said == [q.said EXCEPT ![Asked(q)] = what]
    IN  IF q.k < Len(EnabledCandidates(pool0)) THEN [q EXCEPT !.pc = "filter", !.said = said, !.k = @ + 1]
        ELSE [q EXCEPT !.pc = "decide", !.said = <<>>, !.k = 0,
                       !.pool = Filtered(EnabledCandidates(pool0), said, q.turn.images)]

FreshCaps(s) == caps[s].left > 0

\* Audio and Vision: a fresh entry answers; a stale one is probed unlocked.
AskCaps(r) ==
    /\ jreq[r].pc = "filter"
    /\ LET s == Asked(jreq[r])
       IN  JStep(r, IF s \in undefined THEN Learn(jreq[r], "silent")
                    ELSE IF FreshCaps(s) THEN Learn(jreq[r], caps[s].said)
                    ELSE [jreq[r] EXCEPT !.pc = "probe"])
    /\ UNCHANGED <<pool0, tier0, undefined, listing, caps, jevCache, jevSticky, jhome, jturns, relists>>

\* The probe's answer, or its failure, is stored whatever was stored meanwhile.
ProbeReturns(r, said) ==
    /\ jreq[r].pc = "probe"
    /\ said \in {listing[Asked(jreq[r])], "silent"}
    /\ caps' = [caps EXCEPT ![Asked(jreq[r])] = [said |-> said, left |-> CapsTTL]]
    /\ JStep(r, Learn(jreq[r], said))
    /\ UNCHANGED <<pool0, tier0, undefined, listing, jevCache, jevSticky, jhome, jturns, relists>>

\* Observe: the health checker's own listing of a backend.
Observe(s) ==
    /\ s \notin undefined /\ caps[s] # [said |-> listing[s], left |-> CapsTTL]
    /\ caps' = [caps EXCEPT ![s] = [said |-> listing[s], left |-> CapsTTL]]
    /\ UNCHANGED <<pool0, tier0, undefined, listing, jevCache, jevSticky, jreq, jhome, jturns, relists>>

\* The switch of jevAttempts: bypass, pinned tool turn, cache, or the question.
Decide(r) ==
    LET q == jreq[r]
        t == q.turn
        silent == t.text = "" /\ ~t.images
        pin == IF Hit(jevSticky, t.conv) THEN jevSticky[t.conv].choice ELSE NoChoice
        key == CacheKey(q)
        bare == [q EXCEPT !.pc = "settle", !.due = IF silent /\ ~t.off THEN JDue(t.conv) ELSE NoChoice]
    IN  /\ q.pc = "decide"
        /\ \/ /\ t.off
              /\ JStep(r, [bare EXCEPT !.reason = "off"])
              /\ UNCHANGED <<jevCache, jevSticky>>
           \/ /\ ~t.off /\ silent
              /\ jevSticky' = IF t.conv # "" /\ ~Hit(jevSticky, t.conv) THEN Drop(jevSticky, t.conv) ELSE jevSticky
              /\ JStep(r, IF t.conv # "" /\ pin \in ToSet(Ids(q.pool))
                          THEN [bare EXCEPT !.choice = pin, !.reason = "sticky"]
                          ELSE [bare EXCEPT !.reason = "off"])
              /\ UNCHANGED jevCache
           \/ /\ ~t.off /\ ~silent /\ CacheTTL > 0 /\ Hit(jevCache, key)
              /\ LET e == jevCache[key]
                 IN  JStep(r, IF e.reason = "blocked"
                              THEN [bare EXCEPT !.pc = "routed", !.reason = "blocked"]
                              ELSE [bare EXCEPT !.choice = e.choice, !.confidence = e.confidence, !.reason = "cache"])
              /\ UNCHANGED <<jevCache, jevSticky>>
           \/ /\ ~t.off /\ ~silent /\ ~(CacheTTL > 0 /\ Hit(jevCache, key))
              /\ jevCache' = IF CacheTTL > 0 THEN Drop(jevCache, key) ELSE jevCache
              /\ JStep(r, IF "decider" \in undefined THEN [bare EXCEPT !.reason = "unavailable"]
                          ELSE [bare EXCEPT !.pc = "asking"])
              /\ UNCHANGED jevSticky
        /\ UNCHANGED <<pool0, tier0, undefined, listing, caps, jhome, jturns, relists>>

\* AskJev fails, times out, or its answer lacks the question.
AskFails(r) ==
    /\ jreq[r].pc = "asking"
    /\ JStep(r, [jreq[r] EXCEPT !.pc = "settle", !.reason = "unavailable"])
    /\ UNCHANGED <<pool0, tier0, undefined, listing, caps, jevCache, jevSticky, jhome, jturns, relists>>

\* The decision arrives; it is cached, a harmful verdict as well.
JevAnswers(r, a) ==
    LET q == jreq[r]
        reason == IF Security /\ a.harm THEN "blocked"
                  ELSE IF a.choice \in ToSet(Ids(q.pool)) THEN "jev" ELSE "unknown-choice"
        entry == [choice |-> a.choice, confidence |-> a.confidence, reason |-> reason, left |-> CacheTTL]
    IN  /\ q.pc = "asking"
        /\ jevCache' = IF CacheTTL > 0 THEN Put(jevCache, CacheKey(q), entry) ELSE jevCache
        /\ JStep(r, [q EXCEPT !.pc = IF reason = "blocked" THEN "routed" ELSE "settle",
                              !.choice = a.choice, !.confidence = a.confidence, !.reason = reason])
        /\ UNCHANGED <<pool0, tier0, undefined, listing, caps, jevSticky, jhome, jturns, relists>>

\* The clamps, and the pin for the conversation's tool turns.
Settle(r) ==
    LET q == jreq[r]
        i == SelectInSeq(q.pool, LAMBDA c : c.id = q.choice)
        first == Clamped(q.pool, i, q.confidence, q.reason, q.turn.large)
        conv == q.turn.conv
        new == q.pool[first].id
    IN  /\ q.pc = "settle"
        /\ jevSticky' = IF conv = "" THEN jevSticky
                        ELSE Put(jevSticky, conv, [choice |-> new, left |-> JevStickyTTL])
        /\ jhome' = IF conv = "" THEN jhome
                    ELSE [k \in DOMAIN jhome \cup {conv} |-> IF k = conv THEN [choice |-> new, left |-> JevStickyTTL] ELSE jhome[k]]
        /\ JStep(r, [q EXCEPT !.pc = "order", !.first = first])
        /\ UNCHANGED <<pool0, tier0, undefined, listing, caps, jevCache, jturns, relists>>

\* Mutant of Order: the chain ends at the first undefined server.
Order_StopsAtGap(r) ==
    LET q == jreq[r]
        chain == Listed(q.pool, FallbackOrder(q.pool, q.first))
        gap == SelectInSeq(chain, LAMBDA c : c.server \in undefined)
    IN  /\ q.pc = "order"
        /\ JStep(r, [q EXCEPT !.pc = "routed", !.attempts = IF gap = 0 THEN chain ELSE SubSeq(chain, 1, gap - 1)])
        /\ UNCHANGED <<pool0, tier0, undefined, listing, caps, jevCache, jevSticky, jhome, jturns, relists>>

\* The attempts: the pool in fallback order without the undefined servers.
Order(r) ==
    LET q == jreq[r]
        chain == Listed(q.pool, FallbackOrder(q.pool, q.first))
    IN  /\ q.pc = "order"
        /\ JStep(r, [q EXCEPT !.pc = "routed", !.attempts = Keep(chain, {k \in DOMAIN chain : chain[k].server \notin undefined})])
        /\ UNCHANGED <<pool0, tier0, undefined, listing, caps, jevCache, jevSticky, jhome, jturns, relists>>

JevDone(r) ==
    /\ jreq[r].pc = "routed"
    /\ JStep(r, Waiting)
    /\ UNCHANGED <<pool0, tier0, undefined, listing, caps, jevCache, jevSticky, jhome, jturns, relists>>

\* A backend reports something else from now on (another model was loaded).
Relists(s, said) ==
    /\ relists < MaxListings /\ relists' = relists + 1 /\ listing[s] # said
    /\ listing' = [listing EXCEPT ![s] = said]
    /\ UNCHANGED <<pool0, tier0, undefined, caps, jevCache, jevSticky, jreq, jhome, jturns>>

\* A reload leaves the rule without one of the servers it names.
Undefine(s) ==
    /\ relists < MaxListings /\ relists' = relists + 1 /\ s \notin undefined
    /\ undefined' = undefined \cup {s}
    /\ UNCHANGED <<pool0, tier0, listing, caps, jevCache, jevSticky, jreq, jhome, jturns>>

-----------------------------------------------------------------------------

\* Time passes: every entry is nearer its expiry.
Aged(map) == [k \in DOMAIN map |-> [map[k] EXCEPT !.left = IF @ < 0 THEN @ ELSE @ - 1]]

JevTick ==
    /\ caps' = [s \in DOMAIN caps |-> IF caps[s].left > 1 THEN [caps[s] EXCEPT !.left = @ - 1]
                                       ELSE [said |-> "silent", left |-> 0]]
    /\ jevCache' = Aged(jevCache) /\ jevSticky' = Aged(jevSticky) /\ jhome' = Aged(jhome)
    /\ UNCHANGED <<pool0, tier0, undefined, listing, jreq, jturns, relists>>

JevInit ==
    /\ pool0 \in Pools /\ tier0 \in DefaultTiers /\ undefined = {}
    /\ listing = [s \in CandidateServers |-> "silent"]
    /\ caps = [s \in CandidateServers |-> [said |-> "silent", left |-> 0]]
    /\ jevCache = <<>> /\ jevSticky = <<>> /\ jhome = <<>>
    /\ jreq = [r \in JevRequest |-> Waiting]
    /\ jturns = 0 /\ relists = 0

JevHandle(r) ==
    \/ AskCaps(r) \/ \E said \in Listings : ProbeReturns(r, said)
    \/ Decide(r) \/ AskFails(r) \/ \E a \in Answers : JevAnswers(r, a)
    \/ Settle(r) \/ Order(r)

JevNext ==
    \/ \E r \in JevRequest : JevHandle(r) \/ JevDone(r) \/ \E t \in Turns : JevArrives(r, t)
    \/ \E s \in CandidateServers : Observe(s) \/ \E said \in Listings : Relists(s, said)
    \/ \E s \in CandidateServers \cup {"decider"} : Undefine(s)
    \/ JevTick

-----------------------------------------------------------------------------

\* Pools in use are not empty, capabilities age within their lifetime, and no
\* request without a conversation is pinned.
JevTypeOK ==
    /\ \A r \in JevRequest : jreq[r].pc \in {"settle", "order"} => jreq[r].pool # <<>>
    /\ \A s \in CandidateServers : caps[s].said \in Listings /\ caps[s].left \in 0 .. CapsTTL
    /\ "" \notin DOMAIN jevSticky

Routed(r) == jreq[r].pc = "routed" /\ jreq[r].reason # "blocked"

\* jevAttempts: "routing must never block a request".  Whatever the probes, the
\* cache and the decision model answer, a request that is not refused by the
\* gate gets every candidate of a non-empty filtered pool that the
\* configuration still defines, and none twice unless the rule has it twice.
JevFailsOpen ==
    \A r \in JevRequest : Routed(r) =>
        /\ jreq[r].pool # <<>>
        /\ IsInjective(jreq[r].pool) => IsInjective(jreq[r].attempts)
        /\ \A c \in ToSet(jreq[r].pool) : c \in ToSet(jreq[r].attempts) \/ c.server \in undefined

\* "A fallback steps up rather than down": after the chosen candidate no
\* stronger one is tried behind a weaker one, and each step up is the smallest.
FallbackStepsUp ==
    \A r \in JevRequest : Routed(r) =>
        LET a == jreq[r].attempts
            top == jreq[r].pool[jreq[r].first].tier
        IN  \A i, j \in 1 .. Len(a) : i < j /\ a[i].id # jreq[r].pool[jreq[r].first].id =>
                /\ a[j].tier > top => a[i].tier > top /\ a[i].tier <= a[j].tier
                /\ a[i].tier <= top => a[j].tier <= a[i].tier

\* "Never step down to a weaker model" on a guess: a candidate below the default
\* tier is only tried first on a confident or a pinned decision and a small
\* conversation; an unsure decision goes at most one tier above it, from the
\* cache as from the model.
NoRiskyStep ==
    \A r \in JevRequest : jreq[r].pc \in {"order", "routed"} /\ jreq[r].reason # "blocked" =>
        LET q == jreq[r]
            def == q.pool[jevTierIndex(q.pool, tier0)].tier
            t == q.pool[q.first].tier
        IN  /\ t < def => ~q.turn.large /\ (q.reason = "sticky" \/ q.confidence >= MinConfidence)
            /\ q.reason \in {"jev", "cache"} /\ q.confidence < MinConfidence => t <= def + 1

\* A tool turn keeps the model its conversation was last settled on, for as long
\* as the pin lives and the candidate is in the pool, however many other
\* conversations pass through the bounded store ("so the loop keeps its decided
\* model").
LoopKeepsModel ==
    \A r \in JevRequest :
        jreq[r].pc = "order" /\ jreq[r].due \in ToSet(Ids(jreq[r].pool)) /\ ~jreq[r].turn.large
            => jreq[r].pool[jreq[r].first].id = jreq[r].due

=============================================================================
