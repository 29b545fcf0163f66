----------------------------- MODULE EdgeProofs -----------------------------
(***************************************************************************)
(* The inbound limiter's sweep is free, a reload is followed by the whole  *)
(* edge, and alerts tell the truth: for every number of clients and        *)
(* connections, every rate, burst and sweep threshold, and any number of   *)
(* reloads and edge events.                                                *)
(***************************************************************************)
EXTENDS Edge, TLAPS

\* What the bucket of a client holds now, kept or forgotten.
Level(l, k) == IF k \in DOMAIN l.keys THEN Refilled(l, l.keys[k]) ELSE l.burst

\* A limiter as NewInboundLimiter builds it and Allow keeps it.
Bucket == [tokens : Nat, idle : Nat]
LimiterOK(l) ==
    /\ l \in [rate : Nat \ {0}, perIP : BOOLEAN, keys : {l.keys}, burst : Nat]
    /\ DOMAIN l.keys \subseteq Keys
    /\ l.keys \in [DOMAIN l.keys -> Bucket]
    /\ \A k \in DOMAIN l.keys : l.keys[k].tokens <= l.burst /\ l.keys[k].idle <= IdleCap(l)

-----------------------------------------------------------------------------
(* Lemmas about the token bucket.                                          *)

\* The smaller of two numbers, as Refilled and the idle count take it.
LEMMA MinOfTwo ==
    ASSUME NEW a \in Int, NEW b \in Int
    PROVE  Min({a, b}) = IF a <= b THEN a ELSE b
BY DEF Min

\* The idle count is capped where two full refills have passed.
LEMMA CapIsFull ==
    ASSUME NEW r \in Nat \ {0}, NEW b \in Nat
    PROVE  LET c == (2 * b) \div r + 1 IN c \in Nat \ {0} /\ c * r > 2 * b
BY Z3


\* A bucket holds between nothing and the burst.
LEMMA LevelBounded ==
    ASSUME NEW l, LimiterOK(l), NEW k
    PROVE  Level(l, k) \in 0 .. l.burst
<1>1. CASE k \in DOMAIN l.keys
  <2> DEFINE b == l.keys[k]
             t == b.tokens + b.idle * l.rate
  <2>1. b.tokens \in Nat /\ b.idle \in Nat /\ l.rate \in Nat /\ l.burst \in Nat
    BY <1>1 DEF LimiterOK, Bucket
  <2>2. t \in Nat
    BY <2>1
  <2>3. Level(l, k) = Min({t, l.burst})
    BY <1>1 DEF Level, Refilled
  <2> HIDE DEF t
  <2> QED BY <2>1, <2>2, <2>3, MinOfTwo
<1>2. CASE k \notin DOMAIN l.keys
  BY <1>2 DEF Level, LimiterOK
<1> QED BY <1>1, <1>2

\* A bucket that was idle for two refills is full: what sweepLocked drops, and
\* what the cap of the idle count cannot tell from a longer rest.
LEMMA LongIdleIsFull ==
    ASSUME NEW t \in Nat, NEW idle \in Nat, NEW r \in Nat, NEW b \in Nat, idle * r > 2 * b
    PROVE  Min({t + idle * r, b}) = b
<1>1. t + idle * r \in Nat /\ idle * r \in Nat
  OBVIOUS
<1>2. t + idle * r > b
  BY <1>1
<1> QED BY <1>1, <1>2, MinOfTwo

\* Refilling in two steps is refilling at once, burst cap or not.
LEMMA RefillTwice ==
    ASSUME NEW t \in Nat, NEW x \in Nat, NEW r \in Nat, NEW b \in Nat
    PROVE  \A u, v : u = Min({t + x, b}) /\ v = Min({t + (x + r), b}) => v = Min({u + r, b})
<1>1. Min({t + x, b}) = IF t + x <= b THEN t + x ELSE b
  BY MinOfTwo
<1>2. Min({t + (x + r), b}) = IF t + (x + r) <= b THEN t + (x + r) ELSE b
  BY MinOfTwo
<1> DEFINE m == Min({t + x, b})
<1>3. m \in Nat
  BY <1>1
<1>4. Min({m + r, b}) = IF m + r <= b THEN m + r ELSE b
  BY <1>3, MinOfTwo
<1> QED BY <1>1, <1>2, <1>4

\* The limiter after a tick.
Aged(l) ==
    [l EXCEPT !.keys = [k \in DOMAIN l.keys |-> [l.keys[k] EXCEPT !.idle = Min({@ + 1, IdleCap(l)})]]]

\* A tick refills every bucket by the rate, up to the burst, whether its key is
\* kept, capped or unknown.
LEMMA TickRefills ==
    ASSUME NEW l, LimiterOK(l)
    PROVE  /\ LimiterOK(Aged(l))
           /\ Aged(l).rate = l.rate /\ Aged(l).perIP = l.perIP /\ Aged(l).burst = l.burst
           /\ \A k \in Keys : Level(Aged(l), k) = Min({Level(l, k) + l.rate, l.burst})
<1> DEFINE a == Aged(l)
           cap == IdleCap(l)
           D == DOMAIN l.keys
           idle(k) == IF l.keys[k].idle + 1 <= cap THEN l.keys[k].idle + 1 ELSE cap
           aged == [k \in D |-> [l.keys[k] EXCEPT !.idle = Min({@ + 1, cap})]]
<1>1. l.rate \in Nat \ {0} /\ l.burst \in Nat /\ l.perIP \in BOOLEAN /\ cap \in Nat \ {0}
  BY CapIsFull DEF LimiterOK, IdleCap
<1>2. cap * l.rate > 2 * l.burst
  BY CapIsFull DEF LimiterOK, IdleCap
<1>3. /\ l.keys \in [D -> Bucket] /\ D \subseteq Keys
      /\ \A k \in D : l.keys[k].tokens <= l.burst /\ l.keys[k].idle <= cap
  BY DEF LimiterOK
<1> HIDE DEF cap
<1>4. a = [l EXCEPT !.keys = aged]
  BY DEF Aged, cap
<1> HIDE DEF D
<1>5. ASSUME NEW k \in D
      PROVE  aged[k] \in Bucket /\ aged[k].tokens = l.keys[k].tokens /\ aged[k].idle = idle(k)
  <2>1. l.keys[k] \in Bucket
    BY <1>3
  <2>2. Min({l.keys[k].idle + 1, cap}) = idle(k) /\ idle(k) \in Nat
    BY <1>1, <2>1, MinOfTwo DEF Bucket
  <2>3. aged[k] = [l.keys[k] EXCEPT !.idle = idle(k)]
    BY <2>2
  <2> HIDE DEF idle
  <2> QED BY <2>1, <2>2, <2>3 DEF Bucket
<1>6. DOMAIN aged = D /\ aged \in [D -> Bucket]
  BY <1>5
<1> HIDE DEF aged
<1>7. /\ a.rate = l.rate /\ a.perIP = l.perIP /\ a.burst = l.burst /\ a.keys = aged
      /\ a \in [rate : Nat \ {0}, perIP : BOOLEAN, keys : {a.keys}, burst : Nat]
  BY <1>4 DEF LimiterOK
<1>8. IdleCap(a) = cap
  BY <1>7 DEF IdleCap, cap
<1> HIDE DEF a
<1>9. LimiterOK(a)
  <2>1. \A k \in D : aged[k].tokens <= l.burst /\ aged[k].idle <= cap
    BY <1>1, <1>3, <1>5 DEF Bucket
  <2> QED BY <1>3, <1>6, <1>7, <1>8, <2>1 DEF LimiterOK
<1>10. ASSUME NEW k \in Keys
       PROVE  Level(a, k) = Min({Level(l, k) + l.rate, l.burst})
  <2>1. CASE k \notin D
    <3>1. Level(a, k) = l.burst /\ Level(l, k) = l.burst
      BY <1>6, <1>7, <2>1 DEF Level, D
    <3> QED BY <1>1, <3>1, MinOfTwo
  <2>2. CASE k \in D
    <3> DEFINE t == l.keys[k].tokens
               i == l.keys[k].idle
               x == i * l.rate
               y == (i + 1) * l.rate
    <3>1. t \in Nat /\ i \in Nat /\ i <= cap
      BY <1>3, <2>2 DEF Bucket
    <3>2. x \in Nat /\ y = x + l.rate
      BY <1>1, <3>1
    <3>3. Level(l, k) = Min({t + x, l.burst})
      BY <2>2 DEF Level, Refilled, D
    <3>4. Level(a, k) = Min({t + idle(k) * l.rate, l.burst})
      BY <1>5, <1>6, <1>7, <2>2 DEF Level, Refilled
    <3>5. CASE i + 1 <= cap
      <4>1. Level(a, k) = Min({t + y, l.burst})
        BY <3>4, <3>5
      <4> HIDE DEF x, y, t
      <4>2. Level(a, k) = Min({t + (x + l.rate), l.burst})
        BY <3>2, <4>1
      <4>3. l.rate \in Nat /\ l.burst \in Nat
        BY <1>1
      <4> HIDE DEF i
      <4> QED BY <3>1, <3>2, <3>3, <4>2, <4>3, RefillTwice
    <3>6. CASE ~(i + 1 <= cap)
      <4>1. i = cap /\ idle(k) = cap
        BY <1>1, <3>1, <3>6
      <4>2. Level(a, k) = Min({t + cap * l.rate, l.burst}) /\ Level(l, k) = Min({t + cap * l.rate, l.burst})
        BY <3>3, <3>4, <4>1
      <4>3. Min({t + cap * l.rate, l.burst}) = l.burst
        BY <1>1, <1>2, <3>1, LongIdleIsFull
      <4>4. Min({l.burst + l.rate, l.burst}) = l.burst
        BY <1>1, MinOfTwo
      <4>5. Level(a, k) = l.burst /\ Level(l, k) = l.burst
        BY <4>2, <4>3
      <4> QED BY <4>4, <4>5
    <3> QED BY <3>5, <3>6
  <2> QED BY <2>1, <2>2
<1> QED BY <1>7, <1>9, <1>10 DEF a


\* Allow spends a token of the caller's bucket when it has one, and no other
\* bucket notices: neither the new key nor the sweep it may cause changes what
\* any client has left.
LEMMA AllowSpends ==
    ASSUME NEW l, LimiterOK(l), NEW key \in Keys
    PROVE  LET got == Allow(l, key) IN
           /\ LimiterOK(got.l)
           /\ got.l.rate = l.rate /\ got.l.perIP = l.perIP /\ got.l.burst = l.burst
           /\ got.ok = (Level(l, key) >= Unit)
           /\ Level(got.l, key) = IF got.ok THEN Level(l, key) - Unit ELSE Level(l, key)
           /\ \A k \in Keys \ {key} : Level(got.l, k) = Level(l, k)
<1> DEFINE w == WithKey(l, key)
           D == DOMAIN w.keys
           cap == IdleCap(l)
<1>1. l.rate \in Nat \ {0} /\ l.burst \in Nat /\ cap \in Nat /\ Unit \in Nat \ {0}
  BY CapIsFull, EdgeAssumption DEF LimiterOK, IdleCap
<1>2. /\ LimiterOK(w) /\ key \in D
      /\ w.rate = l.rate /\ w.perIP = l.perIP /\ w.burst = l.burst
      /\ \A k \in Keys : Level(w, k) = Level(l, k)
  <2>1. CASE key \in DOMAIN l.keys
    BY <2>1 DEF WithKey
  <2>2. CASE key \notin DOMAIN l.keys
    <3> DEFINE stay == IF Cardinality(DOMAIN l.keys) >= InboundSweepAt
                       THEN sweepLocked(l) ELSE DOMAIN l.keys
               new == [tokens |-> l.burst, idle |-> 0]
               keys == [k \in stay \cup {key} |-> IF k = key THEN new ELSE l.keys[k]]
    <3>1. w = [l EXCEPT !.keys = keys]
      BY <2>2 DEF WithKey
    <3>2. stay \subseteq DOMAIN l.keys
      BY DEF sweepLocked
    <3>3. ASSUME NEW k \in DOMAIN l.keys, k \notin stay
          PROVE  Level(l, k) = l.burst
      <4> DEFINE t == l.keys[k].tokens
                 i == l.keys[k].idle
      <4>1. i * l.rate > 2 * l.burst /\ t \in Nat /\ i \in Nat
        BY <1>1, <3>3 DEF sweepLocked, LimiterOK, Bucket
      <4>2. Min({t + i * l.rate, l.burst}) = l.burst
        BY <1>1, <4>1, LongIdleIsFull
      <4> QED BY <4>2 DEF Level, Refilled
    <3> HIDE DEF stay
    <3>4. new \in Bucket /\ new.tokens = l.burst /\ new.idle = 0
      BY <1>1 DEF Bucket
    <3> HIDE DEF new
    <3>5. /\ DOMAIN keys = stay \cup {key} /\ keys[key] = new
          /\ \A k \in stay : keys[k] = l.keys[k]
      BY <2>2, <3>2
    <3>6. keys \in [stay \cup {key} -> Bucket]
      BY <2>2, <3>2, <3>4 DEF LimiterOK
    <3> HIDE DEF keys
    <3>7. /\ w.rate = l.rate /\ w.perIP = l.perIP /\ w.burst = l.burst /\ w.keys = keys
          /\ w \in [rate : Nat \ {0}, perIP : BOOLEAN, keys : {w.keys}, burst : Nat]
      BY <3>1 DEF LimiterOK
    <3>8. IdleCap(w) = cap
      BY <3>7 DEF IdleCap
    <3> HIDE DEF w, cap
    <3>9. \A k \in DOMAIN w.keys : w.keys[k].tokens <= w.burst /\ w.keys[k].idle <= cap
      BY <1>1, <3>2, <3>4, <3>5, <3>7 DEF LimiterOK, cap
    <3>10. LimiterOK(w)
      BY <3>2, <3>5, <3>6, <3>7, <3>8, <3>9 DEF LimiterOK
    <3>11. ASSUME NEW k \in Keys PROVE Level(w, k) = Level(l, k)
      <4>1. CASE k \in stay
        BY <3>2, <3>5, <3>7, <4>1 DEF Level, Refilled
      <4>2. CASE k = key
        <5>1. Level(w, k) = Min({l.burst + 0 * l.rate, l.burst})
          BY <3>4, <3>5, <3>7, <4>2 DEF Level, Refilled
        <5>2. l.burst + 0 * l.rate = l.burst
          BY <1>1
        <5>3. Level(w, k) = l.burst
          BY <1>1, <5>1, <5>2, MinOfTwo
        <5> QED BY <2>2, <4>2, <5>3 DEF Level
      <4>3. CASE k \notin stay \cup {key}
        <5>1. Level(w, k) = l.burst
          BY <3>5, <3>7, <4>3 DEF Level
        <5>2. Level(l, k) = l.burst
          BY <3>3, <4>3 DEF Level
        <5> QED BY <5>1, <5>2
      <4> QED BY <4>1, <4>2, <4>3
    <3> QED BY <3>5, <3>7, <3>10, <3>11
  <2> QED BY <2>1, <2>2
<1> HIDE DEF w, cap
<1> DEFINE tokens == Refilled(w, w.keys[key])
           ok == tokens >= Unit
           left == [tokens |-> IF ok THEN tokens - Unit ELSE tokens, idle |-> 0]
           g == [w EXCEPT !.keys[key] = left]
<1>3. Allow(l, key) = [ok |-> ok, l |-> g]
  BY DEF Allow, w
<1>4. tokens = Level(l, key) /\ tokens \in 0 .. l.burst
  BY <1>2, LevelBounded DEF Level
<1> HIDE DEF tokens
<1>5. left \in Bucket /\ left.tokens \in 0 .. l.burst /\ left.idle = 0
  BY <1>1, <1>4 DEF Bucket
<1>6. left.tokens = IF ok THEN Level(l, key) - Unit ELSE Level(l, key)
  BY <1>4
<1> HIDE DEF left
<1> DEFINE keys == [w.keys EXCEPT ![key] = left]
<1>7. g = [w EXCEPT !.keys = keys]
  BY <1>2 DEF LimiterOK
<1>8. /\ keys \in [D -> Bucket] /\ DOMAIN keys = D /\ keys[key] = left
      /\ \A k \in D \ {key} : keys[k] = w.keys[k]
  BY <1>2, <1>5 DEF LimiterOK
<1> HIDE DEF keys
<1>9. /\ g.rate = l.rate /\ g.perIP = l.perIP /\ g.burst = l.burst /\ g.keys = keys
      /\ g \in [rate : Nat \ {0}, perIP : BOOLEAN, keys : {g.keys}, burst : Nat]
  BY <1>2, <1>7 DEF LimiterOK
<1>10. IdleCap(g) = cap /\ IdleCap(w) = cap
  BY <1>2, <1>9 DEF IdleCap, cap
<1> HIDE DEF g
<1>11. LimiterOK(g)
  <2>1. \A k \in D : keys[k].tokens <= l.burst /\ keys[k].idle <= cap
    BY <1>1, <1>2, <1>5, <1>8, <1>10 DEF LimiterOK
  <2> QED BY <1>2, <1>8, <1>9, <1>10, <2>1 DEF LimiterOK
<1>12. Level(g, key) = IF ok THEN Level(l, key) - Unit ELSE Level(l, key)
  <2>1. Level(g, key) = Min({left.tokens + 0 * l.rate, l.burst})
    BY <1>2, <1>5, <1>8, <1>9 DEF Level, Refilled
  <2>2. left.tokens + 0 * l.rate = left.tokens /\ left.tokens \in Int /\ left.tokens <= l.burst
    BY <1>1, <1>5
  <2>3. Level(g, key) = left.tokens
    BY <1>1, <2>1, <2>2, MinOfTwo
  <2> QED BY <1>6, <2>3
<1>13. ASSUME NEW k \in Keys \ {key} PROVE Level(g, k) = Level(l, k)
  BY <1>2, <1>8, <1>9 DEF Level, Refilled
<1> DEFINE got == Allow(l, key)
<1>14. got.ok = ok /\ got.l = g
  BY <1>3
<1> HIDE DEF got
<1>15. ok = (Level(l, key) >= Unit)
  BY <1>4
<1> QED BY <1>9, <1>11, <1>12, <1>13, <1>14, <1>15 DEF got


-----------------------------------------------------------------------------
(* The inductive invariant.                                                *)

KeyMaps == UNION {[D -> Bucket] : D \in SUBSET Keys}
Limiters == {l \in [rate : Nat \ {0}, perIP : BOOLEAN, keys : KeyMaps, burst : Nat] : LimiterOK(l)}

\* The CORS settings a chain can hold.
Policies == {s.cors : s \in Settings} \cup {"off"}

\* Where a request can be.
Places == [pc : {"outside", "chain", "inner", "answered", "denied"},
           visit : Visits \cup {Outside.visit},
           chain : [cors : Policies, limiter : 0 .. Len(limiters)]]

\* Every limiter is one, and has its ghost; a request and a reload under way
\* name limiters that were built.
EdgeTyped ==
    /\ settings \in Settings
    /\ limiters \in Seq(Limiters)
    /\ ideal \in Seq([Keys -> Nat]) /\ Len(ideal) = Len(limiters)
    /\ chain \in [cors : Policies, limiter : 0 .. Len(limiters)]
    /\ field \in 0 .. Len(limiters)
    /\ rebuild \in [pc : {"idle", "field", "chain", "runtime"}, s : Settings,
                    limiter : 0 .. Len(limiters)]
    /\ at \in [Request -> Places]
    /\ \A q \in Request : at[q].pc # "outside" => at[q].visit \in Visits

\* Limiter i is what the settings s ask for; 0 stands for none.
Built(i, s) ==
    /\ (i = 0) <=> (s.rate = 0)
    /\ i > 0 => limiters[i].rate = s.rate /\ limiters[i].perIP = s.perIP

\* How far a reload has come: the field, then the chain, then the alerter.
Followed ==
    /\ rebuild.pc # "idle" => rebuild.s = settings
    /\ rebuild.pc = "chain" => rebuild.limiter = field /\ Built(field, settings)
    /\ rebuild.pc \in {"runtime", "idle"} => /\ chain.cors = settings.cors
                                             /\ Built(chain.limiter, settings)
    /\ rebuild.pc = "idle" => alerting = settings.webhook
    /\ rebuild.pc # "chain" => field = chain.limiter

\* The levels of the limiters are those of the buckets never forgotten.
Levelled == \A i \in 1 .. Len(limiters) : \A k \in Keys : ideal[i][k] = Level(limiters[i], k)

EdgeInv == EdgeTyped /\ Followed /\ Levelled

\* A function over the first n numbers is a sequence of length n.
LEMMA FunIsSeq ==
    ASSUME NEW S, NEW n \in Nat, NEW f \in [1 .. n -> S]
    PROVE  f \in Seq(S) /\ Len(f) = n /\ DOMAIN f = 1 .. n
OBVIOUS

\* The domain of a sequence.
LEMMA SeqDomain ==
    ASSUME NEW S, NEW f \in Seq(S)
    PROVE  DOMAIN f = 1 .. Len(f) /\ Len(f) \in Nat /\ \A i \in 1 .. Len(f) : f[i] \in S
OBVIOUS

\* A well-formed limiter is in the set of limiters, and nothing else is.
LEMMA LimiterSet == \A l : l \in Limiters <=> LimiterOK(l)
<1> SUFFICES ASSUME NEW l, LimiterOK(l)
             PROVE  l \in [rate : Nat \ {0}, perIP : BOOLEAN, keys : KeyMaps, burst : Nat]
  BY DEF Limiters
<1>1. l.keys \in KeyMaps
  BY DEF LimiterOK, KeyMaps
<1> QED BY <1>1 DEF LimiterOK

\* NewInboundLimiter builds a limiter without a bucket; every level is the burst.
LEMMA NewLimiter ==
    ASSUME NEW s \in Settings, s.rate > 0
    PROVE  LET l == NewInboundLimiter(s) IN
           /\ LimiterOK(l) /\ l.rate = s.rate /\ l.perIP = s.perIP
           /\ \A k \in Keys : Level(l, k) = l.burst
<1> DEFINE burst == Unit * IF s.burst < 1 THEN (s.rate + Unit - 1) \div Unit ELSE s.burst
           l == NewInboundLimiter(s)
<1>1. s.rate \in Nat \ {0} /\ s.burst \in Nat /\ s.perIP \in BOOLEAN /\ Unit \in Nat \ {0}
  BY EdgeAssumption
<1>2. burst \in Nat
  <2>1. (s.rate + Unit - 1) \div Unit \in Nat
    BY <1>1
  <2> DEFINE n == IF s.burst < 1 THEN (s.rate + Unit - 1) \div Unit ELSE s.burst
  <2>2. n \in Nat
    BY <1>1, <2>1
  <2> HIDE DEF n
  <2>3. Unit * n \in Nat
    BY <1>1, <2>2
  <2> QED BY <2>3 DEF n
<1> HIDE DEF burst
<1>3. l = [rate |-> s.rate, perIP |-> s.perIP, keys |-> <<>>, burst |-> burst]
  BY DEF NewInboundLimiter, burst
<1>4. /\ l.rate = s.rate /\ l.perIP = s.perIP /\ l.burst = burst
      /\ l.keys = <<>> /\ DOMAIN l.keys = {} /\ l.keys \in [{} -> Bucket]
  BY <1>3
<1>5. l \in [rate : Nat \ {0}, perIP : BOOLEAN, keys : {l.keys}, burst : Nat]
  BY <1>1, <1>2, <1>3
<1> HIDE DEF l
<1>6. LimiterOK(l)
  BY <1>4, <1>5 DEF LimiterOK
<1> QED BY <1>4, <1>6 DEF Level, l

-----------------------------------------------------------------------------
(* Every step keeps the invariant.                                         *)

\* Outside is such a place.
LEMMA OutsideIsOne == Len(limiters) \in Nat => Outside \in Places /\ Outside.pc = "outside"
<1> DEFINE v == CHOOSE v \in Visits : TRUE
           c == [cors |-> "off", limiter |-> 0]
<1>1. Outside = [pc |-> "outside", visit |-> v, chain |-> c]
  BY DEF Outside
<1> HIDE DEF v
<1>2. Len(limiters) \in Nat => c \in [cors : Policies, limiter : 0 .. Len(limiters)]
  BY DEF Policies
<1> HIDE DEF c
<1> QED BY <1>1, <1>2 DEF Places

\* Startup builds the edge the settings ask for.
LEMMA EdgeStarts == EdgeInit => EdgeInv
<1> SUFFICES ASSUME EdgeInit PROVE EdgeInv
  OBVIOUS
<1> DEFINE l == NewInboundLimiter(settings)
<1>1. /\ settings \in Settings /\ alerting = settings.webhook
      /\ settings.rate \in Nat /\ settings.cors \in Policies
  BY EdgeAssumption DEF EdgeInit, Policies
<1>2. NoRebuild \in [pc : {"idle"}, s : Settings, limiter : {0}]
  BY <1>1 DEF NoRebuild
<1>3. limiters \in Seq(Limiters) /\ Len(limiters) = IF settings.rate > 0 THEN 1 ELSE 0
  <2>1. CASE settings.rate > 0
    <3>1. l \in Limiters
      BY <1>1, <2>1, NewLimiter, LimiterSet
    <3>2. limiters = <<l>>
      BY <2>1 DEF EdgeInit
    <3> HIDE DEF l
    <3> QED BY <2>1, <3>1, <3>2
  <2>2. CASE ~(settings.rate > 0)
    BY <2>2 DEF EdgeInit
  <2> QED BY <2>1, <2>2
<1>4. \A i \in 1 .. Len(limiters) : i = 1 /\ limiters[i] = l /\ settings.rate > 0
  BY <1>1, <1>3 DEF EdgeInit
<1>5. DOMAIN limiters = 1 .. Len(limiters)
  BY <1>3, SeqDomain
<1>6. \A i \in 1 .. Len(limiters) : /\ LimiterOK(limiters[i]) /\ limiters[i].burst \in Nat
                                    /\ limiters[i].rate = settings.rate
                                    /\ limiters[i].perIP = settings.perIP
                                    /\ \A k \in Keys : Level(limiters[i], k) = limiters[i].burst
  <2>1. \A x : LimiterOK(x) => x.burst \in Nat
    BY DEF LimiterOK
  <2> QED BY <1>1, <1>4, <2>1, NewLimiter
<1> HIDE DEF l
<1>7. /\ ideal \in Seq([Keys -> Nat]) /\ Len(ideal) = Len(limiters)
      /\ \A i \in 1 .. Len(limiters) : \A k \in Keys : ideal[i][k] = limiters[i].burst
  <2>1. ideal = [i \in 1 .. Len(limiters) |-> [k \in Keys |-> limiters[i].burst]]
    BY <1>5 DEF EdgeInit
  <2>2. ideal \in [1 .. Len(limiters) -> [Keys -> Nat]]
    BY <1>6, <2>1
  <2>3. Len(limiters) \in Nat
    BY <1>3
  <2> QED BY <2>1, <2>2, <2>3, FunIsSeq
<1>8. EdgeTyped
  <2>1. Len(limiters) \in Nat
    BY <1>3
  <2>2. Outside \in Places /\ Outside.pc = "outside"
    BY <2>1, OutsideIsOne
  <2>3. /\ at \in [Request -> Places]
        /\ \A q \in Request : at[q].pc # "outside" => at[q].visit \in Visits
    BY <2>1, <2>2 DEF EdgeInit
  <2>4. /\ chain \in [cors : Policies, limiter : 0 .. Len(limiters)]
        /\ field \in 0 .. Len(limiters)
        /\ rebuild \in [pc : {"idle", "field", "chain", "runtime"}, s : Settings,
                    limiter : 0 .. Len(limiters)]
    BY <1>1, <1>2, <2>1 DEF EdgeInit
  <2> QED BY <1>1, <1>3, <1>7, <2>3, <2>4 DEF EdgeTyped
<1>9. Followed
  <2>1. rebuild.pc = "idle"
    BY DEF EdgeInit, NoRebuild
  <2>2. field = chain.limiter /\ chain.cors = settings.cors /\ chain.limiter = Len(limiters)
    BY DEF EdgeInit
  <2>3. Built(chain.limiter, settings)
    BY <1>1, <1>3, <1>6, <2>2 DEF Built
  <2> QED BY <1>1, <2>1, <2>2, <2>3 DEF Followed
<1>10. Levelled
  BY <1>6, <1>7 DEF Levelled
<1> QED BY <1>8, <1>9, <1>10 DEF EdgeInv

\* What leaves the edge and the alerter's presence alone leaves the invariant alone.
LEMMA EdgeFrame ==
    ASSUME EdgeInv, UNCHANGED edgeVars, alerting' = alerting
    PROVE  EdgeInv'
BY DEF EdgeInv, EdgeTyped, Places, Followed, Built, Levelled, edgeVars

\* A request that enters, or leaves, changes only where it is.
LEMMA EnterStep ==
    ASSUME EdgeInv, NEW q \in Request, (\E v \in Visits : Enter(q, v)) \/ Leave(q)
    PROVE  EdgeInv'
<1>1. PICK a : /\ at' = [at EXCEPT ![q] = a]
               /\ \/ \E v \in Visits : a = [pc |-> "chain", visit |-> v, chain |-> chain]
                  \/ a = Outside
  BY DEF Enter, Leave
<1>2. UNCHANGED <<settings, limiters, ideal, field, chain, rebuild, alerting>>
  BY DEF Enter, Leave, alertVars
<1>3. a \in Places
      /\ (a.pc # "outside" => a.visit \in Visits)
  <2>1. chain \in [cors : Policies, limiter : 0 .. Len(limiters)] /\ Len(limiters) \in Nat
    BY DEF EdgeInv, EdgeTyped
  <2>2. CASE a = Outside
    BY <2>1, <2>2, OutsideIsOne
  <2>3. ASSUME NEW v \in Visits, a = [pc |-> "chain", visit |-> v, chain |-> chain]
        PROVE  a \in Places /\ (a.pc # "outside" => a.visit \in Visits)
    BY <2>1, <2>3 DEF Places
  <2> QED BY <1>1, <2>2, <2>3
<1>4. EdgeTyped'
  BY <1>1, <1>2, <1>3 DEF EdgeInv, EdgeTyped, Places
<1> QED BY <1>2, <1>4 DEF EdgeInv, Followed, Built, Levelled

\* The middleware spends from one bucket of one limiter, and the ghost bucket of
\* that client pays the same.
LEMMA MiddlewareStep ==
    ASSUME EdgeInv, NEW q \in Request, Middleware(q)
    PROVE  EdgeInv'
<1> DEFINE a == at[q]
           i == a.chain.limiter
           key == IF i > 0 /\ limiters[i].perIP THEN a.visit.client ELSE ""
           got == Allow(limiters[i], key)
           answered == a.visit.preflight /\ allowOrigin(a.chain.cors, a.visit.origin)
<1>1. UNCHANGED <<settings, field, chain, rebuild, alerting>> /\ a.pc = "chain"
  BY DEF Middleware, alertVars
<1>2. /\ a \in Places /\ i \in 0 .. Len(limiters) /\ a.visit \in Visits
      /\ Len(limiters) \in Nat /\ DOMAIN limiters = 1 .. Len(limiters)
      /\ at \in [Request -> Places]
  BY <1>1, SeqDomain DEF EdgeInv, EdgeTyped, Places
<1>3. \E pc \in {"answered", "inner", "denied"} : at' = [at EXCEPT ![q].pc = pc]
  BY DEF Middleware
<1>4. Len(limiters') = Len(limiters) => /\ at' \in [Request -> Places']
                                       /\ \A r \in Request : at'[r].pc # "outside" => at'[r].visit \in Visits
  <2>1. PICK pc \in {"answered", "inner", "denied"} : at' = [at EXCEPT ![q].pc = pc]
    BY <1>3
  <2>2. [a EXCEPT !.pc = pc] \in Places /\ [a EXCEPT !.pc = pc].visit = a.visit
    BY <1>2 DEF Places
  <2>3. at' = [at EXCEPT ![q] = [a EXCEPT !.pc = pc]]
    BY <2>1
  <2>4. Len(limiters') = Len(limiters) => Places' = Places
    BY DEF Places
  <2> QED BY <1>2, <2>2, <2>3, <2>4 DEF EdgeInv, EdgeTyped
<1>5. CASE answered \/ i = 0
  <2>1. UNCHANGED <<limiters, ideal>>
    BY <1>5 DEF Middleware
  <2> QED BY <1>1, <1>4, <2>1 DEF EdgeInv, EdgeTyped, Followed, Built, Levelled
<1>6. CASE ~(answered \/ i = 0)
  <2>1. /\ limiters' = [limiters EXCEPT ![i] = got.l]
        /\ ideal' = [ideal EXCEPT ![i][key] = IF got.ok THEN @ - Unit ELSE @]
    BY <1>6 DEF Middleware
  <2>2. i \in 1 .. Len(limiters)
    BY <1>2, <1>6
  <2>3. key \in Keys
    BY <1>2 DEF Keys
  <2> HIDE DEF a, key, answered
  <2>4. LimiterOK(limiters[i])
    BY <2>2, LimiterSet, SeqDomain DEF EdgeInv, EdgeTyped
  <2>5. /\ LimiterOK(got.l)
        /\ got.l.rate = limiters[i].rate /\ got.l.perIP = limiters[i].perIP
        /\ got.ok = (Level(limiters[i], key) >= Unit)
        /\ Level(got.l, key) = IF got.ok THEN Level(limiters[i], key) - Unit ELSE Level(limiters[i], key)
        /\ \A k \in Keys \ {key} : Level(got.l, k) = Level(limiters[i], k)
    BY <2>3, <2>4, AllowSpends
  <2>6. Level(limiters[i], key) \in Nat /\ Level(got.l, key) \in Nat
    <3>1. \A l : LimiterOK(l) => l.burst \in Nat
      BY DEF LimiterOK
    <3> QED BY <2>4, <2>5, <3>1, LevelBounded
  <2> HIDE DEF got, i
  <2>7. limiters \in Seq(Limiters) /\ got.l \in Limiters
    BY <2>5, LimiterSet DEF EdgeInv, EdgeTyped
  <2>8. /\ limiters' \in Seq(Limiters) /\ Len(limiters') = Len(limiters) /\ limiters'[i] = got.l
        /\ \A j \in 1 .. Len(limiters) : j # i => limiters'[j] = limiters[j]
    BY <2>1, <2>2, <2>7
  <2> DEFINE new == IF got.ok THEN ideal[i][key] - Unit ELSE ideal[i][key]
             row == [ideal[i] EXCEPT ![key] = new]
  <2>9. ideal \in Seq([Keys -> Nat]) /\ i \in 1 .. Len(ideal) /\ Len(ideal) = Len(limiters)
        /\ ideal[i] \in [Keys -> Nat]
    BY <2>2, SeqDomain DEF EdgeInv, EdgeTyped
  <2>10. ideal' = [ideal EXCEPT ![i] = row]
    BY <2>1, <2>9, SeqDomain
  <2>11. new = Level(got.l, key) /\ new \in Nat
    <3>1. ideal[i][key] = Level(limiters[i], key)
      BY <2>2, <2>3 DEF EdgeInv, Levelled
    <3> QED BY <2>5, <2>6, <3>1
  <2> HIDE DEF new
  <2>12. row \in [Keys -> Nat] /\ row[key] = new /\ \A k \in Keys \ {key} : row[k] = ideal[i][k]
    BY <2>3, <2>9, <2>11
  <2> HIDE DEF row
  <2>13. /\ ideal' \in Seq([Keys -> Nat]) /\ Len(ideal') = Len(limiters) /\ ideal'[i] = row
         /\ \A j \in 1 .. Len(limiters) : j # i => ideal'[j] = ideal[j]
    BY <2>9, <2>10, <2>12
  <2>14. EdgeTyped'
    BY <1>1, <1>4, <2>8, <2>13 DEF EdgeInv, EdgeTyped
  <2>15. Levelled'
    <3> SUFFICES ASSUME NEW j \in 1 .. Len(limiters), NEW k \in Keys
                 PROVE  ideal'[j][k] = Level(limiters'[j], k)
      BY <2>8 DEF Levelled
    <3>1. ideal[j][k] = Level(limiters[j], k)
      BY DEF EdgeInv, Levelled
    <3> QED BY <2>5, <2>8, <2>11, <2>12, <2>13, <3>1, ZenonT(60)
  <2>16. Followed'
    <3>1. \A j \in 0 .. Len(limiters) : \A s : Built(j, s) => Built(j, s)'
      BY <2>2, <2>5, <2>8, <2>9 DEF Built
    <3>2. {field, chain.limiter} \subseteq 0 .. Len(limiters)
      BY DEF EdgeInv, EdgeTyped
    <3> QED BY <1>1, <3>1, <3>2 DEF EdgeInv, Followed
  <2> QED BY <2>14, <2>15, <2>16 DEF EdgeInv
<1> QED BY <1>5, <1>6

\* A tick refills every kept bucket and every ghost bucket alike.
LEMMA TickStep ==
    ASSUME EdgeInv, EdgeTick
    PROVE  EdgeInv'
<1> DEFINE n == Len(limiters)
<1>1. UNCHANGED <<settings, field, chain, rebuild, at, alerting>>
  BY DEF EdgeTick, AlertTick
<1>2. n \in Nat /\ DOMAIN limiters = 1 .. n /\ DOMAIN ideal = 1 .. n
  BY SeqDomain DEF EdgeInv, EdgeTyped
<1>3. \A i \in 1 .. n : LimiterOK(limiters[i])
  BY SeqDomain, LimiterSet DEF EdgeInv, EdgeTyped
<1>4. /\ limiters' = [i \in 1 .. n |-> Aged(limiters[i])]
      /\ ideal' = [i \in 1 .. n |-> [k \in Keys |-> Min({ideal[i][k] + limiters[i].rate, limiters[i].burst})]]
  BY <1>2 DEF EdgeTick, Aged
<1>5. \A i \in 1 .. n : /\ LimiterOK(Aged(limiters[i]))
                        /\ Aged(limiters[i]).rate = limiters[i].rate
                        /\ Aged(limiters[i]).perIP = limiters[i].perIP
                        /\ \A k \in Keys : Level(Aged(limiters[i]), k)
                                           = Min({ideal[i][k] + limiters[i].rate, limiters[i].burst})
  <2>1. \A i \in 1 .. n : \A k \in Keys : ideal[i][k] = Level(limiters[i], k)
    BY DEF EdgeInv, Levelled
  <2> HIDE DEF n
  <2> QED BY <1>3, <2>1, TickRefills
<1>6. \A i \in 1 .. n : \A k \in Keys : Level(Aged(limiters[i]), k) \in Nat
  <2>1. \A l : LimiterOK(l) => l.burst \in Nat
    BY DEF LimiterOK
  <2> QED BY <1>5, <2>1, LevelBounded
<1>7. limiters' \in Seq(Limiters) /\ Len(limiters') = n
  <2>1. limiters' \in [1 .. n -> Limiters]
    BY <1>4, <1>5, LimiterSet
  <2> QED BY <1>2, <2>1, FunIsSeq
<1>8. ideal' \in Seq([Keys -> Nat]) /\ Len(ideal') = n
  <2>1. ideal' \in [1 .. n -> [Keys -> Nat]]
    BY <1>4, <1>5, <1>6
  <2> QED BY <1>2, <2>1, FunIsSeq
<1>9. EdgeTyped'
  BY <1>1, <1>7, <1>8 DEF EdgeInv, EdgeTyped, Places
<1>10. Levelled'
  BY <1>4, <1>5, <1>7 DEF Levelled
<1>11. Followed'
  <2>1. \A j \in 0 .. n : \A s : Built(j, s) => Built(j, s)'
    BY <1>2, <1>4, <1>5 DEF Built
  <2>2. {field, chain.limiter} \subseteq 0 .. n
    BY DEF EdgeInv, EdgeTyped
  <2> QED BY <1>1, <2>1, <2>2 DEF EdgeInv, Followed
<1> QED BY <1>9, <1>10, <1>11 DEF EdgeInv

\* The four steps of a reload.
LEMMA ReloadStep ==
    ASSUME EdgeInv,
           (\E s \in Settings : Reload(s)) \/ RebuildField \/ RebuildChain \/ ApplyRuntimeSettings
    PROVE  EdgeInv'
<1> DEFINE n == Len(limiters)
<1>1. /\ n \in Nat /\ settings \in Settings /\ rebuild.s \in Settings /\ field \in 0 .. n
      /\ rebuild \in [pc : {"idle", "field", "chain", "runtime"}, s : Settings, limiter : 0 .. n]
      /\ limiters \in Seq(Limiters) /\ ideal \in Seq([Keys -> Nat]) /\ Len(ideal) = n
  BY DEF EdgeInv, EdgeTyped
<1>2. ASSUME NEW s \in Settings, Reload(s) PROVE EdgeInv'
  <2>1. /\ UNCHANGED <<limiters, ideal, field, chain, at, alerting>> /\ rebuild.pc = "idle"
        /\ settings' = s /\ rebuild' = [pc |-> "field", s |-> s, limiter |-> 0]
    BY <1>2 DEF Reload, alertVars
  <2>2. EdgeTyped'
    BY <1>1, <2>1 DEF EdgeInv, EdgeTyped, Places
  <2> QED BY <2>1, <2>2 DEF EdgeInv, Followed, Levelled
<1>3. CASE RebuildField
  <2> DEFINE l == NewInboundLimiter(rebuild.s)
  <2>1. /\ UNCHANGED <<settings, chain, at, alerting>> /\ rebuild.pc = "field"
    BY <1>3 DEF RebuildField, alertVars
  <2>2. rebuild.s = settings /\ settings.rate \in Nat
    BY <1>1, <2>1, EdgeAssumption DEF EdgeInv, Followed
  <2>3. CASE settings.rate > 0
    <3>1. /\ limiters' = Append(limiters, l) /\ ideal' = Append(ideal, [k \in Keys |-> l.burst])
          /\ field' = n + 1 /\ rebuild' = [rebuild EXCEPT !.pc = "chain", !.limiter = n + 1]
      BY <1>3, <2>2, <2>3 DEF RebuildField
    <3>2. /\ LimiterOK(l) /\ l.rate = settings.rate /\ l.perIP = settings.perIP
          /\ \A k \in Keys : Level(l, k) = l.burst
      BY <1>1, <2>2, <2>3, NewLimiter
    <3> HIDE DEF l
    <3>3. l \in Limiters /\ l.burst \in Nat
      BY <3>2, LimiterSet DEF LimiterOK
    <3>4. /\ limiters' \in Seq(Limiters) /\ Len(limiters') = n + 1 /\ limiters'[n + 1] = l
          /\ \A j \in 1 .. n : limiters'[j] = limiters[j]
      BY <1>1, <3>1, <3>3
    <3> DEFINE row == [k \in Keys |-> l.burst]
    <3>5. row \in [Keys -> Nat] /\ \A k \in Keys : row[k] = l.burst
      BY <3>3
    <3> HIDE DEF row
    <3>6. /\ ideal' \in Seq([Keys -> Nat]) /\ Len(ideal') = n + 1 /\ ideal'[n + 1] = row
          /\ \A j \in 1 .. n : ideal'[j] = ideal[j]
      BY <1>1, <3>1, <3>5 DEF row
    <3>7. 0 .. n \subseteq 0 .. n + 1 /\ n + 1 \in 0 .. n + 1 /\ Len(limiters') = n + 1
      BY <1>1, <3>4
    <3>8. EdgeTyped'
      <4>1. chain' \in [cors : Policies, limiter : 0 .. n + 1]
        BY <2>1, <3>7 DEF EdgeInv, EdgeTyped
      <4>2. field' \in 0 .. n + 1
        BY <3>1, <3>7
      <4>3. rebuild' \in [pc : {"idle", "field", "chain", "runtime"}, s : Settings, limiter : 0 .. n + 1]
        BY <1>1, <3>1, <3>7
      <4>4. Places \subseteq Places'
        BY <1>1, <3>7 DEF Places
      <4>5. /\ at' \in [Request -> Places']
            /\ \A r \in Request : at'[r].pc # "outside" => at'[r].visit \in Visits
        BY <2>1, <4>4 DEF EdgeInv, EdgeTyped
      <4> QED BY <1>1, <2>1, <3>4, <3>6, <4>1, <4>2, <4>3, <4>5 DEF EdgeTyped
    <3>9. Followed'
      <4>1. rebuild'.pc = "chain" /\ rebuild'.limiter = field' /\ rebuild'.s = settings'
        BY <1>1, <2>1, <2>2, <3>1
      <4>2. Built(field, settings)'
        BY <1>1, <2>1, <2>3, <3>1, <3>2, <3>4 DEF Built
      <4> QED BY <4>1, <4>2 DEF Followed
    <3>10. Levelled'
      <4> SUFFICES ASSUME NEW j \in 1 .. n + 1, NEW k \in Keys
                   PROVE  ideal'[j][k] = Level(limiters'[j], k)
        BY <3>4 DEF Levelled
      <4>1. CASE j = n + 1
        BY <3>2, <3>4, <3>5, <3>6, <4>1
      <4>2. CASE j \in 1 .. n
        BY <3>4, <3>6, <4>2 DEF EdgeInv, Levelled
      <4> QED BY <1>1, <4>1, <4>2
    <3> QED BY <3>8, <3>9, <3>10 DEF EdgeInv
  <2>4. CASE ~(settings.rate > 0)
    <3>1. /\ UNCHANGED <<limiters, ideal>>
          /\ field' = 0 /\ rebuild' = [rebuild EXCEPT !.pc = "chain", !.limiter = 0]
      BY <1>3, <2>2, <2>4 DEF RebuildField
    <3>2. EdgeTyped'
      <4>1. /\ field' \in 0 .. n
            /\ rebuild' \in [pc : {"idle", "field", "chain", "runtime"}, s : Settings, limiter : 0 .. n]
        <5>1. 0 \in 0 .. n
          BY <1>1
        <5> HIDE DEF n
        <5> QED BY <1>1, <3>1, <5>1
      <4> QED BY <1>1, <2>1, <3>1, <4>1 DEF EdgeInv, EdgeTyped, Places
    <3>3. Followed'
      <4>1. rebuild'.pc = "chain" /\ rebuild'.limiter = field' /\ rebuild'.s = settings'
        BY <1>1, <2>1, <2>2, <3>1
      <4>2. Built(field, settings)'
        BY <2>1, <2>2, <2>4, <3>1 DEF Built
      <4> QED BY <4>1, <4>2 DEF Followed
    <3> QED BY <3>1, <3>2, <3>3 DEF EdgeInv, Levelled
  <2> QED BY <2>3, <2>4
<1>4. CASE RebuildChain
  <2>1. /\ UNCHANGED <<settings, limiters, ideal, field, at, alerting>> /\ rebuild.pc = "chain"
        /\ chain' = [cors |-> rebuild.s.cors, limiter |-> rebuild.limiter]
        /\ rebuild' = [rebuild EXCEPT !.pc = "runtime"]
    BY <1>4 DEF RebuildChain, alertVars
  <2>2. rebuild.s = settings /\ rebuild.limiter = field /\ Built(field, settings)
    BY <2>1 DEF EdgeInv, Followed
  <2>3. rebuild.s.cors \in Policies
    BY <1>1 DEF Policies
  <2>4. EdgeTyped'
    BY <1>1, <2>1, <2>3 DEF EdgeInv, EdgeTyped, Places
  <2>5. rebuild'.pc = "runtime" /\ rebuild'.s = settings /\ chain'.cors = settings.cors /\ chain'.limiter = field
    BY <1>1, <2>1, <2>2
  <2>6. Built(field, settings)'
    BY <2>1, <2>2 DEF Built
  <2>7. Followed'
    BY <2>1, <2>5, <2>6 DEF Followed, Built
  <2> QED BY <2>1, <2>4, <2>7 DEF EdgeInv, Levelled
<1>5. CASE ApplyRuntimeSettings
  <2>1. /\ UNCHANGED <<settings, limiters, ideal, field, chain, at>> /\ rebuild.pc = "runtime"
        /\ rebuild' = NoRebuild /\ alerting' = rebuild.s.webhook
    BY <1>5 DEF ApplyRuntimeSettings, SetAlerter
  <2>2. NoRebuild \in [pc : {"idle"}, s : Settings, limiter : {0}]
    BY <1>1 DEF NoRebuild
  <2>3. EdgeTyped'
    BY <1>1, <2>1, <2>2 DEF EdgeInv, EdgeTyped, Places
  <2>4. Followed'
    BY <2>1, <2>2 DEF EdgeInv, Followed, Built
  <2> QED BY <2>1, <2>3, <2>4 DEF EdgeInv, Levelled
<1> QED BY <1>2, <1>3, <1>4, <1>5

\* Every step of the specification keeps the invariant.
LEMMA EdgeSteps == EdgeInv /\ [EdgeNext]_<<vars, edgeVars, alertVars>> => EdgeInv'
<1> SUFFICES ASSUME EdgeInv, [EdgeNext]_<<vars, edgeVars, alertVars>> PROVE EdgeInv'
  OBVIOUS
<1>1. CASE UNCHANGED <<vars, edgeVars, alertVars>>
  BY <1>1, EdgeFrame DEF alertVars
<1>2. CASE scene = "stop" /\ Process /\ UNCHANGED <<edgeVars, alertVars>>
  BY <1>2, EdgeFrame DEF alertVars
<1>3. ASSUME NEW q \in Request, Middleware(q) \/ Leave(q) \/ \E v \in Visits : Enter(q, v)
      PROVE  EdgeInv'
  BY <1>3, MiddlewareStep, EnterStep
<1>4. CASE (\E s \in Settings : Reload(s)) \/ RebuildField \/ RebuildChain \/ ApplyRuntimeSettings
  BY <1>4, ReloadStep
<1>5. CASE EdgeTick
  BY <1>5, TickStep
<1>6. CASE EdgeEvent /\ UNCHANGED <<vars, edgeVars>>
  BY <1>6, EdgeFrame DEF EdgeEvent
<1>7. CASE (\E x \in pending : Notify(x)) /\ UNCHANGED <<vars, edgeVars>>
  BY <1>7, EdgeFrame DEF Notify
<1> QED BY <1>1, <1>2, <1>3, <1>4, <1>5, <1>6, <1>7 DEF EdgeNext

\* The invariant holds throughout.
THEOREM EdgeInvariant == EdgeSpec => []EdgeInv
BY EdgeStarts, EdgeSteps, PTL DEF EdgeSpec

\* inbound.go, "forgetting them costs nothing": for any clients, rates and sweep
\* threshold, no client's bucket ever holds more or less than one never forgotten.
THEOREM SweepIsFree == EdgeSpec => []SweepCostsNothing
<1>1. EdgeInv => SweepCostsNothing
  BY SeqDomain DEF EdgeInv, EdgeTyped, Levelled, Level, SweepCostsNothing
<1> QED BY <1>1, EdgeInvariant, PTL

\* main.go clientEdge: between reloads, new requests meet the limits and origins
\* the store holds and the alerter is on when it says so, whatever was under way.
THEOREM ReloadFollowed == EdgeSpec => []EdgeFollowsSettings
<1>1. EdgeInv => EdgeFollowsSettings
  BY DEF EdgeInv, Followed, Built, EdgeFollowsSettings
<1> QED BY <1>1, EdgeInvariant, PTL

-----------------------------------------------------------------------------
(* Alerts.                                                                 *)

\* While the backend is steady, either the operator knows its state and nothing
\* is owed, or exactly the notice of its state is owed and will not be dropped.
Owed ==
    ~unsteady => \/ pending = {} /\ told = Text(down)
                 \/ pending = {Text(down)} /\ ~Recent(Text(down))

AlertInv == AlertTypeOK /\ Owed

\* The alerter's own steps keep what is owed.
LEMMA AlertSteps ==
    ASSUME AlertInv,
           \/ EdgeEvent \/ (\E x \in pending : Notify(x)) \/ AlertTick
           \/ SetAlerter(TRUE) \/ SetAlerter(FALSE) \/ UNCHANGED alertVars
    PROVE  AlertInv'
<1>1. DedupWindow \in Nat
  BY EdgeAssumption
<1> DEFINE T == {"down", "back"}
<1>2. /\ down \in BOOLEAN /\ alerting \in BOOLEAN /\ unsteady \in BOOLEAN
      /\ pending \subseteq T /\ told \in T /\ sent \in [T -> 0 .. DedupWindow]
  BY DEF AlertInv, AlertTypeOK
<1>3. CASE EdgeEvent
  BY <1>1, <1>2, <1>3 DEF EdgeEvent, AlertInv, AlertTypeOK, Owed, Text, Recent
<1>4. ASSUME NEW x \in pending, Notify(x) PROVE AlertInv'
  <2>1. AlertTypeOK'
    BY <1>1, <1>2, <1>4 DEF Notify, AlertTypeOK
  <2>2. Owed'
    BY <1>1, <1>2, <1>4 DEF Notify, AlertInv, Owed, Text, Recent
  <2> QED BY <2>1, <2>2 DEF AlertInv
<1>5. CASE AlertTick
  BY <1>1, <1>2, <1>5 DEF AlertTick, AlertInv, AlertTypeOK, Owed, Text, Recent
<1>6. ASSUME NEW on \in BOOLEAN, SetAlerter(on) PROVE AlertInv'
  BY <1>1, <1>2, <1>6 DEF SetAlerter, AlertInv, AlertTypeOK, Owed, Text, Recent
<1>7. CASE UNCHANGED alertVars
  BY <1>7 DEF alertVars, AlertInv, AlertTypeOK, Owed, Text, Recent
<1> QED BY <1>3, <1>4, <1>5, <1>6, <1>7

\* alert.go: the window that drops repeats never hides a change of the backend,
\* for any window, any number of edges and any reload of the alerter.
THEOREM AlertsTruthful == EdgeSpec => []AlertsTellTheState
<1>1. EdgeInit => AlertInv
  <2> SUFFICES ASSUME AlertInit PROVE AlertInv
    BY DEF EdgeInit
  <2>1. sent \in [{"down", "back"} -> 0 .. DedupWindow]
    BY EdgeAssumption DEF AlertInit
  <2>2. AlertTypeOK
    BY <2>1 DEF AlertInit, AlertTypeOK
  <2>3. Owed
    BY DEF AlertInit, Owed, Text
  <2> QED BY <2>2, <2>3 DEF AlertInv
<1>2. EdgeInv /\ AlertInv /\ [EdgeNext]_<<vars, edgeVars, alertVars>> => AlertInv'
  <2> SUFFICES ASSUME EdgeInv, AlertInv, [EdgeNext]_<<vars, edgeVars, alertVars>> PROVE AlertInv'
    OBVIOUS
  <2>1. CASE ApplyRuntimeSettings
    <3>1. rebuild.s.webhook \in BOOLEAN
      BY EdgeAssumption DEF EdgeInv, EdgeTyped
    <3> QED BY <2>1, <3>1, AlertSteps DEF ApplyRuntimeSettings
  <2>2. CASE EdgeTick
    BY <2>2, AlertSteps DEF EdgeTick
  <2>3. CASE EdgeEvent \/ \E x \in pending : Notify(x)
    BY <2>3, AlertSteps
  <2>4. CASE UNCHANGED alertVars
    BY <2>4, AlertSteps
  <2> QED BY <2>1, <2>2, <2>3, <2>4
          DEF EdgeNext, Middleware, Leave, Enter, Reload, RebuildField, RebuildChain
<1>3. AlertInv => AlertsTellTheState
  BY DEF AlertInv, Owed, AlertsTellTheState
<1> QED BY <1>1, <1>2, <1>3, EdgeInvariant, PTL DEF EdgeSpec

=============================================================================
