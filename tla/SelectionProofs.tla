-------------------------- MODULE SelectionProofs --------------------------
(***************************************************************************)
(* Which backends a request is sent to: what the limiter's benches, the    *)
(* balanced pools with their pins and the decision router guarantee, for   *)
(* every set of servers, rules, settings and requests.                     *)
(***************************************************************************)
EXTENDS Select, RateLimiter, FoldTheorems

-----------------------------------------------------------------------------
(* The failure rate limiter.                                               *)

\* The inductive invariant.  BenchBounded needs to know that the duration in
\* force is one the operator configured, and the count of failures that it is
\* a number, which takes finite windows.
LimiterInv ==
    /\ TypeOK
    /\ cooldownDur \in Durations
    /\ \A s \in Server : IsFiniteSet(failures[s])
    /\ ReasonMatches
    /\ BenchBounded

-----------------------------------------------------------------------------

\* clampHint bounds whatever hint a backend sent.
LEMMA ClampBounds ==
    ASSUME NEW hint \in Hints
    PROVE  clampHint(hint) \in Nat /\ clampHint(hint) <= HintMax
BY LimiterAssumption DEF clampHint

\* A cooldown lasts at least no time, and at most one of the durations the
\* configuration names or the upper bound of the clamp.
LEMMA BenchDuration ==
    ASSUME TypeOK, cooldownDur \in Durations,
           NEW s \in Server, NEW kind \in Kinds, NEW hint \in Hints
    PROVE  /\ BenchFor(s, kind, hint) \in Nat
           /\ \E d \in Durations \cup Overrides \cup {HintMax} :
                 BenchFor(s, kind, hint) <= d
<1>1. CASE kind = "immediate" /\ clampHint(hint) > 0 /\ ~hasCooldownOverride(s)
  BY <1>1, ClampBounds DEF BenchFor
<1>2. CASE ~(kind = "immediate" /\ clampHint(hint) > 0 /\ ~hasCooldownOverride(s))
  <2>1. cooldownDuration(s) \in Durations \cup Overrides
    BY DEF cooldownDuration, TypeOK
  <2>2. cooldownDuration(s) \in Nat
    BY <2>1, LimiterAssumption
  <2>3. BenchFor(s, kind, hint) = cooldownDuration(s)
    BY <1>2 DEF BenchFor
  <2> QED BY <2>1, <2>2, <2>3
<1> QED BY <1>1, <1>2

\* Recording a failure keeps the window a finite set of failures.
LEMMA RecordedType ==
    ASSUME TypeOK, NEW s \in Server, NEW kind \in Kinds, IsFiniteSet(failures[s])
    PROVE  Recorded(s, kind) \in SUBSET Failure /\ IsFiniteSet(Recorded(s, kind))
<1> DEFINE valid == {f \in failures[s] : f.at > now - Window}
           today == {f \in valid : f.at = now}
<1>1. IsFiniteSet(valid) /\ IsFiniteSet(today)
  BY FS_Subset
<1>2. Cardinality(today) \in Nat
  BY <1>1, FS_CardinalityType
<1>3. [at |-> now, kind |-> kind, n |-> Cardinality(today) + 1] \in Failure
  BY <1>2 DEF TypeOK, Failure
<1>4. valid \in SUBSET Failure
  BY DEF TypeOK
<1>5. Recorded(s, kind) = valid \cup {[at |-> now, kind |-> kind, n |-> Cardinality(today) + 1]}
  BY DEF Recorded
<1>6. IsFiniteSet(Recorded(s, kind))
  <2>1. ASSUME NEW S, IsFiniteSet(S), NEW e PROVE IsFiniteSet(S \cup {e})
    BY <2>1, FS_AddElement
  <2> HIDE DEF valid, today
  <2> QED BY <1>1, <1>5, <2>1
<1>7. Recorded(s, kind) \in SUBSET Failure
  <2> HIDE DEF valid, today
  <2> QED BY <1>3, <1>4, <1>5
<1> QED BY <1>6, <1>7

\* Every status falls into one of the three kinds (classifyFailure).
LEMMA KindOfFailure ==
    ASSUME NEW status PROVE classifyFailure(status) \in Kinds
BY DEF classifyFailure, Kinds

-----------------------------------------------------------------------------

\* NewRateLimiter starts with empty maps.
LEMMA InitInv == Init => LimiterInv
<1> SUFFICES ASSUME Init PROVE LimiterInv
  OBVIOUS
<1>1. TypeOK
  BY LimiterAssumption DEF Init, TypeOK, Reasons, NoCooldown
<1>2. \A s \in Server : IsFiniteSet(failures[s])
  BY FS_EmptySet DEF Init
<1> QED BY <1>1, <1>2 DEF Init, LimiterInv, ReasonMatches, BenchBounded

\* A recorded failure keeps the invariant, whether it benches or not.
LEMMA RecordFailureInv ==
    ASSUME LimiterInv, NEW s \in Server, NEW st \in Statuses, NEW hint \in Hints,
           RecordFailure(s, st, hint)
    PROVE  LimiterInv'
<1> DEFINE kind == classifyFailure(st)
           bench == BenchFor(s, kind, hint)
<1>1. kind \in Kinds
  BY KindOfFailure
<1>2. /\ Recorded(s, kind) \in SUBSET Failure
      /\ IsFiniteSet(Recorded(s, kind))
  BY <1>1, RecordedType DEF LimiterInv
<1>3. /\ bench \in Nat
      /\ \E d \in Durations \cup Overrides \cup {HintMax} : bench <= d
  BY <1>1, BenchDuration DEF LimiterInv
<1> HIDE DEF kind, bench
<1>4. failures' = [failures EXCEPT ![s] = Recorded(s, kind)]
  BY DEF RecordFailure, kind
<1>5. \/ /\ cooldown' = [cooldown EXCEPT ![s] = now + bench]
         /\ \E why \in {"status", "failures"} : reason' = [reason EXCEPT ![s] = why]
      \/ UNCHANGED <<cooldown, reason>>
  BY DEF RecordFailure, kind, bench
<1>6. UNCHANGED <<now, maxFails, maxFails4xx, cooldownDur, override>>
  BY DEF RecordFailure
<1>7. now \in Nat /\ now + bench \in Nat
  BY <1>3 DEF LimiterInv, TypeOK
<1>8. TypeOK'
  BY <1>2, <1>4, <1>5, <1>6, <1>7 DEF LimiterInv, TypeOK, Reasons
<1>9. \A q \in Server : IsFiniteSet(failures'[q])
  BY <1>2, <1>4 DEF LimiterInv, TypeOK
<1>10. ReasonMatches'
  BY <1>5, <1>7 DEF LimiterInv, TypeOK, ReasonMatches, NoCooldown
<1>11. BenchBounded'
  <2> SUFFICES ASSUME NEW q \in Server, cooldown'[q] # NoCooldown
               PROVE  \E d \in Durations \cup Overrides \cup {HintMax} : cooldown'[q] <= now' + d
    BY DEF BenchBounded
  <2>1. CASE cooldown' = cooldown
    BY <2>1, <1>6 DEF LimiterInv, BenchBounded
  <2>2. CASE cooldown' = [cooldown EXCEPT ![s] = now + bench] /\ q # s
    BY <2>2, <1>6 DEF LimiterInv, BenchBounded, TypeOK
  <2>3. CASE cooldown' = [cooldown EXCEPT ![s] = now + bench] /\ q = s
    <3>1. cooldown'[q] = now' + bench
      BY <2>3, <1>6 DEF LimiterInv, TypeOK
    <3>2. PICK d \in Durations \cup Overrides \cup {HintMax} : bench <= d
      BY <1>3
    <3>3. d \in Nat
      BY LimiterAssumption
    <3> QED BY <3>1, <3>2, <3>3, <1>3, <1>6, <1>7
  <2> QED BY <1>5, <2>1, <2>2, <2>3
<1> QED BY <1>6, <1>8, <1>9, <1>10, <1>11 DEF LimiterInv

\* RecordSuccess and ClearCooldown keep the invariant.
LEMMA ForgiveInv ==
    ASSUME LimiterInv, NEW s \in Server, Forgive(s)
    PROVE  LimiterInv'
<1>1. TypeOK'
  BY DEF LimiterInv, TypeOK, Forgive, Reasons
<1>2. \A q \in Server : IsFiniteSet(failures'[q])
  BY FS_EmptySet DEF LimiterInv, TypeOK, Forgive
<1>3. ReasonMatches'
  BY DEF LimiterInv, TypeOK, ReasonMatches, Forgive
<1>4. BenchBounded'
  BY DEF LimiterInv, TypeOK, BenchBounded, Forgive
<1> QED BY <1>1, <1>2, <1>3, <1>4 DEF LimiterInv, Forgive

\* A reload or an edit of cooldown_time keeps the invariant.
LEMMA SettingsInv ==
    ASSUME LimiterInv,
           \/ \E fails \in Thresholds \cup {0}, dur \in Durations \cup {0} :
                 SetThresholds(fails, dur)
           \/ \E s \in Server, d \in Overrides : EditOverride(s, d)
    PROVE  LimiterInv'
<1>1. UNCHANGED <<now, failures, cooldown, reason>>
  BY DEF SetThresholds, EditOverride
<1>2. TypeOK'
  BY LimiterAssumption DEF LimiterInv, TypeOK, SetThresholds, EditOverride
<1>3. cooldownDur' \in Durations
  BY LimiterAssumption DEF LimiterInv, SetThresholds, EditOverride
<1> QED BY <1>1, <1>2, <1>3 DEF LimiterInv, ReasonMatches, BenchBounded

\* The passing of time keeps the invariant.
LEMMA TickInv ==
    ASSUME LimiterInv, Tick
    PROVE  LimiterInv'
<1>1. UNCHANGED limiterVars /\ now' = now + 1
  BY DEF Tick
<1>2. TypeOK'
  BY <1>1 DEF LimiterInv, TypeOK, limiterVars
<1>3. BenchBounded'
  <2> SUFFICES ASSUME NEW s \in Server, cooldown[s] # NoCooldown
               PROVE  \E d \in Durations \cup Overrides \cup {HintMax} : cooldown[s] <= now' + d
    BY <1>1 DEF BenchBounded, limiterVars
  <2>1. PICK d \in Durations \cup Overrides \cup {HintMax} : cooldown[s] <= now + d
    BY DEF LimiterInv, BenchBounded
  <2>2. d \in Nat /\ now \in Nat /\ cooldown[s] \in Int
    BY LimiterAssumption DEF LimiterInv, TypeOK, NoCooldown
  <2> QED BY <2>1, <2>2, <1>1
<1> QED BY <1>1, <1>2, <1>3 DEF LimiterInv, ReasonMatches, limiterVars

\* Every step of the limiter keeps the invariant.
LEMMA StepInv == LimiterInv /\ [Next]_vars => LimiterInv'
<1> SUFFICES ASSUME LimiterInv, [Next]_vars PROVE LimiterInv'
  OBVIOUS
<1>1. CASE \E s \in Server, st \in Statuses, hint \in Hints : RecordFailure(s, st, hint)
  BY <1>1, RecordFailureInv
<1>2. CASE \E s \in Server : RecordSuccess(s) \/ ClearCooldown(s)
  BY <1>2, ForgiveInv DEF RecordSuccess, ClearCooldown
<1>3. CASE \/ \E fails \in Thresholds \cup {0}, dur \in Durations \cup {0} :
                 SetThresholds(fails, dur)
           \/ \E s \in Server, d \in Overrides : EditOverride(s, d)
  BY <1>3, SettingsInv
<1>4. CASE Tick
  BY <1>4, TickInv
<1>5. CASE UNCHANGED vars
  BY <1>5 DEF vars, limiterVars, LimiterInv, TypeOK, ReasonMatches, BenchBounded
<1> QED BY <1>1, <1>2, <1>3, <1>4, <1>5 DEF Next

\* The limiter's maps keep their types, and the inductive invariant holds,
\* whatever the handlers report and the operator edits.
THEOREM LimiterInvariant == Spec => []LimiterInv
BY InitInv, StepInv, PTL DEF Spec

\* Every value the limiter's maps and thresholds take is well-typed, and the
\* 4xx threshold is always the double of the other (SetThresholds).
THEOREM TypeCorrect == Spec => []TypeOK
BY LimiterInvariant, PTL DEF LimiterInv

\* A server has a cooldown exactly when it has a reason for one, in every
\* state between RecordFailure, RecordSuccess and ClearCooldown.
THEOREM ReasonsMatch == Spec => []ReasonMatches
BY LimiterInvariant, PTL DEF LimiterInv

\* No server is benched for longer than a configured duration or the clamp on
\* Retry-After (RecordFailure, clampHint).
THEOREM BenchesBounded == Spec => []BenchBounded
BY LimiterInvariant, PTL DEF LimiterInv

-----------------------------------------------------------------------------

\* A failure recorded while a cooldown runs leaves its expiry alone: only a
\* success or the administrator ends a cooldown early (RecordFailure).
THEOREM ExpiriesFrozen == Spec => ExpiryFrozen
<1> DEFINE Frozen == \A s \in Server :
                        ShouldSkip(s) => cooldown'[s] \in {cooldown[s], NoCooldown}
<1>1. LimiterInv /\ [Next]_vars => [Frozen]_vars
  <2> SUFFICES ASSUME LimiterInv, Next, NEW s \in Server, ShouldSkip(s)
               PROVE  cooldown'[s] \in {cooldown[s], NoCooldown}
    OBVIOUS
  <2>1. CASE \E q \in Server, st \in Statuses, hint \in Hints : RecordFailure(q, st, hint)
    <3>1. PICK q \in Server, st \in Statuses, hint \in Hints : RecordFailure(q, st, hint)
      BY <2>1
    <3>2. StillCooling(s)
      BY DEF LimiterInv, TypeOK, ShouldSkip, StillCooling, NoCooldown
    <3>3. CASE q = s
      BY <3>1, <3>2, <3>3 DEF RecordFailure
    <3>4. CASE q # s
      BY <3>1, <3>4 DEF RecordFailure, LimiterInv, TypeOK
    <3> QED BY <3>3, <3>4
  <2>2. CASE \E q \in Server : Forgive(q)
    BY <2>2 DEF Forgive, LimiterInv, TypeOK
  <2>3. CASE UNCHANGED cooldown
    BY <2>3
  <2> QED BY <2>1, <2>2, <2>3 DEF Next, RecordSuccess, ClearCooldown, SetThresholds,
             EditOverride, Tick, limiterVars
<1> QED BY <1>1, LimiterInvariant, PTL DEF Spec, ExpiryFrozen

\* A 429, 401 or 403 always leaves the server benched (RecordFailure).
THEOREM RefusalsBench == Spec => RefusalBenches
<1> DEFINE Benches == \A s \in Server :
              (\E f \in failures'[s] \ failures[s] : f.kind = "immediate")
                  => now' <= cooldown'[s]
<1>1. LimiterInv /\ [Next]_vars => [Benches]_vars
  <2> SUFFICES ASSUME LimiterInv, Next, NEW s \in Server,
                      NEW f \in failures'[s] \ failures[s], f.kind = "immediate"
               PROVE  now' <= cooldown'[s]
    OBVIOUS
  <2>1. PICK q \in Server, st \in Statuses, hint \in Hints : RecordFailure(q, st, hint)
    BY DEF Next, Forgive, RecordSuccess, ClearCooldown, SetThresholds, EditOverride, Tick,
           limiterVars, LimiterInv, TypeOK
  <2> DEFINE kind == classifyFailure(st)
             bench == BenchFor(q, kind, hint)
  <2>2. failures' = [failures EXCEPT ![q] = Recorded(q, kind)] /\ now' = now
    BY <2>1 DEF RecordFailure
  <2>3. q = s
    BY <2>2 DEF LimiterInv, TypeOK
  <2>4. f \in Recorded(s, kind)
    BY <2>2, <2>3 DEF LimiterInv, TypeOK
  <2>5. kind = "immediate"
    BY <2>4 DEF Recorded
  <2>6. bench \in Nat
    BY <2>3, KindOfFailure, BenchDuration DEF LimiterInv
  <2>7. CASE StillCooling(s)
    <3>1. cooldown' = cooldown
      BY <2>1, <2>3, <2>7 DEF RecordFailure
    <3> QED BY <3>1, <2>2, <2>7 DEF StillCooling
  <2>8. CASE ~StillCooling(s)
    <3>1. cooldown'[s] = now + bench
      BY <2>1, <2>3, <2>5, <2>8 DEF RecordFailure, LimiterInv, TypeOK
    <3> QED BY <3>1, <2>2, <2>6 DEF LimiterInv, TypeOK
  <2> QED BY <2>7, <2>8
<1> QED BY <1>1, LimiterInvariant, PTL DEF Spec, RefusalBenches

-----------------------------------------------------------------------------
(* Lists.  What the router's filters and sorts make of a list.             *)

\* before[x] are the members ahead of x in a strict total order.
IsOrder(before) ==
    /\ IsFiniteSet(DOMAIN before)
    /\ \A x \in DOMAIN before : before[x] \subseteq DOMAIN before /\ x \notin before[x]
    /\ \A x, y \in DOMAIN before : x = y \/ x \in before[y] \/ y \in before[x]
    /\ \A x, y \in DOMAIN before : x \in before[y] => before[x] \subseteq before[y]

\* f lists the members in that order, each exactly once.
IsSorting(f, before) ==
    /\ f \in [1 .. Cardinality(DOMAIN before) -> DOMAIN before]
    /\ Cardinality(DOMAIN before) \in Nat
    /\ \A i, j \in DOMAIN f : i < j => f[i] \in before[f[j]]
    /\ \A i, j \in DOMAIN f : f[i] = f[j] => i = j
    /\ \A x \in DOMAIN before : \E i \in DOMAIN f : f[i] = x

\* Sorted sorts: the number of members ahead of x tells its place, and every
\* place is taken.
LEMMA SortedSorts ==
    ASSUME NEW before, IsOrder(before)
    PROVE  IsSorting(Sorted(before), before)
<1> DEFINE S == DOMAIN before
           n == Cardinality(S)
           rank == [x \in S |-> Cardinality(before[x])]
           f == Sorted(before)
<1>1. IsFiniteSet(S) /\ n \in Nat
  BY FS_CardinalityType DEF IsOrder
<1>2. ASSUME NEW x \in S PROVE IsFiniteSet(before[x]) /\ rank[x] \in 0 .. (n - 1)
  <2>1. before[x] \subseteq S \ {x}
    BY DEF IsOrder
  <2>2. IsFiniteSet(S \ {x}) /\ Cardinality(S \ {x}) = n - 1
    BY <1>1, FS_RemoveElement
  <2>3. IsFiniteSet(before[x]) /\ Cardinality(before[x]) <= n - 1
    BY <2>1, <2>2, FS_Subset
  <2>4. Cardinality(before[x]) \in Nat
    BY <2>3, FS_CardinalityType
  <2> QED BY <1>1, <2>3, <2>4
<1>3. ASSUME NEW x \in S, NEW y \in S, x \in before[y] PROVE rank[x] < rank[y]
  <2>1. before[x] \subseteq before[y] /\ x \notin before[x]
    BY <1>3 DEF IsOrder
  <2>2. before[x] \subseteq before[y] \ {x}
    BY <2>1
  <2>3. IsFiniteSet(before[y] \ {x}) /\ Cardinality(before[y] \ {x}) = Cardinality(before[y]) - 1
    BY <1>2, <1>3, FS_RemoveElement
  <2>4. Cardinality(before[x]) <= Cardinality(before[y]) - 1
    BY <2>2, <2>3, FS_Subset
  <2>5. Cardinality(before[x]) \in Nat /\ Cardinality(before[y]) \in Nat
    BY <1>2, FS_CardinalityType
  <2> QED BY <2>4, <2>5
<1>4. \A x, y \in S : rank[x] = rank[y] => x = y
  <2> SUFFICES ASSUME NEW x \in S, NEW y \in S, rank[x] = rank[y], x # y PROVE FALSE
    OBVIOUS
  <2>1. x \in before[y] \/ y \in before[x]
    BY DEF IsOrder
  <2>2. rank[x] \in Int /\ rank[y] \in Int
    BY <1>2
  <2> QED BY <1>3, <2>1, <2>2
<1>5. \A k \in 0 .. (n - 1) : \E x \in S : rank[x] = k
  <2>1. rank \in [S -> 0 .. (n - 1)]
    BY <1>2
  <2> HIDE DEF rank
  <2>2. rank \in Injection(S, 0 .. (n - 1))
    BY <1>4, <2>1 DEF Injection, IsInjective
  <2>3. IsFiniteSet(0 .. (n - 1)) /\ Cardinality(0 .. (n - 1)) = n
    BY <1>1, FS_Interval
  <2>4. rank \in Surjection(S, 0 .. (n - 1))
    BY <2>2, <2>3, FS_Injection
  <2> QED BY <2>4 DEF Surjection
<1>6. DOMAIN f = 1 .. n /\ \A k \in 1 .. n : f[k] \in S /\ rank[f[k]] = k - 1
  <2>1. ASSUME NEW k \in 1 .. n PROVE f[k] \in S /\ rank[f[k]] = k - 1
    <3>1. f[k] = CHOOSE x \in S : Cardinality(before[x]) = k - 1
      BY <2>1 DEF Sorted
    <3>2. \E x \in S : Cardinality(before[x]) = k - 1
      BY <1>1, <1>5
    <3>3. f[k] \in S /\ Cardinality(before[f[k]]) = k - 1
      BY <3>1, <3>2
    <3> QED BY <3>3
  <2>2. DOMAIN f = 1 .. n
    BY DEF Sorted
  <2> QED BY <2>1, <2>2
<1>7. f \in [1 .. n -> S]
  <2>1. f = [k \in 1 .. n |-> f[k]]
    BY DEF Sorted
  <2> QED BY <1>6, <2>1
<1> HIDE DEF f, rank, n
<1>8. ASSUME NEW i \in 1 .. n, NEW j \in 1 .. n, i < j PROVE f[i] \in before[f[j]]
  <2>1. rank[f[i]] < rank[f[j]] /\ rank[f[i]] \in Int /\ rank[f[j]] \in Int /\ f[i] \in S /\ f[j] \in S
    BY <1>1, <1>6, <1>8
  <2>2. f[j] \notin before[f[i]] /\ f[i] # f[j]
    BY <1>3, <2>1
  <2> QED BY <2>1, <2>2 DEF IsOrder
<1>9. ASSUME NEW i \in 1 .. n, NEW j \in 1 .. n, f[i] = f[j] PROVE i = j
  <2>1. i - 1 = j - 1 /\ i \in Int /\ j \in Int
    BY <1>1, <1>6, <1>9
  <2> QED BY <2>1
<1>10. ASSUME NEW x \in S PROVE \E i \in 1 .. n : f[i] = x
  <2> DEFINE i == rank[x] + 1
  <2>1. i \in 1 .. n /\ rank[x] = i - 1
    BY <1>1, <1>2
  <2> HIDE DEF i
  <2>2. rank[f[i]] = rank[x] /\ f[i] \in S
    BY <1>6, <2>1
  <2>3. f[i] = x
    BY <1>4, <2>2
  <2> QED BY <2>1, <2>3
<1> QED BY <1>1, <1>6, <1>7, <1>8, <1>9, <1>10 DEF IsSorting, f, n

\* The indices of a list are finitely many and ordered.
LEMMA IndicesOrdered ==
    ASSUME NEW n \in Nat, NEW I \in SUBSET (1 .. n)
    PROVE  IsFiniteSet(I) /\ IsOrder([i \in I |-> {j \in I : j < i}])
<1> DEFINE before == [i \in I |-> {j \in I : j < i}]
<1>1. IsFiniteSet(1 .. n)
  BY FS_Interval
<1>2. IsFiniteSet(I)
  BY <1>1, FS_Subset
<1>3. DOMAIN before = I /\ \A i, j \in I : j \in before[i] <=> j < i
  OBVIOUS
<1>4. \A i \in I : before[i] \subseteq I /\ i \in Int
  OBVIOUS
<1> HIDE DEF before
<1>6. \A x, y \in I : x \in before[y] => before[x] \subseteq before[y]
  <2> SUFFICES ASSUME NEW x \in I, NEW y \in I, x \in before[y], NEW z \in before[x] PROVE z \in before[y]
    OBVIOUS
  <2>1. z \in I /\ x \in Int /\ y \in Int /\ z \in Int
    BY <1>4
  <2>2. z < x /\ x < y
    BY <1>3, <2>1
  <2>3. z < y
    BY <2>1, <2>2
  <2> QED BY <1>3, <2>1, <2>3
<1>7. \A x, y \in I : (x = y \/ x \in before[y] \/ y \in before[x]) /\ x \notin before[x]
  BY <1>3, <1>4
<1>5. IsOrder(before)
  BY <1>2, <1>3, <1>4, <1>6, <1>7 DEF IsOrder
<1> QED BY <1>2, <1>5 DEF before

\* w is the part of s at the indices in I, m of them, in order; f tells where
\* each element comes from.
IsPart(w, m, f, s, I, E) ==
    /\ m \in Nat /\ f \in [1 .. m -> I] /\ w \in Seq(E) /\ Len(w) = m
    /\ \A k \in 1 .. m : w[k] = s[f[k]]
    /\ \A i, j \in 1 .. m : (i < j => f[i] < f[j]) /\ (f[i] = f[j] => i = j)
    /\ \A x \in I : \E i \in 1 .. m : f[i] = x

\* Keep keeps the elements at the indices of I, in order.
LEMMA KeepIs ==
    ASSUME NEW E, NEW s \in Seq(E), NEW I \in SUBSET DOMAIN s
    PROVE  \E f : IsPart(Keep(s, I), Cardinality(I), f, s, I, E)
<1> DEFINE before == [i \in I |-> {j \in I : j < i}]
           f == Sorted(before)
           m == Cardinality(I)
<1>1. Len(s) \in Nat /\ DOMAIN s = 1 .. Len(s) /\ \A i \in DOMAIN s : s[i] \in E
  BY LenProperties, ElementOfSeq
<1>2. IsOrder(before) /\ DOMAIN before = I
  BY <1>1, IndicesOrdered
<1>6. \A j \in I : before[j] = {i \in I : i < j}
  OBVIOUS
<1>8. Keep(s, I) = Listed(s, f)
  BY DEF Keep
<1> HIDE DEF before
<1>3. IsSorting(f, before)
  BY <1>2, SortedSorts
<1> HIDE DEF f
<1>4. /\ f \in [1 .. m -> I] /\ m \in Nat
      /\ \A i, j \in 1 .. m : (i < j => f[i] < f[j]) /\ (f[i] = f[j] => i = j)
      /\ \A x \in I : \E i \in 1 .. m : f[i] = x
  <2>1. /\ f \in [1 .. m -> I] /\ m \in Nat
        /\ \A i, j \in 1 .. m : (i < j => f[i] \in before[f[j]]) /\ (f[i] = f[j] => i = j)
        /\ \A x \in I : \E i \in 1 .. m : f[i] = x
    BY <1>2, <1>3 DEF IsSorting
  <2> HIDE DEF m
  <2> QED BY <1>6, <2>1
<1>5. Keep(s, I) = [k \in 1 .. m |-> s[f[k]]]
  BY <1>4, <1>8 DEF Listed
<1>7. Keep(s, I) \in Seq(E) /\ Len(Keep(s, I)) = m /\ \A k \in 1 .. m : Keep(s, I)[k] = s[f[k]]
  <2>1. \A k \in 1 .. m : s[f[k]] \in E
    BY <1>1, <1>4
  <2> HIDE DEF m
  <2> QED BY <1>4, <1>5, <2>1
<1>9. IsPart(Keep(s, I), m, f, s, I, E)
  BY <1>4, <1>7 DEF IsPart
<1> QED BY <1>9

\* A stable sort: ahead[j] are the members that must come before j, and those
\* that neither must keep their order.
LEMMA StableOrder ==
    ASSUME NEW I \in SUBSET Nat, IsFiniteSet(I), NEW ahead,
           \A i, j \in I : i \in ahead[j] => j \notin ahead[i],
           \A i, j, k \in I : i \in ahead[j] => i \in ahead[k] \/ k \in ahead[j],
           NEW before, DOMAIN before = I, \A j \in I : before[j] \subseteq I,
           \A i, j \in I : i \in before[j] <=> i \in ahead[j] \/ (j \notin ahead[i] /\ i < j)
    PROVE  IsOrder(before)
<1>2. DOMAIN before = I /\ \A i, j \in I : i \in before[j] <=> i \in ahead[j] \/ (j \notin ahead[i] /\ i < j)
  OBVIOUS
<1>1. \A j \in I : before[j] \subseteq I /\ j \in Int
  OBVIOUS
<1>3. \A j \in I : before[j] \subseteq I /\ j \in Int /\ j \notin before[j]
  BY <1>1, <1>2
<1>4. ASSUME NEW x \in I, NEW y \in I PROVE x = y \/ x \in before[y] \/ y \in before[x]
  BY <1>2, <1>3
<1>5. ASSUME NEW x \in I, NEW y \in I, x \in before[y], NEW z \in before[x] PROVE z \in before[y]
  <2>1. z \in I /\ x \in Int /\ y \in Int /\ z \in Int
    BY <1>3, <1>5
  <2>2. x \in ahead[y] \/ (y \notin ahead[x] /\ x < y)
    BY <1>2, <1>5
  <2>3. z \in ahead[x] \/ (x \notin ahead[z] /\ z < x)
    BY <1>2, <1>5, <2>1
  <2>4. z \in ahead[y] \/ (y \notin ahead[z] /\ z < y)
    <3>1. CASE x \in ahead[y] /\ z \in ahead[x]
      BY <2>1, <3>1
    <3>2. CASE x \in ahead[y] /\ x \notin ahead[z]
      BY <2>1, <3>2
    <3>3. CASE y \notin ahead[x] /\ z \in ahead[x]
      BY <2>1, <3>3
    <3>4. CASE y \notin ahead[x] /\ x < y /\ x \notin ahead[z] /\ z < x
      <4>1. y \notin ahead[z]
        BY <2>1, <3>4
      <4> QED BY <2>1, <3>4, <4>1
    <3> QED BY <2>2, <2>3, <3>1, <3>2, <3>3, <3>4
  <2> QED BY <1>2, <2>1, <2>4
<1>6. \A x, y \in I : x \in before[y] => before[x] \subseteq before[y]
  BY <1>5
<1>7. \A x, y \in I : x = y \/ x \in before[y] \/ y \in before[x]
  BY <1>4
<1> QED BY <1>2, <1>3, <1>6, <1>7 DEF IsOrder

\* Sorted by a key, ties in order.
LEMMA KeyOrder ==
    ASSUME NEW I \in SUBSET Nat, IsFiniteSet(I), NEW key \in [I -> Int],
           NEW before, DOMAIN before = I, \A j \in I : before[j] \subseteq I,
           \A i, j \in I : i \in before[j] <=> key[i] < key[j] \/ (key[i] = key[j] /\ i < j)
    PROVE  IsOrder(before)
<1> DEFINE ahead == [i \in I |-> {j \in I : key[j] < key[i]}]
<1>1. \A i, j \in I : i \in ahead[j] <=> key[i] < key[j]
  OBVIOUS
<1>6. \A i \in I : key[i] \in Int
  OBVIOUS
<1> HIDE DEF ahead
<1>2. \A i, j \in I : i \in ahead[j] => j \notin ahead[i]
  BY <1>1, <1>6
<1>3. \A i, j, k \in I : i \in ahead[j] => i \in ahead[k] \/ k \in ahead[j]
  BY <1>1, <1>6
<1>4. ASSUME NEW i \in I, NEW j \in I PROVE i \in before[j] <=> i \in ahead[j] \/ (j \notin ahead[i] /\ i < j)
  <2>1. i \in before[j] <=> key[i] < key[j] \/ (key[i] = key[j] /\ i < j)
    OBVIOUS
  <2> QED BY <1>1, <1>6, <2>1
<1>5. \A i, j \in I : i \in before[j] <=> i \in ahead[j] \/ (j \notin ahead[i] /\ i < j)
  BY <1>4
<1> QED BY <1>2, <1>3, <1>5, StableOrder

\* There are n indices up to n.
LEMMA IndexCount ==
    ASSUME NEW n \in Nat
    PROVE  Cardinality(1 .. n) = n
BY FS_Interval

\* w is s rearranged; f tells where each element comes from.
Rearranged(w, f, s, E) ==
    /\ f \in [DOMAIN s -> DOMAIN s]
    /\ w \in Seq(E) /\ Len(w) = Len(s) /\ \A k \in DOMAIN s : w[k] = s[f[k]]
    /\ \A i, j \in DOMAIN s : f[i] = f[j] => i = j
    /\ \A x \in DOMAIN s : \E i \in DOMAIN s : f[i] = x

\* Listing s in a sorted order of all its indices only rearranges it.
LEMMA ListedIs ==
    ASSUME NEW E, NEW s \in Seq(E), NEW before, IsOrder(before), DOMAIN before = DOMAIN s
    PROVE  \E f : Rearranged(Listed(s, Sorted(before)), f, s, E)
<1> DEFINE f == Sorted(before)
           w == Listed(s, f)
           n == Len(s)
<1>1. n \in Nat /\ DOMAIN s = 1 .. n /\ \A i \in DOMAIN s : s[i] \in E
  BY LenProperties, ElementOfSeq
<1>2. Cardinality(DOMAIN s) = n
  BY <1>1, IndexCount
<1>3. IsSorting(f, before)
  BY SortedSorts
<1> HIDE DEF f
<1>5. /\ f \in [1 .. n -> DOMAIN s] /\ \A i, j \in 1 .. n : f[i] = f[j] => i = j
      /\ \A x \in DOMAIN s : \E i \in 1 .. n : f[i] = x
  BY <1>2, <1>3 DEF IsSorting
<1>6. w = [k \in 1 .. n |-> s[f[k]]]
  BY <1>5 DEF Listed
<1> HIDE DEF n, w
<1>7. w \in Seq(E) /\ Len(w) = n /\ \A k \in 1 .. n : w[k] = s[f[k]]
  BY <1>1, <1>5, <1>6
<1>8. Len(s) = n
  BY DEF n
<1>9. Rearranged(w, f, s, E)
  BY <1>1, <1>5, <1>7, <1>8 DEF Rearranged
<1> QED BY <1>9 DEF w, f

\* Keeping every element keeps the list.
LEMMA KeepAll ==
    ASSUME NEW E, NEW s \in Seq(E)
    PROVE  Keep(s, DOMAIN s) = s
<1> DEFINE n == Len(s)
           w == Keep(s, DOMAIN s)
<1>1. n \in Nat /\ DOMAIN s = 1 .. n
  BY LenProperties
<1>2. Cardinality(DOMAIN s) = n
  BY <1>1, IndexCount
<1>3. PICK f : /\ f \in [1 .. n -> 1 .. n]
               /\ w \in Seq(E) /\ Len(w) = n
               /\ \A k \in 1 .. n : w[k] = s[f[k]]
               /\ \A i, j \in 1 .. n : i < j => f[i] < f[j]
               /\ \A x \in 1 .. n : \E i \in 1 .. n : f[i] = x
  <2>1. PICK f : IsPart(w, Cardinality(DOMAIN s), f, s, DOMAIN s, E)
    BY KeepIs
  <2>2. IsPart(w, n, f, s, 1 .. n, E)
    BY <1>1, <1>2, <2>1
  <2> QED BY <2>2 DEF IsPart
<1> HIDE DEF w
<1> DEFINE Q == {k \in Nat : k <= n => \A i \in 1 .. k : f[i] = i}
<1>4. 0 \in Q
  OBVIOUS
<1>5. ASSUME NEW k \in Nat, k \in Q PROVE k + 1 \in Q
  <2> SUFFICES ASSUME k + 1 <= n PROVE f[k + 1] = k + 1
    BY <1>5
  <2>1. \A i \in 1 .. k : f[i] = i
    BY <1>1, <1>5
  <2>2. PICK i \in 1 .. n : f[i] = k + 1
    BY <1>1, <1>3
  <2>3. i > k
    BY <2>1, <2>2
  <2>4. i <= k + 1
    <3> SUFFICES ASSUME i > k + 1 PROVE FALSE
      BY <2>2
    <3>1. f[k + 1] < k + 1 /\ f[k + 1] \in 1 .. n
      BY <1>1, <1>3, <2>2
    <3>2. f[k + 1] \in 1 .. k
      BY <3>1
    <3>3. f[f[k + 1]] = f[k + 1] /\ f[k + 1] < k + 1 /\ f[k + 1] \in 1 .. n
      BY <2>1, <3>1, <3>2
    <3>4. f[f[k + 1]] < f[k + 1]
      BY <1>1, <1>3, <3>3
    <3> QED BY <3>1, <3>3, <3>4
  <2> QED BY <2>2, <2>3, <2>4
<1>6. n \in Q
  BY <1>1, <1>4, <1>5, NatInd
<1>7. \A i \in 1 .. n : w[i] = s[i]
  BY <1>1, <1>3, <1>6
<1>8. w = s
  BY <1>3, <1>7, SeqEqual
<1> QED BY <1>8 DEF w

-----------------------------------------------------------------------------
(* The pure parts of the decision router.                                  *)

\* Min of a set of naturals is its least member.
LEMMA MinIn ==
    ASSUME NEW S \in SUBSET Nat, S # {}
    PROVE  Min(S) \in S /\ \A y \in S : Min(S) <= y
BY LeastNat DEF Min

\* The elements of a list, by their indices.
LEMMA Elements ==
    ASSUME NEW E, NEW s \in Seq(E)
    PROVE  /\ Len(s) \in Nat /\ DOMAIN s = 1 .. Len(s) /\ \A i \in DOMAIN s : s[i] \in E
           /\ (s # <<>> <=> Len(s) > 0) /\ (s # <<>> <=> 1 \in DOMAIN s)
BY LenProperties, ElementOfSeq, EmptySeq

\* Every candidate of a pool has a tier and an id.
LEMMA Tiers ==
    ASSUME NEW p \in Seq(Candidate)
    PROVE  /\ Len(p) \in Nat /\ DOMAIN p = 1 .. Len(p)
           /\ \A i \in DOMAIN p : i # 0 /\ p[i].tier \in Int /\ p[i].id \in STRING /\ p[i].id # NoChoice
<1>1. Len(p) \in Nat /\ DOMAIN p = 1 .. Len(p) /\ \A i \in DOMAIN p : p[i] \in Candidate
  BY Elements
<1>2. \A c \in Candidate : c.tier \in Int /\ c.id \in STRING /\ c.id # NoChoice
  BY DEF Candidate
<1> QED BY <1>1, <1>2

\* jevTierIndex finds a candidate in every pool that has one.
LEMMA TierIndexIn ==
    ASSUME NEW p \in Seq(Candidate), p # <<>>, NEW tier \in Int
    PROVE  jevTierIndex(p, tier) \in DOMAIN p
<1> DEFINE exact == {i \in DOMAIN p : p[i].tier = tier}
           near == {i \in DOMAIN p : \A j \in DOMAIN p : Dist(p[i], tier) <= Dist(p[j], tier)}
           far == {Dist(p[i], tier) : i \in DOMAIN p}
<1>1. Len(p) \in Nat /\ DOMAIN p = 1 .. Len(p) /\ 1 \in DOMAIN p /\ \A i \in DOMAIN p : p[i] \in Candidate
  BY Elements
<1>2. \A i \in DOMAIN p : Dist(p[i], tier) \in Nat
  BY <1>1 DEF Dist, Candidate
<1>3. far \in SUBSET Nat /\ far # {}
  BY <1>1, <1>2
<1>4. PICK d \in far : \A e \in far : d <= e
  BY <1>3, LeastNat
<1>5. near # {}
  BY <1>4
<1>6. exact \in SUBSET Nat /\ near \in SUBSET Nat
  BY <1>1
<1>7. jevTierIndex(p, tier) = Min(IF exact # {} THEN exact ELSE near)
  BY DEF jevTierIndex
<1> HIDE DEF exact, near
<1>8. jevTierIndex(p, tier) \in exact \cup near
  BY <1>5, <1>6, <1>7, MinIn
<1> QED BY <1>8 DEF exact, near

\* jevNearestIndex finds the strongest candidate up to the ceiling.
LEMMA NearestIndexIs ==
    ASSUME NEW p \in Seq(Candidate), NEW ceiling \in Int, NEW d \in DOMAIN p, p[d].tier <= ceiling
    PROVE  LET x == jevNearestIndex(p, ceiling)
           IN  x \in DOMAIN p /\ p[x].tier <= ceiling /\ p[d].tier <= p[x].tier
<1> DEFINE below == {i \in DOMAIN p : p[i].tier <= ceiling}
           top == {i \in below : \A j \in below : p[j].tier <= p[i].tier}
           gaps == {ceiling - p[i].tier : i \in below}
<1>1. Len(p) \in Nat /\ DOMAIN p = 1 .. Len(p) /\ \A i \in DOMAIN p : p[i].tier \in Int
  BY Tiers
<1>2. d \in below
  OBVIOUS
<1>10. \A i \in below : i \in DOMAIN p /\ p[i].tier \in Int /\ p[i].tier <= ceiling
  BY <1>1
<1>11. \A i \in below : ceiling - p[i].tier \in Nat
  BY <1>10
<1>3. gaps \in SUBSET Nat /\ gaps # {}
  BY <1>2, <1>11
<1>4. PICK g \in gaps : \A e \in gaps : g <= e
  BY <1>3, LeastNat
<1>5. PICK i \in below : g = ceiling - p[i].tier
  BY <1>4
<1>6. ASSUME NEW j \in below PROVE p[j].tier <= p[i].tier
  <2>1. ceiling - p[i].tier <= ceiling - p[j].tier
    BY <1>4, <1>5
  <2> QED BY <1>5, <1>10, <2>1
<1>7. top # {} /\ top \in SUBSET Nat
  BY <1>1, <1>5, <1>6
<1>8. jevNearestIndex(p, ceiling) = Min(top)
  BY <1>2 DEF jevNearestIndex
<1> HIDE DEF top
<1>9. jevNearestIndex(p, ceiling) \in top
  BY <1>7, <1>8, MinIn
<1> QED BY <1>2, <1>9 DEF top

IsClamped(first, p, choice, confidence, why, large) ==
    LET def == p[jevTierIndex(p, tier0)].tier
    IN  /\ first \in DOMAIN p
        /\ p[first].tier < def => ~large /\ (why = "sticky" \/ confidence >= MinConfidence)
        /\ why # "sticky" /\ confidence < MinConfidence => p[first].tier <= def + 1
        /\ choice # 0 /\ why = "sticky" /\ ~large => first = choice

\* The clamps: without a choice the default; weaker than the default only on a
\* confident or a pinned choice for a small conversation; unsure, at most one
\* tier above it; a pinned choice of a small conversation stands.
LEMMA ClampedIs ==
    ASSUME NEW p \in Seq(Candidate), p # <<>>, tier0 \in Int, NEW choice \in DOMAIN p \cup {0},
           NEW confidence \in Int, NEW why, NEW large \in BOOLEAN
    PROVE  IsClamped(Clamped(p, choice, confidence, why, large), p, choice, confidence, why, large)
<1> DEFINE d == jevTierIndex(p, tier0)
           near == jevNearestIndex(p, p[d].tier + 1)
<1>1. d \in DOMAIN p /\ \A i \in DOMAIN p : p[i].tier \in Int /\ i # 0
  BY TierIndexIn, Tiers
<1>2. near \in DOMAIN p /\ p[near].tier <= p[d].tier + 1 /\ p[d].tier <= p[near].tier
  <2>1. p[d].tier + 1 \in Int /\ p[d].tier <= p[d].tier + 1
    BY <1>1
  <2> QED BY <1>1, <2>1, NearestIndexIs
<1>3. MinConfidence \in Int
  BY JevAssumption
<1> DEFINE unsure == choice # 0 /\ why # "sticky" /\ confidence < MinConfidence
           f == IF choice = 0 THEN d
                ELSE IF unsure /\ p[choice].tier < p[d].tier THEN d
                ELSE IF unsure /\ p[choice].tier > p[d].tier + 1 THEN near
                ELSE choice
<1>4. Clamped(p, choice, confidence, why, large) = IF p[f].tier < p[d].tier /\ large THEN d ELSE f
  BY DEF Clamped
<1> HIDE DEF d, near
<1>5. /\ f \in DOMAIN p
      /\ p[f].tier < p[d].tier => why = "sticky" \/ confidence >= MinConfidence
      /\ why # "sticky" /\ confidence < MinConfidence => p[f].tier <= p[d].tier + 1
      /\ choice # 0 /\ why = "sticky" => f = choice
  <2>1. CASE choice = 0
    BY <1>1, <2>1
  <2>2. CASE choice # 0 /\ why = "sticky"
    BY <1>1, <2>2
  <2>3. CASE choice # 0 /\ confidence >= MinConfidence
    BY <1>1, <1>3, <2>3
  <2>4. CASE choice # 0 /\ why # "sticky" /\ confidence < MinConfidence
    <3>1. unsure /\ choice \in DOMAIN p /\ p[choice].tier \in Int
      BY <1>1, <2>4
    <3>2. CASE p[choice].tier < p[d].tier
      BY <1>1, <2>4, <3>1, <3>2
    <3>3. CASE p[choice].tier > p[d].tier + 1
      BY <1>1, <1>2, <2>4, <3>1, <3>3
    <3>4. CASE ~(p[choice].tier < p[d].tier) /\ ~(p[choice].tier > p[d].tier + 1)
      BY <1>1, <2>4, <3>1, <3>4
    <3> QED BY <3>2, <3>3, <3>4
  <2> QED BY <1>3, <2>1, <2>2, <2>3, <2>4
<1> HIDE DEF f
<1>6. /\ Clamped(p, choice, confidence, why, large) \in DOMAIN p
      /\ p[Clamped(p, choice, confidence, why, large)].tier < p[d].tier => ~large /\ (why = "sticky" \/ confidence >= MinConfidence)
      /\ why # "sticky" /\ confidence < MinConfidence => p[Clamped(p, choice, confidence, why, large)].tier <= p[d].tier + 1
      /\ choice # 0 /\ why = "sticky" /\ ~large => Clamped(p, choice, confidence, why, large) = choice
  BY <1>1, <1>4, <1>5
<1> QED BY <1>6 DEF d, IsClamped

\* f lists the indices in I, each once, with their tiers rising, or falling.
RisingTiers(f, n, p, I) ==
    /\ n \in Nat /\ f \in [1 .. n -> I] /\ \A x \in I : \E i \in 1 .. n : f[i] = x
    /\ \A i, j \in 1 .. n : i < j => p[f[i]].tier <= p[f[j]].tier /\ f[i] # f[j]
FallingTiers(f, n, p, I) ==
    /\ n \in Nat /\ f \in [1 .. n -> I] /\ \A x \in I : \E i \in 1 .. n : f[i] = x
    /\ \A i, j \in 1 .. n : i < j => p[f[i]].tier >= p[f[j]].tier /\ f[i] # f[j]

\* Upwards lists the candidates of I with rising tiers.
LEMMA UpwardsIs ==
    ASSUME NEW p \in Seq(Candidate), NEW I \in SUBSET DOMAIN p
    PROVE  \E n \in Nat : RisingTiers(Upwards(p, I), n, p, I)
<1> DEFINE n == Cardinality(I)
           up == [i \in I |-> {j \in I : p[j].tier < p[i].tier \/ (p[j].tier = p[i].tier /\ j < i)}]
           f == Sorted(up)
           key == [i \in I |-> p[i].tier]
<1>1. I \in SUBSET Nat /\ \A i \in I : p[i].tier \in Int
  BY Tiers
<1>13. IsFiniteSet(I)
  BY Tiers, IndicesOrdered
<1>2. f = Upwards(p, I)
  BY DEF Upwards
<1>3. /\ DOMAIN up = I /\ \A j \in I : up[j] \subseteq I
      /\ \A i, j \in I : i \in up[j] <=> p[i].tier < p[j].tier \/ (p[i].tier = p[j].tier /\ i < j)
  OBVIOUS
<1>4. key \in [I -> Int]
  BY <1>1
<1>5. \A i \in I : p[i].tier = key[i]
  OBVIOUS
<1> HIDE DEF up, key
<1>6. ASSUME NEW i \in I, NEW j \in I PROVE i \in up[j] <=> key[i] < key[j] \/ (key[i] = key[j] /\ i < j)
  <2>1. p[i].tier = key[i] /\ p[j].tier = key[j]
    BY <1>5
  <2>2. i \in up[j] <=> p[i].tier < p[j].tier \/ (p[i].tier = p[j].tier /\ i < j)
    BY <1>3
  <2> QED BY <2>1, <2>2, Zenon
<1>7. \A i, j \in I : i \in up[j] <=> key[i] < key[j] \/ (key[i] = key[j] /\ i < j)
  BY <1>6
<1>8. IsOrder(up)
  BY <1>1, <1>3, <1>4, <1>7, <1>13, KeyOrder
<1>9. IsSorting(f, up)
  BY <1>8, SortedSorts
<1> HIDE DEF f
<1>10. /\ n \in Nat /\ f \in [1 .. n -> I] /\ \A x \in I : \E i \in 1 .. n : f[i] = x
       /\ \A i, j \in 1 .. n : (i < j => f[i] \in up[f[j]]) /\ (f[i] = f[j] => i = j)
  BY <1>3, <1>9 DEF IsSorting
<1> HIDE DEF n
<1>11. ASSUME NEW i \in 1 .. n, NEW j \in 1 .. n, i < j PROVE p[f[i]].tier <= p[f[j]].tier /\ f[i] # f[j]
  <2>1. f[i] \in I /\ f[j] \in I /\ f[i] \in up[f[j]] /\ i # j
    BY <1>10, <1>11
  <2>2. p[f[i]].tier < p[f[j]].tier \/ p[f[i]].tier = p[f[j]].tier
    BY <1>3, <2>1
  <2>3. p[f[i]].tier \in Int /\ p[f[j]].tier \in Int
    BY <1>1, <2>1
  <2> QED BY <1>10, <2>1, <2>2, <2>3
<1>12. RisingTiers(f, n, p, I)
  BY <1>10, <1>11 DEF RisingTiers
<1> QED BY <1>2, <1>10, <1>12

\* Downwards lists the candidates of I with falling tiers.
LEMMA DownwardsIs ==
    ASSUME NEW p \in Seq(Candidate), NEW I \in SUBSET DOMAIN p
    PROVE  \E n \in Nat : FallingTiers(Downwards(p, I), n, p, I)
<1> DEFINE n == Cardinality(I)
           down == [i \in I |-> {j \in I : p[j].tier > p[i].tier \/ (p[j].tier = p[i].tier /\ j < i)}]
           f == Sorted(down)
           key == [i \in I |-> 0 - p[i].tier]
<1>1. I \in SUBSET Nat /\ \A i \in I : p[i].tier \in Int
  BY Tiers
<1>13. IsFiniteSet(I)
  BY Tiers, IndicesOrdered
<1>2. f = Downwards(p, I)
  BY DEF Downwards
<1>3. /\ DOMAIN down = I /\ \A j \in I : down[j] \subseteq I
      /\ \A i, j \in I : i \in down[j] <=> p[i].tier > p[j].tier \/ (p[i].tier = p[j].tier /\ i < j)
  OBVIOUS
<1>4. key \in [I -> Int]
  BY <1>1
<1>5. \A i \in I : key[i] = 0 - p[i].tier
  OBVIOUS
<1> HIDE DEF down, key
<1>6. ASSUME NEW i \in I, NEW j \in I PROVE i \in down[j] <=> key[i] < key[j] \/ (key[i] = key[j] /\ i < j)
  <2>1. (p[i].tier > p[j].tier <=> key[i] < key[j]) /\ (p[i].tier = p[j].tier <=> key[i] = key[j])
    BY <1>1, <1>5
  <2>2. i \in down[j] <=> p[i].tier > p[j].tier \/ (p[i].tier = p[j].tier /\ i < j)
    BY <1>3
  <2> QED BY <2>1, <2>2, Zenon
<1>7. \A i, j \in I : i \in down[j] <=> key[i] < key[j] \/ (key[i] = key[j] /\ i < j)
  BY <1>6
<1>8. IsOrder(down)
  BY <1>1, <1>3, <1>4, <1>7, <1>13, KeyOrder
<1>9. IsSorting(f, down)
  BY <1>8, SortedSorts
<1> HIDE DEF f
<1>10. /\ n \in Nat /\ f \in [1 .. n -> I] /\ \A x \in I : \E i \in 1 .. n : f[i] = x
       /\ \A i, j \in 1 .. n : (i < j => f[i] \in down[f[j]]) /\ (f[i] = f[j] => i = j)
  BY <1>3, <1>9 DEF IsSorting
<1> HIDE DEF n
<1>11. ASSUME NEW i \in 1 .. n, NEW j \in 1 .. n, i < j PROVE p[f[i]].tier >= p[f[j]].tier /\ f[i] # f[j]
  <2>1. f[i] \in I /\ f[j] \in I /\ f[i] \in down[f[j]] /\ i # j
    BY <1>10, <1>11
  <2>2. p[f[i]].tier > p[f[j]].tier \/ p[f[i]].tier = p[f[j]].tier
    BY <1>3, <2>1
  <2>3. p[f[i]].tier \in Int /\ p[f[j]].tier \in Int
    BY <1>1, <2>1
  <2> QED BY <1>10, <2>1, <2>2, <2>3
<1>12. FallingTiers(f, n, p, I)
  BY <1>10, <1>11 DEF FallingTiers
<1> QED BY <1>2, <1>10, <1>12

\* order starts with the choice, has every candidate of p once, and after the
\* choice first goes up and then down.
IsFallbackOrder(order, p, first) ==
    /\ order \in Seq(DOMAIN p) /\ order # <<>> /\ order[1] = first
    /\ \A x \in DOMAIN p : \E i \in DOMAIN order : order[i] = x
    /\ \A i, j \in DOMAIN order : order[i] = order[j] => i = j
    /\ \A i, j \in DOMAIN order : 1 < i /\ i < j =>
        /\ p[order[j]].tier > p[first].tier => /\ p[order[i]].tier > p[first].tier
                                               /\ p[order[i]].tier <= p[order[j]].tier
        /\ p[order[i]].tier <= p[first].tier => p[order[j]].tier <= p[order[i]].tier

\* FallbackOrder makes such an order.
LEMMA FallbackOrderIs ==
    ASSUME NEW p \in Seq(Candidate), NEW first \in DOMAIN p
    PROVE  IsFallbackOrder(FallbackOrder(p, first), p, first)
<1> DEFINE D == DOMAIN p
           up == {i \in D \ {first} : p[i].tier > p[first].tier}
           down == (D \ {first}) \ up
           u == Upwards(p, up)
           d == Downwards(p, down)
           order == FallbackOrder(p, first)
<1>1. \A i \in D : p[i].tier \in Int
  BY Tiers
<1>2. up \in SUBSET D /\ down \in SUBSET D
  OBVIOUS
<1>18. PICK m \in Nat : RisingTiers(u, m, p, up)
  BY <1>2, UpwardsIs
<1>3. /\ m \in Nat /\ u \in [1 .. m -> up] /\ \A x \in up : \E i \in 1 .. m : u[i] = x
      /\ \A i, j \in 1 .. m : i < j => p[u[i]].tier <= p[u[j]].tier /\ u[i] # u[j]
  BY <1>18 DEF RisingTiers
<1>19. PICK n \in Nat : FallingTiers(d, n, p, down)
  BY <1>2, DownwardsIs
<1>4. /\ n \in Nat /\ d \in [1 .. n -> down] /\ \A x \in down : \E i \in 1 .. n : d[i] = x
      /\ \A i, j \in 1 .. n : i < j => p[d[i]].tier >= p[d[j]].tier /\ d[i] # d[j]
  BY <1>19 DEF FallingTiers
<1>5. order = <<first>> \o u \o d
  BY DEF FallbackOrder
<1>6. \A x \in up : x \in D /\ x # first /\ p[x].tier > p[first].tier
  OBVIOUS
<1>7. \A x \in down : x \in D /\ x # first /\ p[x].tier <= p[first].tier
  BY <1>1
<1>8. \A x \in D : x = first \/ x \in up \/ x \in down
  OBVIOUS
<1> HIDE DEF u, d, up, down, D, order
<1>9. /\ <<first>> \in Seq(D) /\ Len(<<first>>) = 1 /\ <<first>>[1] = first
      /\ u \in Seq(D) /\ Len(u) = m /\ d \in Seq(D) /\ Len(d) = n
  <2>1. first \in D
    BY DEF D
  <2>2. u \in [1 .. m -> D] /\ d \in [1 .. n -> D]
    BY <1>3, <1>4, <1>6, <1>7
  <2> QED BY <2>1, <2>2
<1>10. /\ <<first>> \o u \in Seq(D) /\ Len(<<first>> \o u) = 1 + m
       /\ (<<first>> \o u)[1] = first
       /\ \A i \in 2 .. (1 + m) : (<<first>> \o u)[i] = u[i - 1]
  BY <1>9, ConcatProperties
<1>11. /\ order \in Seq(D) /\ Len(order) = 1 + m + n
       /\ order[1] = first
       /\ \A i \in 2 .. (1 + m) : order[i] = u[i - 1]
       /\ \A i \in (2 + m) .. (1 + m + n) : order[i] = d[i - (1 + m)]
  <2> DEFINE head == <<first>> \o u
  <2>1. /\ head \in Seq(D) /\ Len(head) = 1 + m /\ head[1] = first
        /\ \A i \in 2 .. (1 + m) : head[i] = u[i - 1]
    BY <1>10
  <2>2. order = head \o d
    BY <1>5
  <2> HIDE DEF head
  <2>3. /\ order \in Seq(D) /\ Len(order) = Len(head) + Len(d)
        /\ \A i \in 1 .. (Len(head) + Len(d)) : order[i] = IF i <= Len(head) THEN head[i] ELSE d[i - Len(head)]
    BY <1>9, <2>1, <2>2, ConcatProperties
  <2>4. /\ order \in Seq(D) /\ Len(order) = 1 + m + n
        /\ \A i \in 1 .. (1 + m + n) : order[i] = IF i <= 1 + m THEN head[i] ELSE d[i - (1 + m)]
    BY <1>9, <2>1, <2>3
  <2> QED BY <1>3, <1>4, <2>1, <2>4
<1>12. /\ DOMAIN order = 1 .. (1 + m + n)
       /\ \A i \in 2 .. (1 + m) : order[i] \in up
       /\ \A i \in (2 + m) .. (1 + m + n) : order[i] \in down
  <2>1. DOMAIN order = 1 .. (1 + m + n)
    BY <1>11
  <2>2. ASSUME NEW i \in 2 .. (1 + m) PROVE order[i] \in up
    <3>1. i - 1 \in 1 .. m
      BY <1>3, <1>4
    <3> QED BY <1>3, <1>11, <3>1
  <2>3. ASSUME NEW i \in (2 + m) .. (1 + m + n) PROVE order[i] \in down
    <3>1. i - (1 + m) \in 1 .. n
      BY <1>3, <1>4
    <3> QED BY <1>4, <1>11, <3>1
  <2> QED BY <2>1, <2>2, <2>3
<1>13. \A x \in D : \E i \in DOMAIN order : order[i] = x
  <2> SUFFICES ASSUME NEW x \in D PROVE \E i \in DOMAIN order : order[i] = x
    OBVIOUS
  <2>1. CASE x = first
    <3>1. 1 \in DOMAIN order
      BY <1>12
    <3> QED BY <1>11, <2>1, <3>1
  <2>2. CASE x \in up
    <3>1. PICK i \in 1 .. m : u[i] = x
      BY <1>3, <2>2
    <3>2. i + 1 \in 2 .. (1 + m) /\ i + 1 \in DOMAIN order /\ (i + 1) - 1 = i
      BY <1>12
    <3> QED BY <1>11, <3>1, <3>2
  <2>3. CASE x \in down
    <3>1. PICK i \in 1 .. n : d[i] = x
      BY <1>4, <2>3
    <3>2. i + 1 + m \in (2 + m) .. (1 + m + n) /\ i + 1 + m \in DOMAIN order /\ (i + 1 + m) - (1 + m) = i
      BY <1>12
    <3> QED BY <1>11, <3>1, <3>2
  <2> QED BY <1>8, <2>1, <2>2, <2>3
<1>14. \A i, j \in DOMAIN order : i < j => order[i] # order[j]
  <2> SUFFICES ASSUME NEW i \in DOMAIN order, NEW j \in DOMAIN order, i < j PROVE order[i] # order[j]
    OBVIOUS
  <2>1. i \in 1 .. (1 + m + n) /\ j \in 1 .. (1 + m + n)
    BY <1>12
  <2>2. CASE i = 1
    <3>1. j \in 2 .. (1 + m) \/ j \in (2 + m) .. (1 + m + n)
      BY <2>1, <2>2
    <3> QED BY <1>6, <1>7, <1>11, <1>12, <2>2, <3>1
  <2>3. CASE i \in 2 .. (1 + m) /\ j \in 2 .. (1 + m)
    <3>1. i - 1 \in 1 .. m /\ j - 1 \in 1 .. m /\ i - 1 < j - 1
      BY <2>3
    <3> QED BY <1>3, <1>11, <2>3, <3>1
  <2>4. CASE i \in 2 .. (1 + m) /\ j \in (2 + m) .. (1 + m + n)
    <3>1. p[order[i]].tier > p[first].tier /\ p[order[j]].tier <= p[first].tier /\ order[i] \in D /\ order[j] \in D
      BY <1>6, <1>7, <1>12, <2>4
    <3>2. p[order[i]].tier \in Int /\ p[order[j]].tier \in Int /\ p[first].tier \in Int
      BY <1>1, <3>1 DEF D
    <3> QED BY <3>1, <3>2
  <2>5. CASE i \in (2 + m) .. (1 + m + n) /\ j \in (2 + m) .. (1 + m + n)
    <3>1. i - (1 + m) \in 1 .. n /\ j - (1 + m) \in 1 .. n /\ i - (1 + m) < j - (1 + m)
      BY <2>5
    <3> QED BY <1>4, <1>11, <2>5, <3>1
  <2> QED BY <2>1, <2>2, <2>3, <2>4, <2>5
<1>15. \A i, j \in DOMAIN order : order[i] = order[j] => i = j
  <2> SUFFICES ASSUME NEW i \in DOMAIN order, NEW j \in DOMAIN order, i # j PROVE order[i] # order[j]
    OBVIOUS
  <2>1. i < j \/ j < i
    BY <1>12
  <2> QED BY <1>14, <2>1
<1>16. ASSUME NEW i \in DOMAIN order, NEW j \in DOMAIN order, 1 < i, i < j
       PROVE  /\ p[order[j]].tier > p[first].tier => /\ p[order[i]].tier > p[first].tier
                                                     /\ p[order[i]].tier <= p[order[j]].tier
              /\ p[order[i]].tier <= p[first].tier => p[order[j]].tier <= p[order[i]].tier
  <2>1. /\ i \in 2 .. (1 + m) \/ i \in (2 + m) .. (1 + m + n)
        /\ j \in 2 .. (1 + m) \/ j \in (2 + m) .. (1 + m + n)
    BY <1>12, <1>16
  <2>2. order[i] \in D /\ order[j] \in D /\ first \in D
    BY <1>11 DEF D
  <2>3. p[order[i]].tier \in Int /\ p[order[j]].tier \in Int /\ p[first].tier \in Int
    BY <1>1, <2>2
  <2>4. CASE j \in 2 .. (1 + m)
    <3>1. i \in 2 .. (1 + m) /\ i - 1 \in 1 .. m /\ j - 1 \in 1 .. m /\ i - 1 < j - 1
      BY <1>16, <2>1, <2>4
    <3>2. p[order[i]].tier <= p[order[j]].tier
      BY <1>3, <1>11, <2>4, <3>1
    <3>3. p[order[i]].tier > p[first].tier
      BY <1>6, <1>12, <3>1
    <3> QED BY <2>3, <3>2, <3>3
  <2>5. CASE i \in 2 .. (1 + m) /\ j \in (2 + m) .. (1 + m + n)
    <3>1. p[order[i]].tier > p[first].tier /\ p[order[j]].tier <= p[first].tier
      BY <1>6, <1>7, <1>12, <2>5
    <3> QED BY <2>3, <3>1
  <2>6. CASE i \in (2 + m) .. (1 + m + n) /\ j \in (2 + m) .. (1 + m + n)
    <3>1. i - (1 + m) \in 1 .. n /\ j - (1 + m) \in 1 .. n /\ i - (1 + m) < j - (1 + m)
      BY <1>16, <2>6
    <3>2. p[order[i]].tier >= p[order[j]].tier
      BY <1>4, <1>11, <2>6, <3>1
    <3>3. p[order[j]].tier <= p[first].tier
      BY <1>7, <1>12, <2>6
    <3> QED BY <2>3, <3>2, <3>3
  <2> QED BY <1>16, <2>1, <2>4, <2>5, <2>6
<1>17. order # <<>>
  BY <1>11
<1>20. IsFallbackOrder(order, p, first)
  BY <1>11, <1>13, <1>15, <1>16, <1>17 DEF IsFallbackOrder, D
<1> QED BY <1>20 DEF order

\* The pool of a request that could be served, in the order it is tried.
AttemptOrder(q, gone) ==
    LET chain == Listed(q.pool, FallbackOrder(q.pool, q.first))
    IN  Keep(chain, {k \in DOMAIN chain : chain[k].server \notin gone})

\* What JevFailsOpen and FallbackStepsUp say of one request.
NobodyLeftOut(q, gone) ==
    /\ IsInjective(q.pool) => IsInjective(q.attempts)
    /\ \A c \in ToSet(q.pool) : c \in ToSet(q.attempts) \/ c.server \in gone
StepsUp(q) ==
    LET a == q.attempts
        top == q.pool[q.first].tier
    IN  \A i, j \in 1 .. Len(a) : i < j /\ a[i].id # q.pool[q.first].id =>
            /\ a[j].tier > top => a[i].tier > top /\ a[i].tier <= a[j].tier
            /\ a[i].tier <= top => a[j].tier <= a[i].tier

\* The attempts are the candidates that are still defined, each as often as the
\* pool has it, the choice first and then up before down.
LEMMA AttemptOrderIs ==
    ASSUME NEW q, q.pool \in Seq(Candidate), q.first \in DOMAIN q.pool, NEW gone,
           q.attempts = AttemptOrder(q, gone)
    PROVE  q.attempts \in Seq(Candidate) /\ NobodyLeftOut(q, gone) /\ StepsUp(q)
<1> DEFINE p == q.pool
           a == q.attempts
           first == q.first
           order == FallbackOrder(p, first)
           chain == Listed(p, order)
           I == {k \in DOMAIN chain : chain[k].server \notin gone}
           m == Cardinality(I)
<1>1. /\ order \in Seq(DOMAIN p) /\ order[1] = first
      /\ \A x \in DOMAIN p : \E i \in DOMAIN order : order[i] = x
      /\ \A i, j \in DOMAIN order : order[i] = order[j] => i = j
      /\ \A i, j \in DOMAIN order : 1 < i /\ i < j =>
            /\ p[order[j]].tier > p[first].tier => /\ p[order[i]].tier > p[first].tier
                                                   /\ p[order[i]].tier <= p[order[j]].tier
            /\ p[order[i]].tier <= p[first].tier => p[order[j]].tier <= p[order[i]].tier
  <2>1. IsFallbackOrder(order, p, first)
    BY FallbackOrderIs
  <2> QED BY <2>1 DEF IsFallbackOrder
<1>2. \A i \in DOMAIN p : p[i] \in Candidate
  BY Elements
<1> HIDE DEF order
<1>3. /\ DOMAIN order = 1 .. Len(order) /\ Len(order) \in Nat /\ \A i \in DOMAIN order : order[i] \in DOMAIN p
  BY <1>1, Elements
<1>4. /\ DOMAIN chain = DOMAIN order /\ chain \in Seq(Candidate)
      /\ \A k \in DOMAIN order : chain[k] = p[order[k]]
  <2>1. chain = [k \in 1 .. Len(order) |-> p[order[k]]]
    BY <1>3 DEF Listed
  <2> QED BY <1>2, <1>3, <2>1
<1>5. a = Keep(chain, I)
  BY DEF AttemptOrder, order
<1>14. \A k \in DOMAIN chain : k \in I <=> chain[k].server \notin gone
  OBVIOUS
<1>15. I \in SUBSET DOMAIN chain
  OBVIOUS
<1> HIDE DEF I, chain, p, a
<1>6. PICK f : IsPart(a, m, f, chain, I, Candidate)
  BY <1>4, <1>5, <1>15, KeepIs
<1>7. /\ m \in Nat /\ f \in [1 .. m -> I] /\ a \in Seq(Candidate) /\ Len(a) = m
      /\ \A k \in 1 .. m : a[k] = chain[f[k]]
      /\ \A i, j \in 1 .. m : (i < j => f[i] < f[j]) /\ (f[i] = f[j] => i = j)
      /\ \A x \in I : \E i \in 1 .. m : f[i] = x
  BY <1>6 DEF IsPart
<1> HIDE DEF m
<1>8. DOMAIN a = 1 .. m
  BY <1>7
<1>9. \A k \in 1 .. m : f[k] \in DOMAIN order /\ order[f[k]] \in DOMAIN p /\ a[k] = p[order[f[k]]]
  BY <1>3, <1>4, <1>7, <1>15
<1>10. ASSUME IsInjective(p) PROVE IsInjective(a)
  <2> SUFFICES ASSUME NEW i \in 1 .. m, NEW j \in 1 .. m, a[i] = a[j] PROVE i = j
    BY <1>8 DEF IsInjective
  <2>1. order[f[i]] = order[f[j]]
    BY <1>9, <1>10 DEF IsInjective
  <2>2. f[i] = f[j]
    BY <1>1, <1>9, <2>1
  <2> QED BY <1>7, <2>2
<1>11. ASSUME NEW c \in ToSet(p), c.server \notin gone PROVE c \in ToSet(a)
  <2>1. PICK x \in DOMAIN p : c = p[x]
    BY DEF ToSet
  <2>2. PICK i \in DOMAIN order : order[i] = x
    BY <1>1
  <2>3. i \in I /\ chain[i] = c
    BY <1>4, <1>11, <1>14, <2>1, <2>2
  <2>4. PICK k \in 1 .. m : f[k] = i
    BY <1>7, <2>3
  <2>5. a[k] = c /\ k \in DOMAIN a
    BY <1>7, <1>8, <2>3, <2>4
  <2> QED BY <2>5 DEF ToSet
<1>12. ASSUME NEW i \in 1 .. m, NEW j \in 1 .. m, i < j, a[i].id # p[first].id
       PROVE  /\ a[j].tier > p[first].tier => a[i].tier > p[first].tier /\ a[i].tier <= a[j].tier
              /\ a[i].tier <= p[first].tier => a[j].tier <= a[i].tier
  <2>1. f[i] # 1
    BY <1>1, <1>9, <1>12
  <2>2. f[i] \in DOMAIN order /\ f[j] \in DOMAIN order /\ 1 < f[i] /\ f[i] < f[j]
    BY <1>3, <1>7, <1>9, <1>12, <2>1
  <2> QED BY <1>1, <1>9, <2>2
<1>13. /\ a \in Seq(Candidate)
       /\ IsInjective(p) => IsInjective(a)
       /\ \A c \in ToSet(p) : c \in ToSet(a) \/ c.server \in gone
       /\ \A i, j \in 1 .. Len(a) : i < j /\ a[i].id # p[first].id =>
            /\ a[j].tier > p[first].tier => a[i].tier > p[first].tier /\ a[i].tier <= a[j].tier
            /\ a[i].tier <= p[first].tier => a[j].tier <= a[i].tier
  BY <1>7, <1>10, <1>11, <1>12
<1> QED BY <1>13 DEF NobodyLeftOut, StepsUp, p, a

\* A filter that keeps some part of a pool.
LEMMA PartOfPool ==
    ASSUME NEW E, NEW p \in Seq(E), NEW I \in SUBSET DOMAIN p
    PROVE  Keep(p, I) \in Seq(E) /\ \A k \in DOMAIN Keep(p, I) : \E i \in DOMAIN p : Keep(p, I)[k] = p[i]
<1>1. PICK f : IsPart(Keep(p, I), Cardinality(I), f, p, I, E)
  BY KeepIs
<1> QED BY <1>1 DEF IsPart

\* The filters fail open: a pool with candidates keeps some.
LEMMA FilteredIs ==
    ASSUME NEW p \in Seq(Candidate), p # <<>>, NEW said, NEW images
    PROVE  Filtered(p, said, images) \in Seq(Candidate) /\ Filtered(p, said, images) # <<>>
<1> DEFINE text == OrAll(NotAudio(p, said), p)
<1>1. NotAudio(p, said) \in Seq(Candidate)
  BY PartOfPool DEF NotAudio
<1>2. text \in Seq(Candidate) /\ text # <<>>
  BY <1>1 DEF OrAll
<1>3. Filtered(p, said, images) = IF images THEN OrAll(Seeing(text, said), text) ELSE text
  BY DEF Filtered
<1> HIDE DEF text
<1>4. Seeing(text, said) \in Seq(Candidate)
  BY <1>2, PartOfPool DEF Seeing
<1>5. OrAll(Seeing(text, said), text) \in Seq(Candidate) /\ OrAll(Seeing(text, said), text) # <<>>
  BY <1>2, <1>4 DEF OrAll
<1> QED BY <1>2, <1>3, <1>5

\* The enabled candidates of the rule, and the backends they name.
LEMMA EnabledIs ==
    ASSUME NEW p \in Pools
    PROVE  /\ EnabledCandidates(p) \in Seq(Candidate)
           /\ \A k \in DOMAIN EnabledCandidates(p) : EnabledCandidates(p)[k].server \in CandidateServers
<1> DEFINE I == {i \in DOMAIN p : p[i].enabled}
           on == EnabledCandidates(p)
<1>1. p \in Seq(Candidate)
  BY JevAssumption
<1>2. I \in SUBSET DOMAIN p
  OBVIOUS
<1>3. on = Keep(p, I)
  BY DEF EnabledCandidates
<1> HIDE DEF I, on
<1>4. on \in Seq(Candidate) /\ \A k \in DOMAIN on : \E i \in DOMAIN p : on[k] = p[i]
  BY <1>1, <1>2, <1>3, PartOfPool
<1>5. \A i \in DOMAIN p : p[i] \in Candidates
  BY DEF Candidates, ToSet
<1>6. \A k \in DOMAIN on : on[k] \in Candidates
  BY <1>4, <1>5
<1>7. \A k \in DOMAIN on : on[k].server \in CandidateServers
  BY <1>6 DEF CandidateServers
<1> QED BY <1>4, <1>7 DEF on

-----------------------------------------------------------------------------
(* The decision router.                                                    *)

JevChoices == STRING \cup {NoChoice}
JevReasons == {"", "off", "sticky", "cache", "unavailable", "jev", "unknown-choice", "blocked"}
JevPc == {"idle", "filter", "probe", "decide", "asking", "settle", "order", "routed"}
JevPin == [choice : JevChoices, left : Int]
JevEntry == [choice : JevChoices, confidence : Int, reason : JevReasons, left : Int]
JevReq ==
    [pc : JevPc, turn : Turn \cup {NoTurn}, said : [CandidateServers -> Listings] \cup {<<>>}, k : Nat,
     pool : Seq(Candidate), choice : JevChoices, confidence : Int, reason : JevReasons, first : Nat,
     attempts : Seq(Candidate), due : JevChoices]

\* What NoRiskyStep and LoopKeepsModel say of one request.
NotRisky(q, tier) ==
    LET def == q.pool[jevTierIndex(q.pool, tier)].tier
        t == q.pool[q.first].tier
    IN  /\ t < def => ~q.turn.large /\ (q.reason = "sticky" \/ q.confidence >= MinConfidence)
        /\ q.reason \in {"jev", "cache"} /\ q.confidence < MinConfidence => t <= def + 1
KeepsModel(q) == q.due \in ToSet(Ids(q.pool)) /\ ~q.turn.large => q.pool[q.first].id = q.due

\* Where a handler can be: while it asks for the capabilities it is at one of the
\* rule's candidates; from then on its pool is not empty; a request that is due
\* on a model of its pool leaves Decide with that pin; and the clamps and the
\* order have done what the properties ask.
JevReqOK(q, candidates, tier, gone) ==
    /\ q.pc \in {"filter", "probe"} =>
        q.k \in DOMAIN EnabledCandidates(candidates) /\ q.said \in [CandidateServers -> Listings]
    /\ q.pc \in {"decide", "asking", "settle"} => q.pool # <<>>
    /\ q.pc = "asking" => q.due = NoChoice
    /\ q.pc = "settle" /\ q.due \in ToSet(Ids(q.pool)) => q.choice = q.due /\ q.reason = "sticky"
    /\ q.pc = "order" \/ (q.pc = "routed" /\ q.reason # "blocked") =>
        q.pool # <<>> /\ q.first \in DOMAIN q.pool /\ NotRisky(q, tier)
    /\ q.pc = "order" => KeepsModel(q)
    /\ q.pc = "routed" /\ q.reason # "blocked" => NobodyLeftOut(q, gone) /\ StepsUp(q)

JevState ==
    /\ pool0 \in Pools /\ tier0 \in DefaultTiers
    /\ listing \in [CandidateServers -> Listings]
    /\ caps \in [CandidateServers -> [said : Listings, left : 0 .. CapsTTL]]
    /\ jevCache \in [DOMAIN jevCache -> JevEntry]
    /\ jevSticky \in [DOMAIN jevSticky -> JevPin] /\ "" \notin DOMAIN jevSticky
    /\ jhome \in [DOMAIN jhome -> JevPin] /\ "" \notin DOMAIN jhome

\* The store of pins knows every conversation that is still bound.
JevPinsAgree ==
    \A c \in DOMAIN jhome : jhome[c].left >= 0 => c \in DOMAIN jevSticky /\ jevSticky[c] = jhome[c]

JevHandlers ==
    /\ jreq \in [JevRequest -> JevReq]
    /\ \A r \in JevRequest : JevReqOK(jreq[r], pool0, tier0, undefined)

\* The inductive invariant of the decision router.
JevInv == JevState /\ JevPinsAgree /\ JevHandlers

\* A step of one handler, while the rule and the servers stay.
LEMMA JevOneStep ==
    ASSUME JevHandlers, NEW r \in JevRequest, NEW new \in JevReq, JevReqOK(new, pool0, tier0, undefined),
           jreq' = [jreq EXCEPT ![r] = new], pool0' = pool0, tier0' = tier0, undefined' = undefined
    PROVE  JevHandlers'
<1>1. jreq' \in [JevRequest -> JevReq]
  BY DEF JevHandlers
<1>2. ASSUME NEW x \in JevRequest PROVE JevReqOK(jreq'[x], pool0, tier0, undefined)
  BY DEF JevHandlers
<1> QED BY <1>1, <1>2 DEF JevHandlers

\* The invariant gives the properties.
LEMMA JevInvSays ==
    ASSUME JevInv
    PROVE  JevTypeOK /\ JevFailsOpen /\ FallbackStepsUp /\ NoRiskyStep /\ LoopKeepsModel
<1>1. \A r \in JevRequest : JevReqOK(jreq[r], pool0, tier0, undefined)
  BY DEF JevInv, JevHandlers
<1>2. JevTypeOK
  BY <1>1 DEF JevInv, JevState, JevReqOK, JevTypeOK
<1>3. JevFailsOpen
  BY <1>1 DEF JevReqOK, JevFailsOpen, Routed, NobodyLeftOut
<1>4. FallbackStepsUp
  BY <1>1 DEF JevReqOK, FallbackStepsUp, Routed, StepsUp
<1>5. NoRiskyStep
  BY <1>1 DEF JevReqOK, NoRiskyStep, NotRisky
<1>6. LoopKeepsModel
  BY <1>1 DEF JevReqOK, LoopKeepsModel, KeepsModel
<1> QED BY <1>2, <1>3, <1>4, <1>5, <1>6

\* A handler without a request.
LEMMA JevIdle ==
    Waiting \in JevReq /\ Waiting.pc = "idle"
<1> DEFINE none == <<>>
           Score == Int
<1>1. none \in Seq(Candidate)
  BY EmptySeq
<1>2. none \in [CandidateServers -> Listings] \cup {none} /\ NoTurn \in Turn \cup {NoTurn} /\ NoChoice \in JevChoices /\ 0 \in Score
  BY DEF JevChoices
<1>3. "idle" \in JevPc /\ "" \in JevReasons
  BY DEF JevPc, JevReasons
<1>4. Waiting.pc = "idle"
  BY DEF Waiting
<1> HIDE DEF none, Score
<1>5. [pc |-> "idle", turn |-> NoTurn, said |-> none, k |-> 0, pool |-> none, choice |-> NoChoice,
       confidence |-> 0, reason |-> "", first |-> 0, attempts |-> none, due |-> NoChoice]
      \in [pc : JevPc, turn : Turn \cup {NoTurn}, said : [CandidateServers -> Listings] \cup {none}, k : Nat,
           pool : Seq(Candidate), choice : JevChoices, confidence : Score, reason : JevReasons, first : Nat,
           attempts : Seq(Candidate), due : JevChoices]
  BY <1>1, <1>2, <1>3
<1> QED BY <1>4, <1>5 DEF Waiting, JevReq, none, Score

\* Nothing is pinned, cached or asked before the first request.
LEMMA JevStart ==
    ASSUME JevInit
    PROVE  JevInv
<1>1. Waiting \in JevReq /\ Waiting.pc = "idle"
  BY JevIdle
<1>2. JevHandlers
  BY <1>1 DEF JevInit, JevHandlers, JevReqOK
<1>3. JevState
  BY JevAssumption DEF JevInit, JevState
<1>4. JevPinsAgree
  BY DEF JevInit, JevPinsAgree
<1> QED BY <1>2, <1>3, <1>4 DEF JevInv

\* A turn arrives: its handler starts with the rule's enabled candidates.
LEMMA JevArrivesStep ==
    ASSUME JevInv, NEW r \in JevRequest, NEW turn \in Turns, JevArrives(r, turn)
    PROVE  JevInv'
<1> DEFINE new == [Waiting EXCEPT !.pc = "filter", !.turn = turn, !.k = 1,
                                  !.said = [s \in CandidateServers |-> "silent"]]
           on == EnabledCandidates(pool0)
<1>1. Waiting \in JevReq /\ turn \in Turn /\ [s \in CandidateServers |-> "silent"] \in [CandidateServers -> Listings]
  BY JevIdle, JevAssumption
<1>2. /\ new \in JevReq /\ new.pc = "filter" /\ new.k = 1 /\ new.said \in [CandidateServers -> Listings]
  BY <1>1 DEF JevReq, JevPc
<1>3. 1 \in DOMAIN on
  <2>1. on \in Seq(Candidate) /\ on # <<>>
    BY EnabledIs DEF JevInv, JevState, JevArrives
  <2> HIDE DEF on
  <2> QED BY <2>1, Elements
<1>4. JevReqOK(new, pool0, tier0, undefined)
  <2> HIDE DEF new
  <2> QED BY <1>2, <1>3 DEF JevReqOK
<1>5. JevHandlers'
  <2>1. jreq' = [jreq EXCEPT ![r] = new] /\ pool0' = pool0 /\ tier0' = tier0 /\ undefined' = undefined
    BY DEF JevArrives, JStep
  <2> HIDE DEF new
  <2> QED BY <1>2, <1>4, <2>1, JevOneStep DEF JevInv
<1>6. JevState' /\ JevPinsAgree'
  BY DEF JevInv, JevState, JevPinsAgree, JevArrives
<1> QED BY <1>5, <1>6 DEF JevInv

\* What a handler learns moves it to the next candidate, or to the decision with
\* a pool that is not empty.
LEMMA LearnOK ==
    ASSUME JevInv, NEW q \in JevReq, q.pc \in {"filter", "probe"}, JevReqOK(q, pool0, tier0, undefined),
           NEW what \in Listings
    PROVE  /\ Learn(q, what) \in JevReq /\ JevReqOK(Learn(q, what), pool0, tier0, undefined)
           /\ Asked(q) \in CandidateServers
<1> DEFINE on == EnabledCandidates(pool0)
           said == [q.said EXCEPT ![Asked(q)] = what]
           next == [q EXCEPT !.pc = "filter", !.said = said, !.k = @ + 1]
           done == [q EXCEPT !.pc = "decide", !.said = <<>>, !.k = 0, !.pool = Filtered(on, said, q.turn.images)]
<1>1. on \in Seq(Candidate) /\ \A k \in DOMAIN on : on[k].server \in CandidateServers
  BY EnabledIs DEF JevInv, JevState
<1>2. q.k \in DOMAIN on /\ q.said \in [CandidateServers -> Listings] /\ Asked(q) = on[q.k].server
  BY DEF JevReqOK, Asked
<1>3. said \in [CandidateServers -> Listings]
  BY <1>2
<1>4. Learn(q, what) = IF q.k < Len(on) THEN next ELSE done
  BY DEF Learn
<1> HIDE DEF on, said
<1>5. Len(on) \in Nat /\ DOMAIN on = 1 .. Len(on) /\ on # <<>>
  BY <1>1, <1>2, Elements
<1>6. ASSUME q.k < Len(on) PROVE next \in JevReq /\ JevReqOK(next, pool0, tier0, undefined)
  <2>4. q.k + 1 \in Nat /\ said \in [CandidateServers -> Listings] \cup {<<>>}
    BY <1>2, <1>3, <1>5
  <2>1. next \in JevReq /\ next.pc = "filter" /\ next.k = q.k + 1 /\ next.said = said
    BY <2>4 DEF JevReq, JevPc
  <2>2. q.k + 1 \in DOMAIN on
    BY <1>2, <1>5, <1>6
  <2> HIDE DEF next
  <2> QED BY <1>3, <2>1, <2>2 DEF JevReqOK, on
<1>7. done \in JevReq /\ JevReqOK(done, pool0, tier0, undefined)
  <2> DEFINE pool == Filtered(on, said, q.turn.images)
             none == <<>>
  <2>1. pool \in Seq(Candidate) /\ pool # <<>>
    BY <1>1, <1>5, FilteredIs
  <2>2. none \in [CandidateServers -> Listings] \cup {<<>>}
    OBVIOUS
  <2>3. done = [q EXCEPT !.pc = "decide", !.said = none, !.k = 0, !.pool = pool]
    OBVIOUS
  <2> HIDE DEF pool, none, done
  <2>4. done \in JevReq /\ done.pc = "decide" /\ done.pool = pool
    BY <2>1, <2>2, <2>3 DEF JevReq, JevPc
  <2> QED BY <2>1, <2>4 DEF JevReqOK
<1>8. Asked(q) \in CandidateServers
  BY <1>1, <1>2
<1> QED BY <1>4, <1>6, <1>7, <1>8

\* A handler asks what the next candidate can do (Audio and Vision).
LEMMA AskCapsStep ==
    ASSUME JevInv, NEW r \in JevRequest, AskCaps(r)
    PROVE  JevInv'
<1> DEFINE q == jreq[r]
           s == Asked(q)
           new == IF s \in undefined THEN Learn(q, "silent")
                  ELSE IF FreshCaps(s) THEN Learn(q, caps[s].said)
                  ELSE [q EXCEPT !.pc = "probe"]
<1>1. q \in JevReq /\ q.pc = "filter" /\ JevReqOK(q, pool0, tier0, undefined) /\ "silent" \in Listings
  BY JevAssumption DEF JevInv, JevHandlers, AskCaps
<1>2. jreq' = [jreq EXCEPT ![r] = new] /\ pool0' = pool0 /\ tier0' = tier0 /\ undefined' = undefined
  BY DEF AskCaps, JStep
<1> HIDE DEF q
<1>3. s \in CandidateServers
  BY <1>1, LearnOK
<1>4. caps[s].said \in Listings
  BY <1>3 DEF JevInv, JevState
<1>5. LET p == [q EXCEPT !.pc = "probe"] IN p \in JevReq /\ JevReqOK(p, pool0, tier0, undefined)
  <2> DEFINE p == [q EXCEPT !.pc = "probe"]
  <2>1. p \in JevReq /\ p.pc = "probe" /\ p.k = q.k /\ p.said = q.said
    BY <1>1 DEF JevReq, JevPc
  <2> HIDE DEF p
  <2>2. JevReqOK(p, pool0, tier0, undefined)
    BY <1>1, <2>1 DEF JevReqOK
  <2> QED BY <2>1, <2>2 DEF p
<1>6. new \in JevReq /\ JevReqOK(new, pool0, tier0, undefined)
  BY <1>1, <1>4, <1>5, LearnOK
<1> HIDE DEF new
<1>7. JevHandlers'
  BY <1>2, <1>6, JevOneStep DEF JevInv
<1>8. JevState' /\ JevPinsAgree'
  BY DEF JevInv, JevState, JevPinsAgree, AskCaps
<1> QED BY <1>7, <1>8 DEF JevInv

\* The probe it waited for is back.
LEMMA ProbeReturnsStep ==
    ASSUME JevInv, NEW r \in JevRequest, NEW said \in Listings, ProbeReturns(r, said)
    PROVE  JevInv'
<1> DEFINE q == jreq[r]
           new == Learn(q, said)
<1>1. q \in JevReq /\ q.pc = "probe" /\ JevReqOK(q, pool0, tier0, undefined)
  BY DEF JevInv, JevHandlers, ProbeReturns
<1>2. jreq' = [jreq EXCEPT ![r] = new] /\ pool0' = pool0 /\ tier0' = tier0 /\ undefined' = undefined
  BY DEF ProbeReturns, JStep
<1>3. caps' = [caps EXCEPT ![Asked(q)] = [said |-> said, left |-> CapsTTL]]
  BY DEF ProbeReturns
<1> HIDE DEF q
<1>4. new \in JevReq /\ JevReqOK(new, pool0, tier0, undefined) /\ Asked(q) \in CandidateServers
  BY <1>1, LearnOK
<1> HIDE DEF new
<1>5. JevHandlers'
  BY <1>2, <1>4, JevOneStep DEF JevInv
<1>6. caps' \in [CandidateServers -> [said : Listings, left : 0 .. CapsTTL]]
  <2> DEFINE span == 0 .. CapsTTL
             entry == [said |-> said, left |-> CapsTTL]
  <2>1. CapsTTL \in span
    BY JevAssumption
  <2>2. caps \in [CandidateServers -> [said : Listings, left : span]]
    BY DEF JevInv, JevState
  <2> HIDE DEF span
  <2>3. entry \in [said : Listings, left : span]
    BY <2>1
  <2> HIDE DEF entry
  <2>4. caps' = [caps EXCEPT ![Asked(q)] = entry]
    BY <1>3 DEF entry
  <2>5. caps' \in [CandidateServers -> [said : Listings, left : span]]
    BY <1>4, <2>2, <2>3, <2>4
  <2> QED BY <2>5 DEF span
<1>7. JevState' /\ JevPinsAgree'
  BY <1>6 DEF JevInv, JevState, JevPinsAgree, ProbeReturns
<1> QED BY <1>5, <1>7 DEF JevInv

\* The health checker's listing is remembered as what its backend can do.
LEMMA ObserveStep ==
    ASSUME JevInv, NEW s \in CandidateServers, Observe(s)
    PROVE  JevInv'
<1>1. listing[s] \in Listings
  BY DEF JevInv, JevState
<1>2. caps' \in [CandidateServers -> [said : Listings, left : 0 .. CapsTTL]]
  <2> DEFINE span == 0 .. CapsTTL
             entry == [said |-> listing[s], left |-> CapsTTL]
  <2>1. CapsTTL \in span
    BY JevAssumption
  <2>2. caps \in [CandidateServers -> [said : Listings, left : span]]
    BY DEF JevInv, JevState
  <2>4. caps' = [caps EXCEPT ![s] = entry]
    BY DEF Observe
  <2> HIDE DEF span
  <2>3. entry \in [said : Listings, left : span]
    BY <1>1, <2>1
  <2> HIDE DEF entry
  <2>5. caps' \in [CandidateServers -> [said : Listings, left : span]]
    BY <2>2, <2>3, <2>4
  <2> QED BY <2>5 DEF span
<1>3. JevState' /\ JevPinsAgree'
  BY <1>2 DEF JevInv, JevState, JevPinsAgree, Observe
<1>4. JevHandlers'
  BY DEF JevInv, JevHandlers, Observe
<1> QED BY <1>3, <1>4 DEF JevInv

\* A backend lists other abilities.
LEMMA RelistsStep ==
    ASSUME JevInv, NEW s \in CandidateServers, NEW said \in Listings, Relists(s, said)
    PROVE  JevInv'
<1>1. listing' \in [CandidateServers -> Listings]
  BY DEF JevInv, JevState, Relists
<1>2. JevState' /\ JevPinsAgree'
  BY <1>1 DEF JevInv, JevState, JevPinsAgree, Relists
<1>3. JevHandlers'
  BY DEF JevInv, JevHandlers, Relists
<1> QED BY <1>2, <1>3 DEF JevInv

\* A backend is removed; handlers that know it skip it later.
LEMMA UndefineStep ==
    ASSUME JevInv, NEW s, Undefine(s)
    PROVE  JevInv'
<1>1. undefined' = undefined \cup {s} /\ jreq' = jreq /\ pool0' = pool0 /\ tier0' = tier0
  BY DEF Undefine
<1>2. ASSUME NEW r \in JevRequest PROVE JevReqOK(jreq[r], pool0, tier0, undefined \cup {s})
  <2>1. JevReqOK(jreq[r], pool0, tier0, undefined)
    BY DEF JevInv, JevHandlers
  <2>2. NobodyLeftOut(jreq[r], undefined) => NobodyLeftOut(jreq[r], undefined \cup {s})
    BY DEF NobodyLeftOut
  <2> QED BY <2>1, <2>2 DEF JevReqOK
<1>3. JevHandlers'
  BY <1>1, <1>2 DEF JevInv, JevHandlers
<1>4. JevState' /\ JevPinsAgree'
  BY DEF JevInv, JevState, JevPinsAgree, Undefine
<1> QED BY <1>3, <1>4 DEF JevInv

\* A handler is done and free for the next turn.
LEMMA JevDoneStep ==
    ASSUME JevInv, NEW r \in JevRequest, JevDone(r)
    PROVE  JevInv'
<1>1. Waiting \in JevReq /\ JevReqOK(Waiting, pool0, tier0, undefined)
  BY JevIdle DEF JevReqOK
<1>2. jreq' = [jreq EXCEPT ![r] = Waiting] /\ pool0' = pool0 /\ tier0' = tier0 /\ undefined' = undefined
  BY DEF JevDone, JStep
<1>3. JevHandlers'
  BY <1>1, <1>2, JevOneStep DEF JevInv
<1>4. JevState' /\ JevPinsAgree'
  BY DEF JevInv, JevState, JevPinsAgree, JevDone
<1> QED BY <1>3, <1>4 DEF JevInv

\* No candidate has the identity that stands for no choice.
LEMMA NoChoiceIsNoId ==
    ASSUME NEW p \in Seq(Candidate)
    PROVE  NoChoice \notin ToSet(Ids(p))
<1>1. \A i \in DOMAIN p : p[i].id # NoChoice
  <2> DEFINE Id == STRING \ {NoChoice}
  <2>1. Candidate = [id : Id, server : STRING, tier : Int, vision : {"yes", "no", "unset"}, enabled : BOOLEAN]
    BY DEF Candidate
  <2>2. \A x \in Id : x # NoChoice
    OBVIOUS
  <2>3. \A i \in DOMAIN p : p[i] \in Candidate
    BY Elements
  <2> HIDE DEF Id
  <2>4. \A i \in DOMAIN p : p[i].id \in Id
    BY <2>1, <2>3
  <2> QED BY <2>2, <2>4
<1> QED BY <1>1 DEF ToSet, Ids

\* Dropping an expired pin keeps every conversation that is still bound.
LEMMA DropKeeps ==
    ASSUME JevInv, NEW conv, ~Hit(jevSticky, conv), jhome' = jhome, jevSticky' = Drop(jevSticky, conv)
    PROVE  /\ jevSticky' \in [DOMAIN jevSticky' -> JevPin] /\ "" \notin DOMAIN jevSticky'
           /\ JevPinsAgree'
<1>1. /\ DOMAIN jevSticky' = DOMAIN jevSticky \ {conv}
      /\ \A k \in DOMAIN jevSticky' : jevSticky'[k] = jevSticky[k]
      /\ jevSticky' = [k \in DOMAIN jevSticky' |-> jevSticky[k]]
  BY DEF Drop
<1>2. jevSticky \in [DOMAIN jevSticky -> JevPin] /\ "" \notin DOMAIN jevSticky /\ JevPinsAgree
  BY DEF JevInv, JevState
<1>3. ASSUME NEW c \in DOMAIN jhome', jhome'[c].left >= 0
      PROVE  c \in DOMAIN jevSticky' /\ jevSticky'[c] = jhome'[c]
  <2>1. c \in DOMAIN jevSticky /\ jevSticky[c] = jhome[c]
    BY <1>2, <1>3 DEF JevPinsAgree
  <2>2. c # conv
    BY <1>3, <2>1 DEF Hit
  <2> QED BY <1>1, <2>1, <2>2
<1>4. jevSticky' \in [DOMAIN jevSticky' -> JevPin] /\ "" \notin DOMAIN jevSticky'
  BY <1>1, <1>2
<1>5. JevPinsAgree'
  BY <1>3 DEF JevPinsAgree
<1> QED BY <1>4, <1>5

\* A handler that is ready to settle, with a verdict of the given kind.
Verdict(q, choice, confidence, why, due) ==
    [q EXCEPT !.pc = "settle", !.choice = choice, !.confidence = confidence, !.reason = why, !.due = due]

\* A verdict reached without asking Jev: it names a candidate, and honours the pin.
LEMMA ReadyToSettle ==
    ASSUME NEW q \in JevReq, q.pool # <<>>, NEW choice \in JevChoices, NEW confidence \in Int,
           NEW why \in JevReasons, NEW due \in JevChoices,
           due \in ToSet(Ids(q.pool)) => choice = due /\ why = "sticky",
           NEW new, new = Verdict(q, choice, confidence, why, due)
    PROVE  new \in JevReq /\ JevReqOK(new, pool0, tier0, undefined)
<1> DEFINE Score == Int
<1>1. confidence \in Score
  OBVIOUS
<1>2. q \in [pc : JevPc, turn : Turn \cup {NoTurn}, said : [CandidateServers -> Listings] \cup {<<>>}, k : Nat,
             pool : Seq(Candidate), choice : JevChoices, confidence : Score, reason : JevReasons, first : Nat,
             attempts : Seq(Candidate), due : JevChoices]
  BY DEF JevReq
<1>3. "settle" \in JevPc
  BY DEF JevPc
<1> HIDE DEF Score
<1>4. new \in [pc : JevPc, turn : Turn \cup {NoTurn}, said : [CandidateServers -> Listings] \cup {<<>>}, k : Nat,
             pool : Seq(Candidate), choice : JevChoices, confidence : Score, reason : JevReasons, first : Nat,
             attempts : Seq(Candidate), due : JevChoices]
  BY <1>1, <1>2, <1>3 DEF Verdict
<1>5. new.pc = "settle" /\ new.pool = q.pool /\ new.choice = choice /\ new.reason = why /\ new.due = due
  BY <1>2 DEF Verdict
<1>6. JevReqOK(new, pool0, tier0, undefined)
  BY <1>5 DEF JevReqOK
<1> QED BY <1>4, <1>6 DEF JevReq, Score

\* A bypass, the pin of a tool turn or the cache decides, or Jev has to be asked.
LEMMA DecideStep ==
    ASSUME JevInv, NEW r \in JevRequest, Decide(r)
    PROVE  JevInv'
<1> DEFINE q == jreq[r]
           t == q.turn
           silent == t.text = "" /\ ~t.images
           pin == IF Hit(jevSticky, t.conv) THEN jevSticky[t.conv].choice ELSE NoChoice
           key == CacheKey(q)
           due == IF silent /\ ~t.off THEN JDue(t.conv) ELSE NoChoice
           bare == [q EXCEPT !.pc = "settle", !.due = due]
           Becomes(new) == jreq' = [jreq EXCEPT ![r] = new]
           Good(new) == new \in JevReq /\ JevReqOK(new, pool0, tier0, undefined)
<1>1. q \in JevReq /\ q.pc = "decide" /\ JevReqOK(q, pool0, tier0, undefined)
  BY DEF JevInv, JevHandlers, Decide
<1>2. q.pool # <<>> /\ q.pool \in Seq(Candidate) /\ q.choice \in JevChoices /\ q.confidence \in Int
  BY <1>1 DEF JevReqOK, JevReq
<1>3. NoChoice \notin ToSet(Ids(q.pool)) /\ NoChoice \in JevChoices
  BY <1>2, NoChoiceIsNoId DEF JevChoices
<1>4. /\ pool0' = pool0 /\ tier0' = tier0 /\ undefined' = undefined /\ listing' = listing /\ caps' = caps
      /\ jhome' = jhome
  BY DEF Decide
<1>5. /\ jevSticky \in [DOMAIN jevSticky -> JevPin] /\ "" \notin DOMAIN jevSticky
      /\ jhome \in [DOMAIN jhome -> JevPin] /\ "" \notin DOMAIN jhome
      /\ jevCache \in [DOMAIN jevCache -> JevEntry] /\ JevPinsAgree
  BY DEF JevInv, JevState
<1>6. /\ JDue(t.conv) \in JevChoices /\ pin \in JevChoices
      /\ JDue(t.conv) # NoChoice => t.conv # "" /\ pin = JDue(t.conv)
  <2>1. JDue(t.conv) \in JevChoices /\ pin \in JevChoices
    BY <1>3, <1>5 DEF JDue, JevPin, Hit
  <2>2. ASSUME JDue(t.conv) # NoChoice PROVE t.conv # "" /\ pin = JDue(t.conv)
    <3>1. t.conv \in DOMAIN jhome /\ jhome[t.conv].left >= 0 /\ JDue(t.conv) = jhome[t.conv].choice
      BY <2>2 DEF JDue
    <3>2. t.conv \in DOMAIN jevSticky /\ jevSticky[t.conv] = jhome[t.conv]
      BY <1>5, <3>1 DEF JevPinsAgree
    <3> QED BY <1>5, <3>1, <3>2 DEF Hit
  <2> QED BY <2>1, <2>2
<1>7. \/ /\ t.off /\ Becomes([bare EXCEPT !.reason = "off"]) /\ UNCHANGED <<jevCache, jevSticky>>
      \/ /\ ~t.off /\ silent
         /\ jevSticky' = IF t.conv # "" /\ ~Hit(jevSticky, t.conv) THEN Drop(jevSticky, t.conv) ELSE jevSticky
         /\ Becomes(IF t.conv # "" /\ pin \in ToSet(Ids(q.pool))
                    THEN [bare EXCEPT !.choice = pin, !.reason = "sticky"] ELSE [bare EXCEPT !.reason = "off"])
         /\ UNCHANGED jevCache
      \/ /\ ~t.off /\ ~silent /\ CacheTTL > 0 /\ Hit(jevCache, key)
         /\ Becomes(IF jevCache[key].reason = "blocked"
                    THEN [bare EXCEPT !.pc = "routed", !.reason = "blocked"]
                    ELSE [bare EXCEPT !.choice = jevCache[key].choice, !.confidence = jevCache[key].confidence,
                                      !.reason = "cache"])
         /\ UNCHANGED <<jevCache, jevSticky>>
      \/ /\ ~t.off /\ ~silent
         /\ jevCache' = IF CacheTTL > 0 THEN Drop(jevCache, key) ELSE jevCache
         /\ Becomes(IF "decider" \in undefined THEN [bare EXCEPT !.reason = "unavailable"]
                    ELSE [bare EXCEPT !.pc = "asking"])
         /\ UNCHANGED jevSticky
  BY DEF Decide, JStep
<1>8. \A why \in JevReasons :
        [bare EXCEPT !.reason = why] = Verdict(q, q.choice, q.confidence, why, due)
  BY <1>1 DEF JevReq, Verdict
<1>9. \A why \in JevReasons, choice \in JevChoices :
        [bare EXCEPT !.choice = choice, !.reason = why]
            = Verdict(q, choice, q.confidence, why, due)
  BY <1>1 DEF JevReq, Verdict
<1>10. \A why \in JevReasons, choice \in JevChoices, confidence \in Int :
        [bare EXCEPT !.choice = choice, !.confidence = confidence, !.reason = why]
            = Verdict(q, choice, confidence, why, due)
  <2> DEFINE Score == Int
  <2>1. q \in [pc : JevPc, turn : Turn \cup {NoTurn}, said : [CandidateServers -> Listings] \cup {<<>>}, k : Nat,
               pool : Seq(Candidate), choice : JevChoices, confidence : Score, reason : JevReasons, first : Nat,
               attempts : Seq(Candidate), due : JevChoices]
    BY <1>1 DEF JevReq
  <2> HIDE DEF Score, q, due
  <2> QED BY <2>1 DEF Verdict
<1>11. {"off", "sticky", "cache", "unavailable", "blocked"} \subseteq JevReasons /\ "routed" \in JevPc /\ "asking" \in JevPc
  BY DEF JevReasons, JevPc
<1>12. /\ t.off => due = NoChoice
       /\ ~silent => due = NoChoice
       /\ due \in JevChoices
       /\ ~t.off /\ silent => due = JDue(t.conv)
  BY <1>3, <1>6
<1>13. /\ [bare EXCEPT !.pc = "routed", !.reason = "blocked"] \in JevReq
       /\ [bare EXCEPT !.pc = "routed", !.reason = "blocked"].pc = "routed"
       /\ [bare EXCEPT !.pc = "routed", !.reason = "blocked"].reason = "blocked"
       /\ [bare EXCEPT !.pc = "asking"] \in JevReq
       /\ [bare EXCEPT !.pc = "asking"].pc = "asking"
       /\ [bare EXCEPT !.pc = "asking"].pool = q.pool
       /\ [bare EXCEPT !.pc = "asking"].due = due
  BY <1>1, <1>11, <1>12 DEF JevReq
<1> HIDE DEF q, due, bare, pin, silent, t
<1>14. CASE t.off /\ Becomes([bare EXCEPT !.reason = "off"]) /\ UNCHANGED <<jevCache, jevSticky>>
  <2> DEFINE new == [bare EXCEPT !.reason = "off"]
  <2>1. Good(new)
    BY <1>1, <1>2, <1>3, <1>8, <1>11, <1>12, <1>14, ReadyToSettle
  <2>2. Becomes(new)
    BY <1>14
  <2> HIDE DEF new
  <2>3. JevHandlers'
    BY <1>4, <2>1, <2>2, JevOneStep DEF JevInv
  <2>4. JevState' /\ JevPinsAgree'
    BY <1>4, <1>14 DEF JevInv, JevState, JevPinsAgree
  <2> QED BY <2>3, <2>4 DEF JevInv
<1>15. CASE /\ ~t.off /\ silent
            /\ jevSticky' = IF t.conv # "" /\ ~Hit(jevSticky, t.conv) THEN Drop(jevSticky, t.conv) ELSE jevSticky
            /\ Becomes(IF t.conv # "" /\ pin \in ToSet(Ids(q.pool))
                       THEN [bare EXCEPT !.choice = pin, !.reason = "sticky"] ELSE [bare EXCEPT !.reason = "off"])
            /\ UNCHANGED jevCache
  <2> DEFINE new == IF t.conv # "" /\ pin \in ToSet(Ids(q.pool))
                    THEN [bare EXCEPT !.choice = pin, !.reason = "sticky"] ELSE [bare EXCEPT !.reason = "off"]
  <2>1. ASSUME t.conv # "", pin \in ToSet(Ids(q.pool)) PROVE Good([bare EXCEPT !.choice = pin, !.reason = "sticky"])
    <3>1. due \in ToSet(Ids(q.pool)) => pin = due
      BY <1>3, <1>6, <1>12, <1>15
    <3>2. [bare EXCEPT !.choice = pin, !.reason = "sticky"] = Verdict(q, pin, q.confidence, "sticky", due)
      BY <1>6, <1>9, <1>11
    <3>3. "sticky" \in JevReasons /\ pin \in JevChoices /\ due \in JevChoices
      BY <1>6, <1>11, <1>12
    <3> QED BY <1>1, <1>2, <3>1, <3>2, <3>3, ReadyToSettle
  <2>2. ASSUME ~(t.conv # "" /\ pin \in ToSet(Ids(q.pool))) PROVE Good([bare EXCEPT !.reason = "off"])
    <3>1. due \notin ToSet(Ids(q.pool))
      BY <1>3, <1>6, <1>12, <1>15, <2>2
    <3> QED BY <1>1, <1>2, <1>8, <1>11, <1>12, <3>1, ReadyToSettle
  <2>3. Good(new)
    BY <2>1, <2>2
  <2>4. Becomes(new)
    BY <1>15
  <2> HIDE DEF new
  <2>5. JevHandlers'
    BY <1>4, <2>3, <2>4, JevOneStep DEF JevInv
  <2>6. jevSticky' \in [DOMAIN jevSticky' -> JevPin] /\ "" \notin DOMAIN jevSticky' /\ JevPinsAgree'
    <3>1. CASE t.conv # "" /\ ~Hit(jevSticky, t.conv)
      BY <1>4, <1>15, <3>1, DropKeeps
    <3>2. CASE ~(t.conv # "" /\ ~Hit(jevSticky, t.conv))
      BY <1>4, <1>5, <1>15, <3>2 DEF JevPinsAgree
    <3> QED BY <3>1, <3>2
  <2>7. JevState'
    BY <1>4, <1>15, <2>6 DEF JevInv, JevState
  <2> QED BY <2>5, <2>6, <2>7 DEF JevInv
<1>16. CASE /\ ~t.off /\ ~silent /\ CacheTTL > 0 /\ Hit(jevCache, key)
            /\ Becomes(IF jevCache[key].reason = "blocked"
                       THEN [bare EXCEPT !.pc = "routed", !.reason = "blocked"]
                       ELSE [bare EXCEPT !.choice = jevCache[key].choice, !.confidence = jevCache[key].confidence,
                                         !.reason = "cache"])
            /\ UNCHANGED <<jevCache, jevSticky>>
  <2> DEFINE e == jevCache[key]
             new == IF e.reason = "blocked" THEN [bare EXCEPT !.pc = "routed", !.reason = "blocked"]
                    ELSE [bare EXCEPT !.choice = e.choice, !.confidence = e.confidence, !.reason = "cache"]
  <2>1. e.choice \in JevChoices /\ e.confidence \in Int
    BY <1>5, <1>16 DEF Hit, JevEntry
  <2>2. Becomes(new)
    BY <1>16
  <2> HIDE DEF e
  <2>3. Good([bare EXCEPT !.choice = e.choice, !.confidence = e.confidence, !.reason = "cache"])
    <3>1. [bare EXCEPT !.choice = e.choice, !.confidence = e.confidence, !.reason = "cache"]
          = Verdict(q, e.choice, e.confidence, "cache", due)
      BY <1>10, <1>11, <2>1
    <3>2. due \notin ToSet(Ids(q.pool)) /\ "cache" \in JevReasons
      BY <1>3, <1>11, <1>12, <1>16
    <3> QED BY <1>1, <1>2, <1>12, <2>1, <3>1, <3>2, ReadyToSettle
  <2>4. Good([bare EXCEPT !.pc = "routed", !.reason = "blocked"])
    BY <1>13 DEF JevReqOK
  <2>5. Good(new)
    BY <2>3, <2>4
  <2> HIDE DEF new
  <2>6. JevHandlers'
    BY <1>4, <2>2, <2>5, JevOneStep DEF JevInv
  <2>7. JevState' /\ JevPinsAgree'
    BY <1>4, <1>16 DEF JevInv, JevState, JevPinsAgree
  <2> QED BY <2>6, <2>7 DEF JevInv
<1>17. CASE /\ ~t.off /\ ~silent
            /\ jevCache' = IF CacheTTL > 0 THEN Drop(jevCache, key) ELSE jevCache
            /\ Becomes(IF "decider" \in undefined THEN [bare EXCEPT !.reason = "unavailable"]
                       ELSE [bare EXCEPT !.pc = "asking"])
            /\ UNCHANGED jevSticky
  <2> DEFINE new == IF "decider" \in undefined THEN [bare EXCEPT !.reason = "unavailable"]
                    ELSE [bare EXCEPT !.pc = "asking"]
  <2>1. Good([bare EXCEPT !.reason = "unavailable"])
    BY <1>1, <1>2, <1>3, <1>8, <1>11, <1>12, <1>17, ReadyToSettle
  <2>2. Good([bare EXCEPT !.pc = "asking"])
    BY <1>2, <1>12, <1>13, <1>17 DEF JevReqOK
  <2>3. Good(new)
    BY <2>1, <2>2
  <2>4. Becomes(new)
    BY <1>17
  <2> HIDE DEF new
  <2>5. JevHandlers'
    BY <1>4, <2>3, <2>4, JevOneStep DEF JevInv
  <2>6. jevCache' \in [DOMAIN jevCache' -> JevEntry]
    BY <1>5, <1>17 DEF Drop
  <2>7. JevState' /\ JevPinsAgree'
    BY <1>4, <1>17, <2>6 DEF JevInv, JevState, JevPinsAgree
  <2> QED BY <2>5, <2>7 DEF JevInv
<1> QED BY <1>7, <1>14, <1>15, <1>16, <1>17

\* Jev does not answer: the handler goes on without it.
LEMMA AskFailsStep ==
    ASSUME JevInv, NEW r \in JevRequest, AskFails(r)
    PROVE  JevInv'
<1> DEFINE q == jreq[r]
           new == [q EXCEPT !.pc = "settle", !.reason = "unavailable"]
<1>1. q \in JevReq /\ q.pc = "asking" /\ JevReqOK(q, pool0, tier0, undefined)
  BY DEF JevInv, JevHandlers, AskFails
<1>2. jreq' = [jreq EXCEPT ![r] = new] /\ pool0' = pool0 /\ tier0' = tier0 /\ undefined' = undefined
  BY DEF AskFails, JStep
<1> HIDE DEF q
<1>3. /\ q.pool # <<>> /\ q.pool \in Seq(Candidate) /\ q.choice \in JevChoices /\ q.confidence \in Int
      /\ q.due = NoChoice /\ q.due \in JevChoices
  BY <1>1 DEF JevReqOK, JevReq
<1>4. q.due \notin ToSet(Ids(q.pool)) /\ "unavailable" \in JevReasons
  BY <1>3, NoChoiceIsNoId DEF JevReasons
<1>5. new = Verdict(q, q.choice, q.confidence, "unavailable", q.due)
  BY <1>1 DEF JevReq, Verdict
<1>6. new \in JevReq /\ JevReqOK(new, pool0, tier0, undefined)
  BY <1>1, <1>3, <1>4, <1>5, ReadyToSettle
<1> HIDE DEF new
<1>7. JevHandlers'
  BY <1>2, <1>6, JevOneStep DEF JevInv
<1>8. JevState' /\ JevPinsAgree'
  BY DEF JevInv, JevState, JevPinsAgree, AskFails
<1> QED BY <1>7, <1>8 DEF JevInv

IsPut(new, map, key, entry, E) ==
    /\ new \in [DOMAIN new -> E] /\ DOMAIN new \subseteq DOMAIN map \cup {key}
    /\ key \in DOMAIN new /\ new[key] = entry
    /\ \A k \in DOMAIN map : k # key /\ map[k].left >= 0 => k \in DOMAIN new /\ new[k] = map[k]

\* A put keeps what the map had that is not expired.
LEMMA PutIs ==
    ASSUME NEW E, NEW map, map \in [DOMAIN map -> E], NEW key, NEW entry \in E,
           NEW new, new = Put(map, key, entry)
    PROVE  IsPut(new, map, key, entry, E)
<1> DEFINE kept == Kept(map)
<1>1. kept \subseteq DOMAIN map /\ \A k \in DOMAIN map : map[k].left >= 0 => k \in kept
  BY DEF Kept
<1>2. new = [k \in kept \cup {key} |-> IF k = key THEN entry ELSE map[k]]
  BY DEF Put
<1> HIDE DEF kept
<1>3. /\ new \in [DOMAIN new -> E] /\ DOMAIN new \subseteq DOMAIN map \cup {key}
      /\ key \in DOMAIN new /\ new[key] = entry
      /\ \A k \in DOMAIN map : k # key /\ map[k].left >= 0 => k \in DOMAIN new /\ new[k] = map[k]
  BY <1>1, <1>2
<1> QED BY <1>3 DEF IsPut

\* Jev answers: its verdict is cached, whatever it is.
LEMMA JevAnswersStep ==
    ASSUME JevInv, NEW r \in JevRequest, NEW a \in Answers, JevAnswers(r, a)
    PROVE  JevInv'
<1> DEFINE q == jreq[r]
           why == IF Security /\ a.harm THEN "blocked"
                  ELSE IF a.choice \in ToSet(Ids(q.pool)) THEN "jev" ELSE "unknown-choice"
           entry == [choice |-> a.choice, confidence |-> a.confidence, reason |-> why, left |-> CacheTTL]
           new == [q EXCEPT !.pc = IF why = "blocked" THEN "routed" ELSE "settle",
                            !.choice = a.choice, !.confidence = a.confidence, !.reason = why]
<1>1. q \in JevReq /\ q.pc = "asking" /\ JevReqOK(q, pool0, tier0, undefined)
  BY DEF JevInv, JevHandlers, JevAnswers
<1>2. /\ jreq' = [jreq EXCEPT ![r] = new] /\ pool0' = pool0 /\ tier0' = tier0 /\ undefined' = undefined
      /\ listing' = listing /\ caps' = caps /\ jhome' = jhome /\ jevSticky' = jevSticky
      /\ jevCache' = IF CacheTTL > 0 THEN Put(jevCache, CacheKey(q), entry) ELSE jevCache
  BY DEF JevAnswers, JStep
<1>3. a.choice \in JevChoices /\ a.confidence \in Int /\ why \in JevReasons /\ CacheTTL \in Int
  BY JevAssumption DEF JevChoices, JevReasons, Answer
<1> HIDE DEF q, why
<1>4. entry \in JevEntry
  <2> DEFINE Score == Int
  <2>1. a.confidence \in Score /\ CacheTTL \in Score
    BY <1>3
  <2>2. JevEntry = [choice : JevChoices, confidence : Score, reason : JevReasons, left : Score]
    BY DEF JevEntry
  <2> HIDE DEF Score
  <2> QED BY <1>3, <2>1, <2>2
<1>5. /\ q.pool # <<>> /\ q.pool \in Seq(Candidate) /\ q.choice \in JevChoices /\ q.confidence \in Int
      /\ q.due = NoChoice /\ q.due \in JevChoices
  BY <1>1 DEF JevReqOK, JevReq
<1>6. q.due \notin ToSet(Ids(q.pool))
  BY <1>5, NoChoiceIsNoId
<1>7. new \in JevReq /\ JevReqOK(new, pool0, tier0, undefined)
  <2>1. CASE why = "blocked"
    <3> DEFINE Score == Int
    <3>1. a.confidence \in Score /\ "routed" \in JevPc
      BY <1>3 DEF JevPc
    <3>2. q \in [pc : JevPc, turn : Turn \cup {NoTurn}, said : [CandidateServers -> Listings] \cup {<<>>}, k : Nat,
                 pool : Seq(Candidate), choice : JevChoices, confidence : Score, reason : JevReasons, first : Nat,
                 attempts : Seq(Candidate), due : JevChoices]
      BY <1>1 DEF JevReq
    <3> HIDE DEF Score
    <3>3. new \in [pc : JevPc, turn : Turn \cup {NoTurn}, said : [CandidateServers -> Listings] \cup {<<>>}, k : Nat,
                   pool : Seq(Candidate), choice : JevChoices, confidence : Score, reason : JevReasons, first : Nat,
                   attempts : Seq(Candidate), due : JevChoices]
      BY <1>3, <2>1, <3>1, <3>2
    <3>4. new.pc = "routed" /\ new.reason = "blocked"
      BY <2>1, <3>2
    <3>5. JevReqOK(new, pool0, tier0, undefined)
      BY <3>4 DEF JevReqOK
    <3> QED BY <3>3, <3>5 DEF JevReq, Score
  <2>2. CASE why # "blocked"
    <3>1. new = Verdict(q, a.choice, a.confidence, why, q.due)
      <4> DEFINE Score == Int
      <4>1. q \in [pc : JevPc, turn : Turn \cup {NoTurn}, said : [CandidateServers -> Listings] \cup {<<>>}, k : Nat,
                   pool : Seq(Candidate), choice : JevChoices, confidence : Score, reason : JevReasons, first : Nat,
                   attempts : Seq(Candidate), due : JevChoices]
        BY <1>1 DEF JevReq
      <4> HIDE DEF Score
      <4> QED BY <2>2, <4>1 DEF Verdict
    <3> QED BY <1>1, <1>3, <1>5, <1>6, <3>1, ReadyToSettle
  <2> QED BY <2>1, <2>2
<1> HIDE DEF new, entry
<1>8. JevHandlers'
  BY <1>2, <1>7, JevOneStep DEF JevInv
<1>9. jevCache' \in [DOMAIN jevCache' -> JevEntry]
  <2>1. jevCache \in [DOMAIN jevCache -> JevEntry]
    BY DEF JevInv, JevState
  <2>2. CASE CacheTTL > 0
    <3>1. IsPut(jevCache', jevCache, CacheKey(q), entry, JevEntry)
      BY <1>2, <1>4, <2>1, <2>2, PutIs
    <3> QED BY <3>1 DEF IsPut
  <2> QED BY <1>2, <2>1, <2>2
<1>10. JevState' /\ JevPinsAgree'
  BY <1>2, <1>9 DEF JevInv, JevState, JevPinsAgree
<1> QED BY <1>8, <1>10 DEF JevInv

\* The clamps and the pin: the choice is in the pool, is not a risk, and is the
\* model the conversation is bound to; the pin that is stored is that choice.
LEMMA SettleStep ==
    ASSUME JevInv, NEW r \in JevRequest, Settle(r)
    PROVE  JevInv'
<1> DEFINE q == jreq[r]
           p == q.pool
           I == {i \in 1 .. Len(p) : p[i].id = q.choice}
           i == SelectInSeq(p, LAMBDA c : c.id = q.choice)
           first == Clamped(p, i, q.confidence, q.reason, q.turn.large)
           conv == q.turn.conv
           pin == [choice |-> p[first].id, left |-> JevStickyTTL]
           new == [q EXCEPT !.pc = "order", !.first = first]
<1>1. q \in JevReq /\ q.pc = "settle" /\ JevReqOK(q, pool0, tier0, undefined)
  BY DEF JevInv, JevHandlers, Settle
<1>2. /\ jreq' = [jreq EXCEPT ![r] = new] /\ pool0' = pool0 /\ tier0' = tier0 /\ undefined' = undefined
      /\ listing' = listing /\ caps' = caps /\ jevCache' = jevCache
      /\ jevSticky' = IF conv = "" THEN jevSticky ELSE Put(jevSticky, conv, pin)
      /\ jhome' = IF conv = "" THEN jhome
                  ELSE [k \in DOMAIN jhome \cup {conv} |-> IF k = conv THEN pin ELSE jhome[k]]
  BY DEF Settle, JStep
<1>3. /\ p # <<>> /\ p \in Seq(Candidate) /\ q.confidence \in Int /\ q.turn.large \in BOOLEAN
      /\ q.due \in ToSet(Ids(p)) => q.choice = q.due /\ q.reason = "sticky"
  <2>1. p # <<>> /\ p \in Seq(Candidate) /\ q.confidence \in Int /\ q.turn \in Turn \cup {NoTurn}
    BY <1>1 DEF JevReqOK, JevReq
  <2>2. q.turn.large \in BOOLEAN
    <3>1. CASE q.turn \in Turn
      BY <3>1 DEF Turn
    <3>2. CASE q.turn = NoTurn
      <4>1. NoTurn.large = FALSE
        BY DEF NoTurn
      <4> QED BY <3>2, <4>1
    <3> QED BY <2>1, <3>1, <3>2
  <2>3. q.due \in ToSet(Ids(p)) => q.choice = q.due /\ q.reason = "sticky"
    BY <1>1 DEF JevReqOK
  <2> QED BY <2>1, <2>2, <2>3
<1>4. tier0 \in Int
  BY JevAssumption DEF JevInv, JevState
<1>5. i = IF I # {} THEN Min(I) ELSE 0
  BY DEF SelectInSeq
<1>6. I \in SUBSET Nat /\ DOMAIN p = 1 .. Len(p)
  BY <1>3, Elements
<1> HIDE DEF q, p, I, i
<1>7. I # {} => Min(I) \in I
  BY <1>6, MinIn
<1>8. /\ i \in DOMAIN p \cup {0}
      /\ i # 0 => i \in DOMAIN p /\ p[i].id = q.choice
      /\ (\E x \in DOMAIN p : p[x].id = q.choice) => i # 0
  BY <1>5, <1>6, <1>7 DEF I
<1>9. /\ first \in DOMAIN p
      /\ p[first].tier < p[jevTierIndex(p, tier0)].tier
            => ~q.turn.large /\ (q.reason = "sticky" \/ q.confidence >= MinConfidence)
      /\ q.reason # "sticky" /\ q.confidence < MinConfidence
            => p[first].tier <= p[jevTierIndex(p, tier0)].tier + 1
      /\ i # 0 /\ q.reason = "sticky" /\ ~q.turn.large => first = i
  <2> DEFINE confidence == q.confidence
             why == q.reason
             large == q.turn.large
  <2>1. confidence \in Int /\ large \in BOOLEAN /\ first = Clamped(p, i, confidence, why, large)
        /\ p # <<>> /\ p \in Seq(Candidate) /\ tier0 \in Int /\ i \in DOMAIN p \cup {0}
    BY <1>3, <1>4, <1>8
  <2> HIDE DEF confidence, why, large
  <2>2. IsClamped(first, p, i, confidence, why, large)
    BY <2>1, ClampedIs
  <2> QED BY <2>2 DEF IsClamped, confidence, why, large
<1> HIDE DEF first
<1>10. p[first].id \in JevChoices
  <2> DEFINE Id == STRING \ {NoChoice}
  <2>1. p[first] \in Candidate
    BY <1>3, <1>9, Elements
  <2>2. Candidate = [id : Id, server : STRING, tier : Int, vision : {"yes", "no", "unset"}, enabled : BOOLEAN]
    BY DEF Candidate
  <2>3. Id \subseteq JevChoices
    BY DEF JevChoices
  <2> HIDE DEF Id
  <2> QED BY <2>1, <2>2, <2>3
<1>11. /\ new \in JevReq /\ new.pc = "order" /\ new.pool = p /\ new.first = first /\ new.turn = q.turn
       /\ new.reason = q.reason /\ new.confidence = q.confidence /\ new.due = q.due
  <2>1. first \in Nat /\ "order" \in JevPc
    BY <1>6, <1>9 DEF JevPc
  <2> QED BY <1>1, <2>1 DEF JevReq, p
<1> HIDE DEF new
<1>12. NotRisky(new, tier0)
  BY <1>9, <1>11 DEF NotRisky
<1>13. KeepsModel(new)
  <2> SUFFICES ASSUME q.due \in ToSet(Ids(p)), ~q.turn.large PROVE p[first].id = q.due
    BY <1>11 DEF KeepsModel
  <2>1. q.choice = q.due /\ q.reason = "sticky"
    BY <1>3
  <2>2. \E x \in DOMAIN p : p[x].id = q.choice
    BY <2>1 DEF ToSet, Ids
  <2> QED BY <1>8, <1>9, <2>1, <2>2
<1>14. JevReqOK(new, pool0, tier0, undefined)
  BY <1>3, <1>9, <1>11, <1>12, <1>13 DEF JevReqOK
<1>15. JevHandlers'
  BY <1>2, <1>11, <1>14, JevOneStep DEF JevInv
<1>16. pin \in JevPin
  <2> DEFINE Span == Int
  <2>1. JevStickyTTL \in Span
    BY JevAssumption
  <2>2. JevPin = [choice : JevChoices, left : Span]
    BY DEF JevPin
  <2> HIDE DEF Span
  <2> QED BY <1>10, <2>1, <2>2
<1> HIDE DEF pin, conv
<1>17. /\ jevSticky \in [DOMAIN jevSticky -> JevPin] /\ "" \notin DOMAIN jevSticky
       /\ jhome \in [DOMAIN jhome -> JevPin] /\ "" \notin DOMAIN jhome /\ JevPinsAgree
  BY DEF JevInv, JevState
<1>18. /\ jevSticky' \in [DOMAIN jevSticky' -> JevPin] /\ "" \notin DOMAIN jevSticky'
       /\ jhome' \in [DOMAIN jhome' -> JevPin] /\ "" \notin DOMAIN jhome' /\ JevPinsAgree'
  <2>1. CASE conv = ""
    BY <1>2, <1>17, <2>1 DEF JevPinsAgree
  <2>2. CASE conv # ""
    <3>1. /\ jevSticky' \in [DOMAIN jevSticky' -> JevPin]
          /\ DOMAIN jevSticky' \subseteq DOMAIN jevSticky \cup {conv}
          /\ conv \in DOMAIN jevSticky' /\ jevSticky'[conv] = pin
          /\ \A k \in DOMAIN jevSticky : k # conv /\ jevSticky[k].left >= 0 =>
                k \in DOMAIN jevSticky' /\ jevSticky'[k] = jevSticky[k]
      <4>1. IsPut(jevSticky', jevSticky, conv, pin, JevPin)
        BY <1>2, <1>16, <1>17, <2>2, PutIs
      <4> QED BY <4>1 DEF IsPut
    <3>2. /\ jhome' \in [DOMAIN jhome' -> JevPin] /\ DOMAIN jhome' = DOMAIN jhome \cup {conv}
          /\ jhome'[conv] = pin /\ \A k \in DOMAIN jhome : k # conv => jhome'[k] = jhome[k]
      BY <1>2, <1>16, <1>17, <2>2
    <3>3. JevPinsAgree'
      BY <1>17, <3>1, <3>2 DEF JevPinsAgree
    <3> QED BY <1>17, <2>2, <3>1, <3>2, <3>3
  <2> QED BY <2>1, <2>2
<1>19. JevState'
  BY <1>2, <1>18 DEF JevInv, JevState
<1> QED BY <1>15, <1>18, <1>19 DEF JevInv

\* The attempts are put in order, without the servers that are undefined.
LEMMA OrderStep ==
    ASSUME JevInv, NEW r \in JevRequest, Order(r)
    PROVE  JevInv'
<1> DEFINE q == jreq[r]
           a == AttemptOrder(q, undefined)
           new == [q EXCEPT !.pc = "routed", !.attempts = a]
<1>1. q \in JevReq /\ q.pc = "order" /\ JevReqOK(q, pool0, tier0, undefined)
  BY DEF JevInv, JevHandlers, Order
<1>2. jreq' = [jreq EXCEPT ![r] = new] /\ pool0' = pool0 /\ tier0' = tier0 /\ undefined' = undefined
  BY DEF Order, JStep, AttemptOrder
<1> HIDE DEF q
<1>3. q.pool # <<>> /\ q.pool \in Seq(Candidate) /\ q.first \in DOMAIN q.pool /\ NotRisky(q, tier0)
  BY <1>1 DEF JevReqOK, JevReq
<1>4. /\ new.pool = q.pool /\ new.first = q.first /\ new.attempts = a /\ new.pc = "routed"
      /\ new.turn = q.turn /\ new.reason = q.reason /\ new.confidence = q.confidence
  BY <1>1 DEF JevReq
<1>5. AttemptOrder(new, undefined) = a
  <2> HIDE DEF new
  <2> QED BY <1>4 DEF AttemptOrder
<1> HIDE DEF a
<1>6. a \in Seq(Candidate) /\ NobodyLeftOut(new, undefined) /\ StepsUp(new)
  <2> HIDE DEF new
  <2> QED BY <1>3, <1>4, <1>5, AttemptOrderIs
<1>7. new \in JevReq
  BY <1>1, <1>6 DEF JevReq, JevPc
<1> HIDE DEF new
<1>8. NotRisky(new, tier0)
  BY <1>3, <1>4 DEF NotRisky
<1>9. JevReqOK(new, pool0, tier0, undefined)
  BY <1>3, <1>4, <1>6, <1>8 DEF JevReqOK
<1>10. JevHandlers'
  BY <1>2, <1>7, <1>9, JevOneStep DEF JevInv
<1>11. JevState' /\ JevPinsAgree'
  BY DEF JevInv, JevState, JevPinsAgree, Order
<1> QED BY <1>10, <1>11 DEF JevInv

\* Ageing keeps a map of entries with a time left, entry by entry.
LEMMA AgedPins ==
    ASSUME NEW map, map \in [DOMAIN map -> JevPin]
    PROVE  /\ Aged(map) \in [DOMAIN map -> JevPin] /\ DOMAIN Aged(map) = DOMAIN map
           /\ \A k \in DOMAIN map : Aged(map)[k].left >= 0 => map[k].left >= 0
           /\ \A k \in DOMAIN map : Aged(map)[k] = [map[k] EXCEPT !.left = IF @ < 0 THEN @ ELSE @ - 1]
<1>1. Aged(map) = [k \in DOMAIN map |-> [map[k] EXCEPT !.left = IF @ < 0 THEN @ ELSE @ - 1]]
  BY DEF Aged
<1>2. ASSUME NEW k \in DOMAIN map
      PROVE  LET e == [map[k] EXCEPT !.left = IF @ < 0 THEN @ ELSE @ - 1]
             IN  e \in JevPin /\ (e.left >= 0 => map[k].left >= 0)
  <2>1. map[k] \in JevPin
    OBVIOUS
  <2> QED BY <2>1 DEF JevPin
<1> QED BY <1>1, <1>2

\* Time passes over the cached verdicts.
LEMMA AgedCache ==
    ASSUME NEW map, map \in [DOMAIN map -> JevEntry]
    PROVE  Aged(map) \in [DOMAIN Aged(map) -> JevEntry]
<1>1. Aged(map) = [k \in DOMAIN map |-> [map[k] EXCEPT !.left = IF @ < 0 THEN @ ELSE @ - 1]]
  BY DEF Aged
<1>2. ASSUME NEW k \in DOMAIN map
      PROVE  [map[k] EXCEPT !.left = IF @ < 0 THEN @ ELSE @ - 1] \in JevEntry
  <2>1. map[k] \in JevEntry
    OBVIOUS
  <2> QED BY <2>1 DEF JevEntry
<1> QED BY <1>1, <1>2

\* Time passes over pins and verdicts.
LEMMA JevTickStep ==
    ASSUME JevInv, JevTick
    PROVE  JevInv'
<1>1. /\ jevSticky \in [DOMAIN jevSticky -> JevPin] /\ "" \notin DOMAIN jevSticky
      /\ jhome \in [DOMAIN jhome -> JevPin] /\ "" \notin DOMAIN jhome /\ JevPinsAgree
      /\ jevCache \in [DOMAIN jevCache -> JevEntry]
      /\ caps \in [CandidateServers -> [said : Listings, left : 0 .. CapsTTL]]
  BY DEF JevInv, JevState
<1>2. /\ jevCache' = Aged(jevCache) /\ jevSticky' = Aged(jevSticky) /\ jhome' = Aged(jhome)
      /\ pool0' = pool0 /\ tier0' = tier0 /\ undefined' = undefined /\ listing' = listing /\ jreq' = jreq
      /\ caps' = [s \in DOMAIN caps |-> IF caps[s].left > 1 THEN [caps[s] EXCEPT !.left = @ - 1]
                                        ELSE [said |-> "silent", left |-> 0]]
  BY DEF JevTick
<1>3. caps' \in [CandidateServers -> [said : Listings, left : 0 .. CapsTTL]]
  <2> DEFINE span == 0 .. CapsTTL
  <2>1. 0 \in span /\ \A x \in span : x > 1 => x - 1 \in span
    BY JevAssumption
  <2>2. caps \in [CandidateServers -> [said : Listings, left : span]] /\ "silent" \in Listings
    BY <1>1, JevAssumption
  <2> HIDE DEF span
  <2>3. ASSUME NEW s \in CandidateServers
        PROVE  (IF caps[s].left > 1 THEN [caps[s] EXCEPT !.left = @ - 1] ELSE [said |-> "silent", left |-> 0])
               \in [said : Listings, left : span]
    BY <2>1, <2>2
  <2>4. caps' \in [CandidateServers -> [said : Listings, left : span]]
    BY <1>2, <2>2, <2>3
  <2> QED BY <2>4 DEF span
<1>4. /\ jevSticky' \in [DOMAIN jevSticky -> JevPin] /\ DOMAIN jevSticky' = DOMAIN jevSticky
      /\ \A k \in DOMAIN jevSticky : jevSticky'[k] = [jevSticky[k] EXCEPT !.left = IF @ < 0 THEN @ ELSE @ - 1]
  BY <1>1, <1>2, AgedPins
<1>5. /\ jhome' \in [DOMAIN jhome -> JevPin] /\ DOMAIN jhome' = DOMAIN jhome
      /\ \A k \in DOMAIN jhome : jhome'[k].left >= 0 => jhome[k].left >= 0
      /\ \A k \in DOMAIN jhome : jhome'[k] = [jhome[k] EXCEPT !.left = IF @ < 0 THEN @ ELSE @ - 1]
  BY <1>1, <1>2, AgedPins
<1>6. jevCache' \in [DOMAIN jevCache' -> JevEntry]
  BY <1>1, <1>2, AgedCache
<1>7. JevPinsAgree'
  <2> SUFFICES ASSUME NEW c \in DOMAIN jhome', jhome'[c].left >= 0
               PROVE  c \in DOMAIN jevSticky' /\ jevSticky'[c] = jhome'[c]
    BY DEF JevPinsAgree
  <2>1. c \in DOMAIN jevSticky /\ jevSticky[c] = jhome[c]
    BY <1>1, <1>5 DEF JevPinsAgree
  <2> QED BY <1>4, <1>5, <2>1
<1>8. JevState'
  BY <1>1, <1>2, <1>3, <1>4, <1>5, <1>6 DEF JevInv, JevState
<1>9. JevHandlers'
  BY <1>2 DEF JevInv, JevHandlers
<1> QED BY <1>7, <1>8, <1>9 DEF JevInv

\* Every step of the decision router keeps the invariant.
LEMMA JevStep == JevInv /\ [JevNext]_jevVars => JevInv'
<1> SUFFICES ASSUME JevInv, [JevNext]_jevVars PROVE JevInv'
  OBVIOUS
<1>1. CASE UNCHANGED jevVars
  BY <1>1 DEF jevVars, JevInv, JevState, JevPinsAgree, JevHandlers
<1>2. ASSUME NEW r \in JevRequest, JevHandle(r) PROVE JevInv'
  BY <1>2, AskCapsStep, ProbeReturnsStep, DecideStep, AskFailsStep, JevAnswersStep, SettleStep, OrderStep DEF JevHandle
<1>3. ASSUME NEW r \in JevRequest, JevDone(r) \/ \E t \in Turns : JevArrives(r, t) PROVE JevInv'
  BY <1>3, JevDoneStep, JevArrivesStep
<1>4. ASSUME NEW s \in CandidateServers, Observe(s) \/ \E said \in Listings : Relists(s, said) PROVE JevInv'
  BY <1>4, ObserveStep, RelistsStep
<1>5. ASSUME NEW s, Undefine(s) PROVE JevInv'
  BY <1>5, UndefineStep
<1>6. CASE JevTick
  BY <1>6, JevTickStep
<1> QED BY <1>1, <1>2, <1>3, <1>4, <1>5, <1>6 DEF JevNext

-----------------------------------------------------------------------------
(* The attempt lists of a static rule.                                     *)

PoolAttempt == [server : PoolServer, weight : Nat \ {0}]

\* The fallbacks of a rule, in the order they are tried, are fallbacks.
LEMMA OrderedIs ==
    ASSUME NEW v \in PoolRule
    PROVE  orderedFallbacks(v) \in Seq(Fallback)
<1> DEFINE on == EnabledFallbacks(v)
           D == DOMAIN on
           before == [j \in D |->
                        {i \in D : \/ on[i].priority # 0 /\ (on[j].priority = 0 \/ on[i].priority < on[j].priority)
                                   \/ /\ ~(on[j].priority # 0 /\ (on[i].priority = 0 \/ on[j].priority < on[i].priority))
                                      /\ i < j}]
           ahead == [j \in D |->
                        {i \in D : on[i].priority # 0 /\ (on[j].priority = 0 \/ on[i].priority < on[j].priority)}]
<1>1. on \in Seq(Fallback)
  <2> DEFINE I == {i \in DOMAIN v.fallbacks : v.fallbacks[i].enabled}
  <2>1. v.fallbacks \in Seq(Fallback) /\ I \in SUBSET DOMAIN v.fallbacks
    BY DEF PoolRule
  <2>2. on = Keep(v.fallbacks, I)
    BY DEF EnabledFallbacks
  <2> HIDE DEF I, on
  <2> QED BY <2>1, <2>2, PartOfPool
<1>2. orderedFallbacks(v) = Listed(on, Sorted(before))
  BY DEF orderedFallbacks
<1> HIDE DEF on
<1>3. Len(on) \in Nat /\ D = 1 .. Len(on) /\ \A i \in D : on[i] \in Fallback
  BY <1>1, Elements
<1>4. IsFiniteSet(D) /\ D \in SUBSET Nat
  <2>1. 1 .. Len(on) \in SUBSET (1 .. Len(on))
    OBVIOUS
  <2>2. IsFiniteSet(1 .. Len(on))
    BY <1>3, <2>1, IndicesOrdered
  <2> QED BY <1>3, <2>2
<1>5. \A i \in D : on[i].priority \in Int
  BY <1>3 DEF Fallback
<1>6. \A i, j \in D : i \in ahead[j] <=> on[i].priority # 0 /\ (on[j].priority = 0 \/ on[i].priority < on[j].priority)
  OBVIOUS
<1>7. /\ DOMAIN before = D /\ \A j \in D : before[j] \subseteq D
      /\ \A i, j \in D : i \in before[j] <=> i \in ahead[j] \/ (j \notin ahead[i] /\ i < j)
  OBVIOUS
<1> HIDE DEF ahead, before
<1>8. \A i, j \in D : i \in ahead[j] => j \notin ahead[i]
  BY <1>5, <1>6
<1>9. \A i, j, k \in D : i \in ahead[j] => i \in ahead[k] \/ k \in ahead[j]
  BY <1>5, <1>6
<1> HIDE DEF D
<1>10. IsOrder(before)
  BY <1>4, <1>7, <1>8, <1>9, StableOrder
<1>11. PICK f : Rearranged(Listed(on, Sorted(before)), f, on, Fallback)
  BY <1>1, <1>7, <1>10, ListedIs DEF D
<1> QED BY <1>2, <1>11 DEF Rearranged

\* The list of a rule: the primary, then a part of the fallbacks.
LEMMA AttemptsAre ==
    ASSUME NEW v \in PoolRule, NEW names
    PROVE  LET list == AttemptsIn(v, names) IN
           /\ list \in Seq(PoolAttempt) /\ list # <<>>
           /\ (\A f \in ToSet(orderedFallbacks(v)) : f.server \in names) =>
                Servers(list) = <<v.server>> \o [k \in DOMAIN orderedFallbacks(v) |-> orderedFallbacks(v)[k].server]
<1> DEFINE all == orderedFallbacks(v)
           I == {k \in DOMAIN all : all[k].server \in names}
           on == Keep(all, I)
           rest == [k \in DOMAIN on |-> [server |-> on[k].server, weight |-> IF on[k].weight > 1 THEN on[k].weight ELSE 1]]
           head == [server |-> v.server, weight |-> 1]
           list == AttemptsIn(v, names)
<1>1. all \in Seq(Fallback) /\ v.server \in PoolServer
  BY OrderedIs DEF PoolRule
<1>2. list = <<head>> \o rest
  BY DEF AttemptsIn
<1>3. I \in SUBSET DOMAIN all /\ ((\A f \in ToSet(all) : f.server \in names) => I = DOMAIN all)
  BY DEF ToSet
<1> HIDE DEF all, I, list
<1>4. on \in Seq(Fallback)
  BY <1>1, <1>3, PartOfPool
<1>5. I = DOMAIN all => on = all
  BY <1>1, KeepAll
<1> HIDE DEF on
<1>6. Len(on) \in Nat /\ DOMAIN on = 1 .. Len(on) /\ \A k \in DOMAIN on : on[k] \in Fallback
  BY <1>4, Elements
<1>7. head \in PoolAttempt
  <2> DEFINE W == Nat \ {0}
  <2>1. 1 \in W
    OBVIOUS
  <2> HIDE DEF W
  <2>2. head \in [server : PoolServer, weight : W]
    BY <1>1, <2>1
  <2> QED BY <2>2 DEF PoolAttempt, W
<1>8. \A k \in DOMAIN on : rest[k] \in PoolAttempt /\ rest[k].server = on[k].server
  <2> SUFFICES ASSUME NEW k \in DOMAIN on PROVE rest[k] \in PoolAttempt /\ rest[k].server = on[k].server
    OBVIOUS
  <2> DEFINE W == Nat \ {0}
             w == IF on[k].weight > 1 THEN on[k].weight ELSE 1
  <2>1. on[k].server \in PoolServer /\ w \in W
    BY <1>6 DEF Fallback
  <2>2. rest[k] = [server |-> on[k].server, weight |-> w]
    OBVIOUS
  <2> HIDE DEF W, w, rest
  <2>3. rest[k] \in [server : PoolServer, weight : W] /\ rest[k].server = on[k].server
    BY <2>1, <2>2
  <2> QED BY <2>3 DEF PoolAttempt, W
<1>9. rest \in Seq(PoolAttempt) /\ Len(rest) = Len(on)
  <2>1. rest = [k \in 1 .. Len(on) |-> rest[k]]
    BY <1>6
  <2> HIDE DEF rest
  <2> QED BY <1>6, <1>8, <2>1
<1> HIDE DEF rest, head
<1>10. <<head>> \in Seq(PoolAttempt) /\ Len(<<head>>) = 1 /\ <<head>>[1] = head
  BY <1>7
<1>11. /\ list \in Seq(PoolAttempt) /\ Len(list) = 1 + Len(on)
       /\ \A i \in 1 .. (1 + Len(on)) : list[i] = IF i <= 1 THEN <<head>>[i] ELSE rest[i - 1]
  BY <1>2, <1>9, <1>10, ConcatProperties
<1>12. list # <<>>
  BY <1>6, <1>11
<1>13. ASSUME \A f \in ToSet(all) : f.server \in names
       PROVE  Servers(list) = <<v.server>> \o [k \in DOMAIN all |-> all[k].server]
  <2> DEFINE n == Len(on)
             names1 == [k \in DOMAIN on |-> on[k].server]
             ids == <<v.server>> \o names1
  <2>1. on = all
    BY <1>3, <1>5, <1>13
  <2>2. names1 \in Seq(PoolServer) /\ Len(names1) = n /\ \A k \in 1 .. n : names1[k] = on[k].server
    <3>1. \A k \in 1 .. n : on[k].server \in PoolServer
      BY <1>6 DEF Fallback
    <3>2. names1 = [k \in 1 .. n |-> on[k].server]
      BY <1>6
    <3> QED BY <1>6, <3>1, <3>2
  <2>3. <<v.server>> \in Seq(PoolServer) /\ Len(<<v.server>>) = 1 /\ <<v.server>>[1] = v.server
    BY <1>1
  <2> HIDE DEF names1
  <2>4. /\ ids \in Seq(PoolServer) /\ Len(ids) = 1 + n
        /\ \A i \in 1 .. (1 + n) : ids[i] = IF i <= 1 THEN <<v.server>>[i] ELSE names1[i - 1]
    BY <2>2, <2>3, ConcatProperties
  <2> HIDE DEF n
  <2>5. n \in Nat /\ n = Len(on)
    BY <1>6 DEF n
  <2>6. Servers(list) = [k \in 1 .. (1 + n) |-> list[k].server]
    BY <1>11, <2>5 DEF Servers
  <2>7. ASSUME NEW k \in 1 .. (1 + n) PROVE list[k].server = ids[k]
    <3>1. CASE k = 1
      BY <1>10, <1>11, <2>3, <2>4, <2>5, <3>1 DEF head
    <3>2. CASE k # 1
      <4>1. k - 1 \in 1 .. n /\ ~(k <= 1)
        BY <2>5, <3>2
      <4>2. list[k] = rest[k - 1] /\ ids[k] = names1[k - 1]
        BY <1>11, <2>4, <2>5, <4>1
      <4> QED BY <1>6, <1>8, <2>2, <2>5, <4>1, <4>2
    <3> QED BY <3>1, <3>2
  <2>8. ids = [k \in 1 .. (1 + n) |-> ids[k]]
    BY <2>4, <2>5
  <2>9. Servers(list) = ids
    <3> HIDE DEF ids
    <3> QED BY <2>6, <2>7, <2>8
  <2> QED BY <2>1, <2>9 DEF names1
<1> QED BY <1>11, <1>12, <1>13 DEF list, all

\* A rotation rearranges a list, with the member it starts on first.
LEMMA RotatedIs ==
    ASSUME NEW E, NEW s \in Seq(E), NEW i \in DOMAIN s
    PROVE  \E f : Rearranged(Rotated(s, i), f, s, E) /\ f[1] = i
<1> DEFINE n == Len(s)
           a == SubSeq(s, i, n)
           b == SubSeq(s, 1, i - 1)
           w == Rotated(s, i)
           f == [k \in 1 .. n |-> IF k <= n - i + 1 THEN k + i - 1 ELSE k - (n - i + 1)]
<1>1. n \in Nat /\ DOMAIN s = 1 .. n /\ i \in 1 .. n /\ \A k \in 1 .. n : s[k] \in E
  BY Elements
<1>2. w = a \o b
  BY DEF Rotated
<1> HIDE DEF n, w
<1>3. a \in Seq(E) /\ Len(a) = n - i + 1 /\ \A k \in 1 .. (n - i + 1) : a[k] = s[k + i - 1]
  <2>1. i \in Int /\ n \in Int /\ \A k \in i .. n : s[k] \in E
    BY <1>1
  <2>2. /\ a \in Seq(E) /\ Len(a) = IF i <= n THEN n - i + 1 ELSE 0
        /\ \A k \in 1 .. n - i + 1 : a[k] = s[i + k - 1]
    BY <2>1, SubSeqProperties
  <2> HIDE DEF a
  <2> QED BY <1>1, <2>2
<1>4. b \in Seq(E) /\ Len(b) = i - 1 /\ \A k \in 1 .. (i - 1) : b[k] = s[k]
  <2> DEFINE m == i - 1
  <2>1. m \in Int /\ 1 \in Int /\ \A k \in 1 .. m : s[k] \in E
    BY <1>1
  <2>2. /\ b \in Seq(E) /\ Len(b) = IF 1 <= m THEN m - 1 + 1 ELSE 0
        /\ \A k \in 1 .. m - 1 + 1 : b[k] = s[1 + k - 1]
    BY <2>1, SubSeqProperties
  <2> HIDE DEF b
  <2> QED BY <1>1, <2>2
<1> HIDE DEF a, b
<1>5. /\ w \in Seq(E) /\ Len(w) = Len(a) + Len(b)
      /\ \A k \in 1 .. (Len(a) + Len(b)) : w[k] = IF k <= Len(a) THEN a[k] ELSE b[k - Len(a)]
  BY <1>2, <1>3, <1>4, ConcatProperties
<1>6. Len(w) = n /\ \A k \in 1 .. n : w[k] = IF k <= n - i + 1 THEN a[k] ELSE b[k - (n - i + 1)]
  <2>1. Len(a) + Len(b) = n /\ Len(a) = n - i + 1
    BY <1>1, <1>3, <1>4
  <2> QED BY <1>5, <2>1
<1>7. /\ f \in [1 .. n -> 1 .. n] /\ f[1] = i
      /\ \A k \in 1 .. n : f[k] = IF k <= n - i + 1 THEN k + i - 1 ELSE k - (n - i + 1)
  BY <1>1
<1> HIDE DEF f
<1>8. ASSUME NEW k \in 1 .. n PROVE w[k] = s[f[k]]
  <2>1. CASE k <= n - i + 1
    <3>1. k \in 1 .. (n - i + 1)
      BY <1>1, <2>1
    <3> QED BY <1>3, <1>6, <1>7, <2>1, <3>1
  <2>2. CASE ~(k <= n - i + 1)
    <3>1. k - (n - i + 1) \in 1 .. (i - 1)
      BY <1>1, <2>2
    <3> QED BY <1>4, <1>6, <1>7, <2>2, <3>1
  <2> QED BY <2>1, <2>2
<1>9. ASSUME NEW j \in 1 .. n, NEW k \in 1 .. n, f[j] = f[k] PROVE j = k
  <2>1. /\ f[j] = IF j <= n - i + 1 THEN j + i - 1 ELSE j - (n - i + 1)
        /\ f[k] = IF k <= n - i + 1 THEN k + i - 1 ELSE k - (n - i + 1)
    BY <1>7
  <2>2. i \in Nat /\ n \in Nat /\ 1 <= i /\ i <= n /\ j \in 1 .. n /\ k \in 1 .. n
    BY <1>1
  <2>3. CASE j <= n - i + 1 /\ k <= n - i + 1
    <3>1. j + i - 1 = k + i - 1
      BY <1>9, <2>1, <2>3
    <3> QED BY <2>2, <3>1
  <2>4. CASE ~(j <= n - i + 1) /\ ~(k <= n - i + 1)
    <3>1. j - (n - i + 1) = k - (n - i + 1)
      BY <1>9, <2>1, <2>4
    <3> QED BY <2>2, <3>1
  <2>5. CASE j <= n - i + 1 /\ ~(k <= n - i + 1)
    <3>1. j + i - 1 = k - (n - i + 1)
      BY <1>9, <2>1, <2>5
    <3> QED BY <2>2, <3>1
  <2>6. CASE ~(j <= n - i + 1) /\ k <= n - i + 1
    <3>1. j - (n - i + 1) = k + i - 1
      BY <1>9, <2>1, <2>6
    <3> QED BY <2>2, <3>1
  <2> QED BY <2>3, <2>4, <2>5, <2>6
<1>10. ASSUME NEW x \in 1 .. n PROVE \E k \in 1 .. n : f[k] = x
  <2>1. CASE x >= i
    <3> DEFINE y == x - i + 1
    <3>1. y \in 1 .. n /\ y <= n - i + 1 /\ y + i - 1 = x
      BY <1>1, <2>1
    <3> HIDE DEF y
    <3> QED BY <1>7, <3>1
  <2>2. CASE x < i
    <3> DEFINE y == x + (n - i + 1)
    <3>1. y \in 1 .. n /\ ~(y <= n - i + 1) /\ y - (n - i + 1) = x
      BY <1>1, <2>2
    <3> HIDE DEF y
    <3> QED BY <1>7, <3>1
  <2> QED BY <1>1, <2>1, <2>2
<1>11. Len(s) = n
  BY DEF n
<1>12. Rearranged(w, f, s, E) /\ f[1] = i
  BY <1>1, <1>5, <1>6, <1>7, <1>8, <1>9, <1>10, <1>11 DEF Rearranged
<1> QED BY <1>12 DEF w

\* A list is a rearrangement of itself.
LEMMA AsItIs ==
    ASSUME NEW E, NEW s \in Seq(E)
    PROVE  \E f : Rearranged(s, f, s, E)
<1> DEFINE f == [k \in DOMAIN s |-> k]
<1>1. f \in [DOMAIN s -> DOMAIN s] /\ \A k \in DOMAIN s : f[k] = k
  OBVIOUS
<1> HIDE DEF f
<1>2. Rearranged(s, f, s, E)
  BY <1>1 DEF Rearranged
<1> QED BY <1>2

\* Loads per unit of weight compare like fractions.
LEMMA RatioOrder ==
    ASSUME NEW a \in Int, NEW b \in Int, NEW c \in Int,
           NEW u \in Nat \ {0}, NEW v \in Nat \ {0}, NEW w \in Nat \ {0},
           a * w >= c * u, c * v >= b * w
    PROVE  a * v >= b * u
<1>1. (a * w) * v >= (c * u) * v /\ (c * v) * u >= (b * w) * u
  OBVIOUS
<1>2. w * (a * v) >= w * (b * u)
  BY <1>1
<1>3. a * v \in Int /\ b * u \in Int
  OBVIOUS
<1> QED BY <1>2, <1>3

\* Sorting by load only rearranges the list.
LEMMA LeastBusyIs ==
    ASSUME NEW list \in Seq(PoolAttempt), inflight \in [PoolServer -> Int]
    PROVE  \E f : Rearranged(LeastBusyFirst(list), f, list, PoolAttempt)
<1> DEFINE D == DOMAIN list
           Load(i) == inflight[list[i].server]
           before == [j \in D |-> {i \in D : \/ Load(i) * list[j].weight < Load(j) * list[i].weight
                                             \/ ~(Load(j) * list[i].weight < Load(i) * list[j].weight) /\ i < j}]
           ahead == [j \in D |-> {i \in D : Load(i) * list[j].weight < Load(j) * list[i].weight}]
<1>1. LeastBusyFirst(list) = Listed(list, Sorted(before))
  BY DEF LeastBusyFirst
<1>2. Len(list) \in Nat /\ D = 1 .. Len(list) /\ \A i \in D : list[i] \in PoolAttempt
  BY Elements
<1>3. IsFiniteSet(D) /\ D \in SUBSET Nat
  <2>1. 1 .. Len(list) \in SUBSET (1 .. Len(list))
    OBVIOUS
  <2>2. IsFiniteSet(1 .. Len(list))
    BY <1>2, <2>1, IndicesOrdered
  <2> QED BY <1>2, <2>2
<1>4. \A i \in D : Load(i) \in Int /\ list[i].weight \in Nat \ {0}
  BY <1>2 DEF PoolAttempt
<1> DEFINE load == [i \in D |-> Load(i)]
           weight == [i \in D |-> list[i].weight]
<1>5. load \in [D -> Int] /\ weight \in [D -> Nat \ {0}]
  BY <1>4
<1>6. \A i, j \in D : i \in ahead[j] <=> load[i] * weight[j] < load[j] * weight[i]
  OBVIOUS
<1>7. /\ DOMAIN before = D /\ \A j \in D : before[j] \subseteq D
      /\ \A i, j \in D : i \in before[j] <=> i \in ahead[j] \/ (j \notin ahead[i] /\ i < j)
  OBVIOUS
<1> HIDE DEF ahead, before, load, weight
<1>8. ASSUME NEW i \in D, NEW j \in D, i \in ahead[j] PROVE j \notin ahead[i]
  <2> DEFINE x == load[i] * weight[j]
             y == load[j] * weight[i]
  <2>1. x \in Int /\ y \in Int
    BY <1>5
  <2>2. x < y /\ (j \in ahead[i] <=> y < x)
    BY <1>6, <1>8
  <2> HIDE DEF x, y
  <2> QED BY <2>1, <2>2
<1>9. ASSUME NEW i \in D, NEW j \in D, NEW k \in D, i \in ahead[j] PROVE i \in ahead[k] \/ k \in ahead[j]
  <2> SUFFICES ASSUME i \notin ahead[k], k \notin ahead[j] PROVE FALSE
    OBVIOUS
  <2>1. load[i] \in Int /\ load[j] \in Int /\ load[k] \in Int
    BY <1>5
  <2>2. weight[i] \in Nat \ {0} /\ weight[j] \in Nat \ {0} /\ weight[k] \in Nat \ {0}
    BY <1>5
  <2>3. load[i] * weight[k] >= load[k] * weight[i] /\ load[k] * weight[j] >= load[j] * weight[k]
    <3>1. /\ load[i] * weight[k] \in Int /\ load[k] * weight[i] \in Int
          /\ load[k] * weight[j] \in Int /\ load[j] * weight[k] \in Int
      BY <2>1, <2>2
    <3>2. ~(load[i] * weight[k] < load[k] * weight[i]) /\ ~(load[k] * weight[j] < load[j] * weight[k])
      BY <1>6
    <3> QED BY <3>1, <3>2
  <2>4. load[i] * weight[j] >= load[j] * weight[i]
    BY <2>1, <2>2, <2>3, RatioOrder
  <2>5. load[i] * weight[j] < load[j] * weight[i]
    BY <1>6, <1>9
  <2> QED BY <2>1, <2>2, <2>4, <2>5
<1>10. /\ \A i, j \in D : i \in ahead[j] => j \notin ahead[i]
       /\ \A i, j, k \in D : i \in ahead[j] => i \in ahead[k] \/ k \in ahead[j]
  BY <1>8, <1>9
<1>11. IsOrder(before)
  <2> HIDE DEF D
  <2> QED BY <1>3, <1>7, <1>10, StableOrder
<1> QED BY <1>1, <1>7, <1>11, ListedIs

\* What ChainComplete says of one request.
Chained(chain, list) ==
    /\ ToSet(chain) \subseteq ToSet(Servers(list))
    /\ IsInjective(Servers(list)) => IsInjective(chain)
    /\ Len(chain) = IF MaxFallbacks = 0 \/ Len(list) <= MaxFallbacks + 1 THEN Len(list) ELSE MaxFallbacks + 1

\* Whatever way the list is rearranged, the capped walk is a walk of the pool
\* that starts where the rearranged list does.
LEMMA CappedIs ==
    ASSUME NEW list \in Seq(PoolAttempt), list # <<>>, NEW w, NEW f, Rearranged(w, f, list, PoolAttempt),
           NEW chain, chain = Capped(Servers(w))
    PROVE  /\ chain \in Seq(PoolServer) /\ 1 \in DOMAIN chain /\ chain[1] = list[f[1]].server
           /\ Chained(chain, list)
<1> DEFINE n == Len(list)
           m == IF MaxFallbacks > 0 /\ n > MaxFallbacks + 1 THEN MaxFallbacks + 1 ELSE n
           all == Servers(w)
<1>1. n \in Nat /\ DOMAIN list = 1 .. n /\ n > 0 /\ \A i \in 1 .. n : list[i] \in PoolAttempt
  BY Elements
<1>2. /\ f \in [1 .. n -> 1 .. n] /\ w \in Seq(PoolAttempt) /\ Len(w) = n
      /\ \A k \in 1 .. n : w[k] = list[f[k]]
      /\ \A i, j \in 1 .. n : f[i] = f[j] => i = j
  BY <1>1 DEF Rearranged
<1>3. \A k \in 1 .. n : f[k] \in 1 .. n /\ w[k].server = list[f[k]].server /\ w[k].server \in PoolServer
  BY <1>1, <1>2 DEF PoolAttempt
<1> HIDE DEF n
<1>4. all = [k \in 1 .. n |-> w[k].server]
  BY <1>2 DEF Servers
<1>5. all \in Seq(PoolServer) /\ Len(all) = n /\ \A k \in 1 .. n : all[k] = list[f[k]].server
  <2> HIDE DEF all
  <2> QED BY <1>1, <1>3, <1>4
<1>6. MaxFallbacks \in Nat
  BY PoolAssumption
<1>7. m \in 1 .. n
  BY <1>1, <1>6
<1>8. chain = IF MaxFallbacks > 0 /\ n > MaxFallbacks + 1 THEN SubSeq(all, 1, MaxFallbacks + 1) ELSE all
  BY <1>5 DEF Capped
<1> HIDE DEF all
<1>9. chain \in Seq(PoolServer) /\ Len(chain) = m /\ \A k \in 1 .. m : chain[k] = list[f[k]].server
  <2>1. CASE MaxFallbacks > 0 /\ n > MaxFallbacks + 1
    <3>1. chain = SubSeq(all, 1, m) /\ m \in Nat /\ m > 0
      BY <1>7, <1>8, <2>1
    <3> HIDE DEF m
    <3>2. \A k \in 1 .. m : all[k] \in PoolServer
      BY <1>1, <1>5, <1>7, ElementOfSeq
    <3>3. /\ chain \in Seq(PoolServer) /\ Len(chain) = IF 1 <= m THEN m - 1 + 1 ELSE 0
          /\ \A k \in 1 .. m - 1 + 1 : chain[k] = all[1 + k - 1]
      <4>1. m \in Int /\ 1 \in Int
        BY <3>1
      <4> QED BY <3>1, <3>2, <4>1, SubSeqProperties
    <3>4. Len(chain) = m /\ \A k \in 1 .. m : chain[k] = all[k]
      BY <3>1, <3>3
    <3> QED BY <1>1, <1>5, <1>7, <3>3, <3>4
  <2>2. CASE ~(MaxFallbacks > 0 /\ n > MaxFallbacks + 1)
    BY <1>5, <1>8, <2>2
  <2> QED BY <2>1, <2>2
<1>10. m = IF MaxFallbacks = 0 \/ n <= MaxFallbacks + 1 THEN n ELSE MaxFallbacks + 1
  BY <1>1, <1>6
<1> HIDE DEF m
<1>11. DOMAIN chain = 1 .. m /\ \A k \in 1 .. m : k \in 1 .. n
  BY <1>1, <1>7, <1>9
<1>12. DOMAIN Servers(list) = 1 .. n /\ \A k \in 1 .. n : Servers(list)[k] = list[k].server
  BY <1>1 DEF Servers
<1>13. ToSet(chain) \subseteq ToSet(Servers(list))
  <2> SUFFICES ASSUME NEW k \in 1 .. m PROVE chain[k] \in ToSet(Servers(list))
    BY <1>11 DEF ToSet
  <2>1. f[k] \in 1 .. n /\ chain[k] = Servers(list)[f[k]]
    BY <1>3, <1>9, <1>11, <1>12
  <2> QED BY <1>12, <2>1 DEF ToSet
<1>14. ASSUME IsInjective(Servers(list)) PROVE IsInjective(chain)
  <2> SUFFICES ASSUME NEW i \in 1 .. m, NEW j \in 1 .. m, chain[i] = chain[j] PROVE i = j
    BY <1>11 DEF IsInjective
  <2>1. Servers(list)[f[i]] = Servers(list)[f[j]] /\ f[i] \in 1 .. n /\ f[j] \in 1 .. n
    BY <1>3, <1>9, <1>11, <1>12
  <2>2. f[i] = f[j]
    BY <1>12, <1>14, <2>1 DEF IsInjective
  <2> QED BY <1>2, <1>11, <2>2
<1>15. 1 \in DOMAIN chain /\ chain[1] = list[f[1]].server
  BY <1>1, <1>7, <1>9, <1>11
<1>16. Chained(chain, list)
  BY <1>9, <1>10, <1>13, <1>14 DEF Chained, n
<1> QED BY <1>9, <1>15, <1>16

-----------------------------------------------------------------------------
(* The slots of a weighted rotation.                                       *)

SlotOf == [a \in PoolAttempt |-> a.weight]

\* Slots sums the weights of a list.
LEMMA SlotsFolded ==
    ASSUME NEW w \in Seq(PoolAttempt)
    PROVE  Slots(w) = Weight(w, PoolAttempt, SlotOf)
<1> DEFINE step == AddStep(PoolAttempt, SlotOf)
           g == PartsFold(w, Nat, 0, step)
           c == CHOOSE h : h = [R \in SUBSET DOMAIN w |->
                    IF R = {} THEN 0 ELSE h[R \ {Max(R)}] + w[Max(R)].weight]
<1>1. Slots(w) = c[DOMAIN w]
  BY Zenon DEF Slots, FoldLeft, MapThenFoldSet
<1>2. SlotOf \in [PoolAttempt -> Nat] /\ \A a \in PoolAttempt : SlotOf[a] = a.weight
  BY DEF SlotOf, PoolAttempt
<1>3. /\ Foldable(w, PoolAttempt, Nat, 0, step) /\ \A i \in DOMAIN w : w[i] \in PoolAttempt
      /\ \A n \in Nat, e \in PoolAttempt : step[<<n, e>>] = n + e.weight
  <2>1. Foldable(w, PoolAttempt, Nat, 0, step)
    BY <1>2, WeightSteps
  <2>2. \A n \in Nat, e \in PoolAttempt : step[<<n, e>>] = n + e.weight
    BY <1>2 DEF AddStep
  <2> QED BY <2>1, <2>2, Elements
<1> HIDE DEF step
<1>4. IsLeftFold(g, w, Nat, 0, step)
  BY <1>3, PartsSolve
<1> HIDE DEF g
<1>5. g = [R \in SUBSET DOMAIN w |-> IF R = {} THEN 0 ELSE g[R \ {Max(R)}] + w[Max(R)].weight]
  <2>1. \A R \in SUBSET DOMAIN w : R # {} => g[R \ {Max(R)}] \in Nat /\ w[Max(R)] \in PoolAttempt
    BY <1>3, <1>4 DEF IsLeftFold
  <2>2. \A R \in SUBSET DOMAIN w : R # {} => g[R] = g[R \ {Max(R)}] + w[Max(R)].weight
    BY <1>3, <1>4, <2>1 DEF IsLeftFold
  <2> QED BY <1>4, <2>2 DEF IsLeftFold
<1>6. c = [R \in SUBSET DOMAIN w |-> IF R = {} THEN 0 ELSE c[R \ {Max(R)}] + w[Max(R)].weight]
  BY <1>5, Zenon
<1> HIDE DEF c
<1>7. SolvesLeft(c, w, Nat, 0, step)
  <2>1. \A R \in SUBSET DOMAIN w : R # {} => Max(R) \in DOMAIN w
    BY <1>4 DEF IsLeftFold
  <2>2. c[{}] = 0
    BY <1>6
  <2>3. ASSUME NEW R \in SUBSET DOMAIN w, R # {}, c[R \ {Max(R)}] \in Nat
        PROVE  c[R] = step[<<c[R \ {Max(R)}], w[Max(R)]>>]
    <3>1. w[Max(R)] \in PoolAttempt
      BY <1>3, <2>1, <2>3
    <3>2. c[R] = c[R \ {Max(R)}] + w[Max(R)].weight
      BY <1>6, <2>3
    <3> QED BY <1>3, <2>3, <3>1, <3>2
  <2> QED BY <2>2, <2>3 DEF SolvesLeft
<1> QED BY <1>1, <1>3, <1>7, LeftFoldIs DEF Weight, step

\* b[i] slots come before the i-th of n members, which own w[i] each; all in all
\* there are b[n + 1].
Deals(b, w, n) ==
    /\ n \in Nat \ {0} /\ b \in [1 .. (n + 1) -> Nat] /\ w \in [1 .. n -> Nat \ {0}]
    /\ b[1] = 0 /\ \A i \in 1 .. n : b[i + 1] = b[i] + w[i]

SlotsBefore(list) == [i \in 1 .. (Len(list) + 1) |-> Before(list, i)]
Weights(list) == [i \in 1 .. Len(list) |-> list[i].weight]

\* The weights of a list deal out its slots.
LEMMA ListDeals ==
    ASSUME NEW list \in Seq(PoolAttempt), list # <<>>
    PROVE  /\ Deals(SlotsBefore(list), Weights(list), Len(list))
           /\ SlotsBefore(list)[Len(list) + 1] = Slots(list)
<1> DEFINE n == Len(list)
           b == SlotsBefore(list)
           w == Weights(list)
           upto == [i \in 1 .. (n + 1) |-> SubSeq(list, 1, i - 1)]
<1>1. n \in Nat \ {0} /\ DOMAIN list = 1 .. n /\ \A i \in 1 .. n : list[i] \in PoolAttempt
  BY Elements
<1>2. SlotOf \in [PoolAttempt -> Nat] /\ \A a \in PoolAttempt : SlotOf[a] = a.weight /\ a.weight \in Nat \ {0}
  BY DEF SlotOf, PoolAttempt
<1>3. ASSUME NEW i \in 1 .. (n + 1)
      PROVE  /\ upto[i] \in Seq(PoolAttempt) /\ Len(upto[i]) = i - 1
             /\ \A k \in 1 .. (i - 1) : upto[i][k] = list[k]
  <2> DEFINE m == i - 1
  <2>1. m \in Int /\ m \in Nat /\ m <= n /\ 1 \in Int /\ upto[i] = SubSeq(list, 1, m)
    BY <1>1
  <2> HIDE DEF upto, m
  <2>2. \A k \in 1 .. m : list[k] \in PoolAttempt
    BY <1>1, <2>1
  <2>3. /\ upto[i] \in Seq(PoolAttempt) /\ Len(upto[i]) = IF 1 <= m THEN m - 1 + 1 ELSE 0
        /\ \A k \in 1 .. m - 1 + 1 : upto[i][k] = list[1 + k - 1]
    BY <2>1, <2>2, SubSeqProperties
  <2>4. Len(upto[i]) = m /\ \A k \in 1 .. m : upto[i][k] = list[k]
    BY <2>1, <2>3
  <2> QED BY <2>3, <2>4 DEF m
<1>4. \A i \in 1 .. (n + 1) : b[i] = Slots(upto[i])
  BY DEF SlotsBefore, Before
<1> HIDE DEF upto, b
<1>5. \A i \in 1 .. (n + 1) : b[i] = Weight(upto[i], PoolAttempt, SlotOf) /\ b[i] \in Nat
  <2> SUFFICES ASSUME NEW i \in 1 .. (n + 1) PROVE b[i] = Weight(upto[i], PoolAttempt, SlotOf) /\ b[i] \in Nat
    OBVIOUS
  <2> DEFINE u == upto[i]
  <2>1. u \in Seq(PoolAttempt) /\ b[i] = Slots(u)
    BY <1>3, <1>4
  <2> HIDE DEF u
  <2>2. Slots(u) = Weight(u, PoolAttempt, SlotOf)
    BY <2>1, SlotsFolded
  <2>3. Weight(u, PoolAttempt, SlotOf) \in Nat
    BY <1>2, <2>1, WeightSteps
  <2> QED BY <2>1, <2>2, <2>3 DEF u
<1>6. b[1] = 0
  <2>1. 1 \in 1 .. (n + 1) /\ 1 - 1 = 0
    BY <1>1
  <2>2. upto[1] \in Seq(PoolAttempt) /\ Len(upto[1]) = 0
    BY <1>3, <2>1
  <2>3. upto[1] = <<>>
    BY <2>2, EmptySeq
  <2>4. Weight(<<>>, PoolAttempt, SlotOf) = 0
    BY <1>2, <2>2, WeightSteps
  <2> QED BY <1>5, <2>1, <2>3, <2>4
<1>7. ASSUME NEW i \in 1 .. n PROVE b[i + 1] = b[i] + list[i].weight
  <2> DEFINE u == upto[i]
             e == list[i]
             z == Append(u, e)
  <2>1. i \in 1 .. (n + 1) /\ i + 1 \in 1 .. (n + 1) /\ (i + 1) - 1 = i
    BY <1>1
  <2>2. /\ u \in Seq(PoolAttempt) /\ Len(u) = i - 1 /\ \A k \in 1 .. (i - 1) : u[k] = list[k]
        /\ e \in PoolAttempt
    BY <1>1, <1>3, <2>1
  <2>3. /\ upto[i + 1] \in Seq(PoolAttempt) /\ Len(upto[i + 1]) = i
        /\ \A k \in 1 .. i : upto[i + 1][k] = list[k]
    <3> DEFINE j == i + 1
    <3>1. j \in 1 .. (n + 1) /\ j - 1 = i
      BY <2>1
    <3> HIDE DEF j
    <3>2. upto[j] \in Seq(PoolAttempt) /\ Len(upto[j]) = i /\ \A k \in 1 .. i : upto[j][k] = list[k]
      BY <1>3, <3>1
    <3> QED BY <3>2 DEF j
  <2> HIDE DEF u, e
  <2>4. z \in Seq(PoolAttempt) /\ Len(z) = i /\ \A k \in 1 .. i : z[k] = list[k]
    <3>1. /\ z \in Seq(PoolAttempt) /\ Len(z) = Len(u) + 1 /\ z[Len(u) + 1] = e
          /\ \A k \in 1 .. Len(u) : z[k] = u[k]
      BY <2>2, AppendProperties
    <3>2. (i - 1) + 1 = i /\ z[i] = list[i]
      BY <2>2, <3>1 DEF e
    <3>3. \A k \in 1 .. i : k = i \/ k \in 1 .. (i - 1)
      BY <1>1
    <3> QED BY <2>2, <3>1, <3>2, <3>3
  <2> HIDE DEF z
  <2>5. upto[i + 1] = z
    BY <1>1, <2>3, <2>4, SeqEqual
  <2>6. Weight(z, PoolAttempt, SlotOf) = Weight(u, PoolAttempt, SlotOf) + SlotOf[e]
    BY <1>2, <2>2, WeightSteps DEF z
  <2> QED BY <1>2, <1>5, <2>1, <2>2, <2>5, <2>6 DEF u, e
<1>8. b[n + 1] = Slots(list)
  <2> DEFINE j == n + 1
  <2>1. j \in 1 .. (n + 1) /\ j - 1 = n
    BY <1>1
  <2> HIDE DEF j
  <2>2. upto[j] \in Seq(PoolAttempt) /\ Len(upto[j]) = n /\ \A k \in 1 .. n : upto[j][k] = list[k]
    BY <1>3, <2>1
  <2>3. upto[j] = list
    BY <1>1, <2>2, SeqEqual
  <2> QED BY <1>4, <2>1, <2>3 DEF j
<1>9. b \in [1 .. (n + 1) -> Nat]
  <2>1. b = [i \in 1 .. (n + 1) |-> b[i]]
    BY DEF b, SlotsBefore
  <2> QED BY <1>5, <2>1
<1>10. w \in [1 .. n -> Nat \ {0}] /\ \A i \in 1 .. n : w[i] = list[i].weight
  BY <1>1, <1>2 DEF Weights
<1>11. Deals(b, w, n)
  BY <1>1, <1>6, <1>7, <1>9, <1>10 DEF Deals
<1> QED BY <1>8, <1>11 DEF b

\* The slots of a member lie before those of the members after it.
LEMMA SlotsApart ==
    ASSUME NEW b, NEW w, NEW n, Deals(b, w, n)
    PROVE  \A i \in 1 .. n, j \in 1 .. (n + 1) : i < j => b[i] + w[i] <= b[j]
<1>1. /\ n \in Nat \ {0} /\ b \in [1 .. (n + 1) -> Nat] /\ w \in [1 .. n -> Nat \ {0}]
      /\ \A i \in 1 .. n : b[i + 1] = b[i] + w[i]
  BY DEF Deals
<1> DEFINE Q == {m \in Nat : \A i \in 1 .. n, j \in 1 .. (n + 1) : i < j /\ j <= m => b[i] + w[i] <= b[j]}
<1>2. 0 \in Q
  OBVIOUS
<1>3. ASSUME NEW m \in Nat, m \in Q PROVE m + 1 \in Q
  <2> SUFFICES ASSUME NEW i \in 1 .. n, NEW j \in 1 .. (n + 1), i < j, j <= m + 1 PROVE b[i] + w[i] <= b[j]
    OBVIOUS
  <2>1. CASE j <= m
    BY <1>3, <2>1
  <2>2. CASE j = m + 1
    <3>1. m \in 1 .. n /\ b[j] = b[m] + w[m] /\ m \in 1 .. (n + 1)
      BY <1>1, <2>2
    <3>2. b[m] \in Nat /\ w[m] \in Nat /\ b[i] \in Nat /\ w[i] \in Nat
      BY <1>1, <3>1
    <3>3. CASE i = m
      BY <3>1, <3>2, <3>3
    <3>4. CASE i < m
      <4>1. b[i] + w[i] <= b[m]
        BY <1>3, <3>1, <3>4
      <4> QED BY <3>1, <3>2, <4>1
    <3> QED BY <2>2, <3>3, <3>4
  <2> QED BY <2>1, <2>2
<1> HIDE DEF Q
<1>4. n + 1 \in Q
  BY <1>1, <1>2, <1>3, NatInd
<1> QED BY <1>1, <1>4 DEF Q

\* Every slot has exactly one owner.
LEMMA SlotOwned ==
    ASSUME NEW b, NEW w, NEW n, Deals(b, w, n), NEW slot \in Nat, slot < b[n + 1]
    PROVE  /\ \E i \in 1 .. n : b[i] <= slot /\ slot < b[i] + w[i]
           /\ \A i, j \in 1 .. n : b[i] <= slot /\ slot < b[i] + w[i] /\ b[j] <= slot /\ slot < b[j] + w[j] => i = j
<1>1. /\ n \in Nat \ {0} /\ b \in [1 .. (n + 1) -> Nat] /\ w \in [1 .. n -> Nat \ {0}]
      /\ b[1] = 0 /\ \A i \in 1 .. n : b[i + 1] = b[i] + w[i]
  BY DEF Deals
<1> DEFINE I == {j \in 1 .. (n + 1) : b[j] > slot}
<1>2. I \in SUBSET Nat /\ n + 1 \in I
  BY <1>1
<1>3. PICK j \in I : \A k \in I : j <= k
  BY <1>2, LeastNat
<1>4. j # 1 /\ j \in 1 .. (n + 1) /\ b[j] > slot
  BY <1>1
<1>5. j - 1 \in 1 .. n /\ j - 1 \in 1 .. (n + 1) /\ (j - 1) + 1 = j
  BY <1>1, <1>4
<1>6. ~(b[j - 1] > slot)
  BY <1>3, <1>5
<1>7. b[j - 1] <= slot /\ slot < b[j - 1] + w[j - 1]
  <2>1. b[j - 1] \in Nat /\ b[j] = b[j - 1] + w[j - 1]
    BY <1>1, <1>5
  <2> QED BY <1>4, <1>6, <2>1
<1>8. ASSUME NEW i \in 1 .. n, NEW k \in 1 .. n, i < k, b[i] <= slot, slot < b[i] + w[i], b[k] <= slot PROVE FALSE
  <2>2. k \in 1 .. (n + 1) /\ i \in 1 .. (n + 1)
    BY <1>1
  <2>1. b[i] + w[i] <= b[k] /\ b[k] \in Nat /\ b[i] \in Nat /\ w[i] \in Nat
    BY <1>1, <1>8, <2>2, SlotsApart
  <2> QED BY <1>8, <2>1
<1>9. \A i, k \in 1 .. n : i < k \/ k < i \/ i = k
  BY <1>1
<1>10. ASSUME NEW i \in 1 .. n, NEW k \in 1 .. n, b[i] <= slot, slot < b[i] + w[i], b[k] <= slot, slot < b[k] + w[k]
       PROVE  i = k
  BY <1>8, <1>9, <1>10
<1> QED BY <1>5, <1>7, <1>10

\* Division with remainder: one more, inside a round and at its end.
LEMMA DivMod ==
    ASSUME NEW n \in Nat, NEW s \in Nat \ {0}
    PROVE  /\ n \div s \in Nat /\ (n % s) \in Nat /\ (n % s) < s
           /\ (n % s) + 1 < s => (n + 1) \div s = n \div s /\ ((n + 1) % s) = (n % s) + 1
           /\ (n % s) + 1 = s => (n + 1) \div s = n \div s + 1 /\ ((n + 1) % s) = 0
           /\ 0 \div s = 0 /\ 0 % s = 0
<1>1. n \div s \in Nat /\ (n % s) \in Nat /\ (n % s) < s
  OBVIOUS
<1>2. (n % s) + 1 < s => (n + 1) \div s = n \div s /\ ((n + 1) % s) = (n % s) + 1
  OBVIOUS
<1>3. ASSUME NEW m \in Nat, NEW q \in Nat, NEW r \in Nat, r < s, m = s * q + r PROVE q = m \div s /\ r = m % s
  BY <1>3
<1>4. (n \div s) * s + (n % s) = n
  OBVIOUS
<1>5. ASSUME (n % s) + 1 = s PROVE (n + 1) \div s = n \div s + 1 /\ ((n + 1) % s) = 0
  <2> DEFINE q == n \div s
             m == n + 1
             p == q + 1
  <2>1. q \in Nat /\ q * s + (n % s) = n /\ m \in Nat /\ p \in Nat
    BY <1>1, <1>4
  <2> HIDE DEF q
  <2>2. m = s * p + 0
    BY <1>1, <1>5, <2>1
  <2> HIDE DEF m, p
  <2>3. p = m \div s /\ 0 = m % s
    BY <1>3, <2>1, <2>2
  <2> QED BY <2>3 DEF m, p, q
<1>6. 0 \div s = 0 /\ 0 % s = 0
  OBVIOUS
<1> QED BY <1>1, <1>2, <1>5, <1>6

\* The starts a member with w slots after the first b got from the given rounds
\* and the slots of the next one.
Share(b, w, rounds, slot) ==
    rounds * w + IF slot < b THEN 0 ELSE IF slot > b + w THEN w ELSE slot - b

\* Each start goes to the owner of its slot: everybody has their share after it.
LEMMA NextShare ==
    ASSUME NEW b, NEW w, NEW n, Deals(b, w, n), NEW c \in Nat, NEW i \in 1 .. n, NEW s, s = b[n + 1],
           b[i] <= (c % s), (c % s) < b[i] + w[i], NEW j \in 1 .. n
    PROVE  Share(b[j], w[j], (c + 1) \div s, (c + 1) % s)
            = Share(b[j], w[j], c \div s, c % s) + IF j = i THEN 1 ELSE 0
<1>1. /\ n \in Nat \ {0} /\ b \in [1 .. (n + 1) -> Nat] /\ w \in [1 .. n -> Nat \ {0}]
  BY DEF Deals
<1>2. \A k \in 1 .. n : k \in 1 .. (n + 1) /\ n + 1 \in 1 .. (n + 1) /\ k < n + 1
  BY <1>1
<1>3. s \in Nat \ {0} /\ b[j] + w[j] <= s /\ b[i] + w[i] <= s
  <2>1. \A k \in 1 .. n, m \in 1 .. (n + 1) : k < m => b[k] + w[k] <= b[m]
    BY SlotsApart
  <2>2. b[j] + w[j] <= s /\ b[i] + w[i] <= s
    BY <1>2, <2>1
  <2>3. b[j] \in Nat /\ w[j] \in Nat \ {0} /\ s \in Nat
    BY <1>1, <1>2
  <2> QED BY <2>2, <2>3
<1> DEFINE bj == b[j]
           wj == w[j]
           q == c \div s
           r == c % s
           more == IF r < bj THEN 0 ELSE IF r > bj + wj THEN wj ELSE r - bj
<1>4. bj \in Nat /\ wj \in Nat \ {0} /\ bj + wj <= s
  BY <1>1, <1>2, <1>3
<1>5. q \in Nat /\ r \in Nat /\ r < s
  BY <1>3, DivMod
<1>6. j = i <=> bj <= r /\ r < bj + wj
  <2>1. j = i => bj <= r /\ r < bj + wj
    OBVIOUS
  <2>2. ASSUME bj <= r, r < bj + wj PROVE j = i
    <3>1. r \in Nat /\ r < b[n + 1]
      BY <1>5
    <3> HIDE DEF r
    <3>2. b[i] <= r /\ r < b[i] + w[i]
      BY DEF r
    <3> QED BY <2>2, <3>1, <3>2, SlotOwned
  <2> QED BY <2>1, <2>2
<1>7. CASE r + 1 < s
  <2>1. (c + 1) \div s = q /\ (c + 1) % s = r + 1
    BY <1>3, <1>7, DivMod
  <2>2. q * wj \in Nat
    BY <1>4, <1>5
  <2> HIDE DEF q, r, bj, wj
  <2>3. Share(bj, wj, q, r + 1) = Share(bj, wj, q, r) + IF j = i THEN 1 ELSE 0
    BY <1>4, <1>5, <1>6, <2>2 DEF Share
  <2> QED BY <2>1, <2>3 DEF q, r, bj, wj
<1>8. CASE r + 1 = s
  <2>1. (c + 1) \div s = q + 1 /\ (c + 1) % s = 0
    BY <1>3, <1>8, DivMod
  <2>2. q * wj \in Nat /\ (q + 1) * wj = q * wj + wj
    BY <1>4, <1>5
  <2> HIDE DEF q, r, bj, wj
  <2>3. Share(bj, wj, q + 1, 0) = (q + 1) * wj
    BY <1>4, <2>2 DEF Share
  <2>4. Share(bj, wj, q, r) + (IF j = i THEN 1 ELSE 0) = q * wj + wj
    BY <1>4, <1>5, <1>6, <1>8, <2>2 DEF Share
  <2> QED BY <2>1, <2>2, <2>3, <2>4 DEF q, r, bj, wj
<1> QED BY <1>3, <1>5, <1>7, <1>8

\* The member the rotation starts on owns the slot.
LEMMA StartIs ==
    ASSUME NEW list \in Seq(PoolAttempt), list # <<>>, NEW c \in Nat
    PROVE  LET i == StartOf(list, c)
               slot == c % Slots(list)
           IN  /\ i \in DOMAIN list /\ Slots(list) \in Nat \ {0}
               /\ SlotsBefore(list)[i] <= slot /\ slot < SlotsBefore(list)[i] + Weights(list)[i]
<1> DEFINE n == Len(list)
           b == SlotsBefore(list)
           w == Weights(list)
           s == Slots(list)
           slot == c % s
<1>1. Deals(b, w, n) /\ b[n + 1] = s
  BY ListDeals
<1>2. n \in Nat \ {0} /\ DOMAIN list = 1 .. n
  BY Elements
<1>3. \A i \in 1 .. n : b[i] = Before(list, i) /\ w[i] = list[i].weight
  BY <1>2 DEF SlotsBefore, Weights
<1>4. StartOf(list, c) = CHOOSE i \in DOMAIN list : Before(list, i) <= slot /\ slot < Before(list, i) + list[i].weight
  BY DEF StartOf
<1> HIDE DEF n, b, w, s
<1>5. s \in Nat \ {0}
  <2>1. b[1] + w[1] <= b[n + 1]
    <3>1. 1 \in 1 .. n /\ n + 1 \in 1 .. (n + 1) /\ 1 < n + 1
      BY <1>2
    <3> QED BY <1>1, <3>1, SlotsApart
  <2>2. b[1] \in Nat /\ w[1] \in Nat \ {0} /\ b[n + 1] \in Nat
    BY <1>1, <1>2 DEF Deals
  <2> QED BY <1>1, <2>1, <2>2
<1>6. slot \in Nat /\ slot < s
  BY <1>5, DivMod
<1> HIDE DEF slot
<1>7. \E i \in 1 .. n : b[i] <= slot /\ slot < b[i] + w[i]
  BY <1>1, <1>6, SlotOwned
<1>8. \E i \in DOMAIN list : Before(list, i) <= slot /\ slot < Before(list, i) + list[i].weight
  BY <1>2, <1>3, <1>7
<1>9. /\ StartOf(list, c) \in DOMAIN list
      /\ Before(list, StartOf(list, c)) <= slot /\ slot < Before(list, StartOf(list, c)) + list[StartOf(list, c)].weight
  BY <1>4, <1>8
<1>10. b[StartOf(list, c)] <= slot /\ slot < b[StartOf(list, c)] + w[StartOf(list, c)]
  BY <1>2, <1>3, <1>9
<1> QED BY <1>5, <1>9, <1>10 DEF b, w, s, slot

-----------------------------------------------------------------------------
(* The balanced pool.                                                      *)

PoolPc == {"idle", "round-robin", "least-connections", "scan", "sweep", "rotate", "send", "open"}
Balancing == {"round-robin", "least-connections", "scan", "sweep", "rotate"}
PoolNames == PoolServer \cup {NoServer}
PoolPin == [server : PoolServer, left : Int]
PoolReq ==
    [pc : PoolPc, conv : Conversation \cup {""}, list : Seq(PoolAttempt), mode : STRING \cup {""}, pin : PoolNames,
     due : PoolNames, counter : Nat, live : SUBSET Seq(PoolServer), epoch : Nat, chain : Seq(PoolServer), i : Nat]

\* Where a handler can be: while it balances, a backend its conversation is bound
\* to is the one it read from the pins and is in its list; it holds a counter
\* that exists; what it read of the rules is current unless they were edited
\* since; and the chain it starts on has done what the properties ask.
PoolReqOK(q, counters, current, edit) ==
    /\ q.pc \in Balancing =>
        /\ Len(q.list) > 1
        /\ q.due # NoServer => q.pin = q.due /\ \E k \in DOMAIN q.list : q.list[k].server = q.due
    /\ q.pc \in {"scan", "sweep", "rotate"} => q.counter \in counters
    /\ q.pc = "sweep" => q.epoch <= edit /\ (q.epoch = edit => q.live = LiveKeys(current))
    /\ q.pc \in {"send", "open"} => q.i \in DOMAIN q.chain
    /\ q.pc = "send" /\ q.i = 1 => Chained(q.chain, q.list) /\ (q.due # NoServer => q.chain[1] = q.due)

PoolState ==
    /\ rule \in RuleVersions /\ edits \in Nat
    /\ inflight \in [PoolServer -> Int] /\ count \in Seq(Nat)
    /\ \A k \in DOMAIN rotations : rotations[k] \in DOMAIN count /\ Len(k) > 1

PoolPins ==
    /\ pins \in [DOMAIN pins -> PoolPin] /\ "" \notin DOMAIN pins /\ IsFiniteSet(DOMAIN pins)
    /\ home \in [DOMAIN home -> PoolPin] /\ "" \notin DOMAIN home

\* The store of pins knows every conversation that is still bound.
PinsAgree == \A c \in DOMAIN home : home[c].left >= 0 => c \in DOMAIN pins /\ pins[c] = home[c]

PoolHandlers ==
    /\ req \in [Request -> PoolReq]
    /\ \A r \in Request : PoolReqOK(req[r], DOMAIN count, rule, edits)

\* The inductive invariant of the pool.
PoolInv == PoolState /\ PoolPins /\ PinsAgree /\ PoolHandlers

\* A step of one handler, while the rule stays and no counter goes.
LEMMA PoolOneStep ==
    ASSUME PoolHandlers, NEW r \in Request, NEW new \in PoolReq, PoolReqOK(new, DOMAIN count', rule, edits),
           req' = [req EXCEPT ![r] = new], rule' = rule, edits' = edits, DOMAIN count \subseteq DOMAIN count'
    PROVE  PoolHandlers'
<1>1. req' \in [Request -> PoolReq]
  BY DEF PoolHandlers
<1>2. ASSUME NEW x \in Request PROVE PoolReqOK(req'[x], DOMAIN count', rule, edits)
  <2>1. CASE x = r
    BY <2>1 DEF PoolHandlers
  <2>2. CASE x # r
    <3>1. req'[x] = req[x] /\ PoolReqOK(req[x], DOMAIN count, rule, edits)
      BY <2>2 DEF PoolHandlers
    <3> QED BY <3>1 DEF PoolReqOK
  <2> QED BY <2>1, <2>2
<1> QED BY <1>1, <1>2 DEF PoolHandlers

\* The invariant gives the properties.
LEMMA PoolInvSays ==
    ASSUME PoolInv
    PROVE  PinHonoured /\ ChainComplete
<1>1. \A r \in Request : PoolReqOK(req[r], DOMAIN count, rule, edits)
  BY DEF PoolInv, PoolHandlers
<1>2. PinHonoured
  BY <1>1 DEF PoolReqOK, PinHonoured
<1>3. ChainComplete
  BY <1>1 DEF PoolReqOK, ChainComplete, Chained
<1> QED BY <1>2, <1>3

\* A handler without a request.
LEMMA PoolIdle ==
    Idle \in PoolReq /\ Idle.pc = "idle"
<1> DEFINE none == <<>>
           Text == STRING \cup {""}
<1>1. /\ none \in Seq(PoolAttempt) /\ none \in Seq(PoolServer) /\ {} \in SUBSET Seq(PoolServer)
      /\ "" \in Text /\ "" \in Conversation \cup {""}
  BY EmptySeq
<1>2. "idle" \in PoolPc /\ NoServer \in PoolNames
  BY DEF PoolPc, PoolNames
<1>3. Idle.pc = "idle"
  BY DEF Idle
<1> HIDE DEF none, Text
<1>4. [pc |-> "idle", conv |-> "", list |-> none, mode |-> "", pin |-> NoServer, due |-> NoServer,
       counter |-> 0, live |-> {}, epoch |-> 0, chain |-> none, i |-> 0]
      \in [pc : PoolPc, conv : Conversation \cup {""}, list : Seq(PoolAttempt), mode : Text, pin : PoolNames,
           due : PoolNames, counter : Nat, live : SUBSET Seq(PoolServer), epoch : Nat, chain : Seq(PoolServer), i : Nat]
  BY <1>1, <1>2
<1> QED BY <1>3, <1>4 DEF Idle, PoolReq, none, Text

\* No counter, pin or request before the first arrival.
LEMMA PoolStart ==
    ASSUME PoolInit
    PROVE  PoolInv
<1>1. Idle \in PoolReq /\ Idle.pc = "idle"
  BY PoolIdle
<1>2. PoolReqOK(Idle, DOMAIN count, rule, edits)
  BY <1>1 DEF PoolReqOK, Balancing
<1>3. PoolHandlers
  BY <1>1, <1>2 DEF PoolInit, PoolHandlers
<1>4. PoolState
  BY EmptySeq DEF PoolInit, PoolState
<1>5. PoolPins /\ PinsAgree
  BY FS_EmptySet DEF PoolInit, PoolPins, PinsAgree
<1> QED BY <1>3, <1>4, <1>5 DEF PoolInv

\* The keys a sweep reads from a rule.
LEMMA LiveKeysAre ==
    ASSUME NEW v \in PoolRule
    PROVE  LiveKeys(v) \in SUBSET Seq(PoolServer)
<1> DEFINE o == orderedFallbacks(v)
           rest == [k \in DOMAIN o |-> o[k].server]
           ids == <<v.server>> \o rest
<1>1. o \in Seq(Fallback) /\ v.server \in PoolServer
  BY OrderedIs DEF PoolRule
<1>2. LiveKeys(v) \subseteq {ids}
  BY DEF LiveKeys
<1> HIDE DEF o
<1>3. Len(o) \in Nat /\ DOMAIN o = 1 .. Len(o) /\ \A k \in DOMAIN o : o[k] \in Fallback
  BY <1>1, Elements
<1>4. rest \in Seq(PoolServer)
  <2>1. \A k \in 1 .. Len(o) : o[k].server \in PoolServer
    BY <1>3 DEF Fallback
  <2> QED BY <1>3, <2>1
<1>5. <<v.server>> \in Seq(PoolServer)
  BY <1>1
<1>6. ids \in Seq(PoolServer)
  BY <1>4, <1>5, ConcatProperties
<1> QED BY <1>2, <1>6

\* The chain of a pinned turn starts on its member.
LEMMA PinnedChainIs ==
    ASSUME NEW q \in PoolReq, PinnedChain(q) # <<>>
    PROVE  \E f : Rearranged(PinnedChain(q), f, q.list, PoolAttempt) /\ q.list[f[1]].server = q.pin
<1> DEFINE list == q.list
           I == {i \in 1 .. Len(list) : list[i].server = q.pin}
           i == SelectInSeq(list, LAMBDA a : a.server = q.pin)
<1>1. list \in Seq(PoolAttempt)
  BY DEF PoolReq
<1>2. i = IF I # {} THEN Min(I) ELSE 0
  BY DEF SelectInSeq
<1>3. PinnedChain(q) = IF i = 0 THEN <<>> ELSE Rotated(list, i)
  BY DEF PinnedChain
<1>4. I \in SUBSET Nat /\ DOMAIN list = 1 .. Len(list)
  BY <1>1, Elements
<1> HIDE DEF i, I
<1>5. I # {} => Min(I) \in I
  BY <1>4, MinIn
<1>6. i \in DOMAIN list /\ list[i].server = q.pin /\ PinnedChain(q) = Rotated(list, i)
  BY <1>2, <1>3, <1>4, <1>5 DEF I
<1>7. PICK f : Rearranged(Rotated(list, i), f, list, PoolAttempt) /\ f[1] = i
  BY <1>1, <1>6, RotatedIs
<1> QED BY <1>6, <1>7

\* A turn whose pin names a member of its list has a pinned chain.
LEMMA PinnedChainFound ==
    ASSUME NEW q \in PoolReq, \E k \in DOMAIN q.list : q.list[k].server = q.pin
    PROVE  PinnedChain(q) # <<>>
<1> DEFINE list == q.list
           I == {i \in 1 .. Len(list) : list[i].server = q.pin}
           i == SelectInSeq(list, LAMBDA a : a.server = q.pin)
<1>1. list \in Seq(PoolAttempt)
  BY DEF PoolReq
<1>2. i = IF I # {} THEN Min(I) ELSE 0
  BY DEF SelectInSeq
<1>3. PinnedChain(q) = IF i = 0 THEN <<>> ELSE Rotated(list, i)
  BY DEF PinnedChain
<1>4. I \in SUBSET Nat /\ DOMAIN list = 1 .. Len(list) /\ I # {} /\ Len(list) \in Nat
  BY <1>1, Elements
<1> HIDE DEF i, I
<1>5. i \in DOMAIN list
  BY <1>2, <1>4, MinIn DEF I
<1>6. PICK f : Rearranged(Rotated(list, i), f, list, PoolAttempt)
  BY <1>1, <1>5, RotatedIs
<1>7. Rotated(list, i) \in Seq(PoolAttempt) /\ Len(Rotated(list, i)) = Len(list) /\ Len(list) > 0
  BY <1>4, <1>5, <1>6 DEF Rearranged
<1>8. Rotated(list, i) # <<>>
  <2> DEFINE w == Rotated(list, i)
  <2>1. w \in Seq(PoolAttempt) /\ Len(w) > 0
    BY <1>7
  <2> HIDE DEF w
  <2>2. w # <<>>
    BY <2>1, Elements
  <2> QED BY <2>2 DEF w
<1> QED BY <1>3, <1>4, <1>5, <1>8

Sending(q, chain, counter) == [q EXCEPT !.pc = "send", !.chain = chain, !.i = 1, !.counter = counter]

\* A handler that has its list in order is ready to send.
LEMMA ReadyToSend ==
    ASSUME NEW q \in PoolReq, Len(q.list) > 1, NEW w, NEW f, Rearranged(w, f, q.list, PoolAttempt),
           q.due # NoServer => q.list[f[1]].server = q.due, NEW counter \in Nat,
           NEW new, new = Sending(q, Capped(Servers(w)), counter), NEW counters, NEW current, NEW edit
    PROVE  new \in PoolReq /\ PoolReqOK(new, counters, current, edit)
<1> DEFINE chain == Capped(Servers(w))
<1>1. q.list \in Seq(PoolAttempt) /\ q.list # <<>>
  <2>1. q.list \in Seq(PoolAttempt)
    BY DEF PoolReq
  <2> QED BY <2>1, Elements
<1>2. /\ chain \in Seq(PoolServer) /\ 1 \in DOMAIN chain /\ chain[1] = q.list[f[1]].server
      /\ Chained(chain, q.list)
  BY <1>1, CappedIs
<1>3. new = Sending(q, chain, counter)
  OBVIOUS
<1> HIDE DEF chain
<1>4. /\ new \in PoolReq /\ new.pc = "send" /\ new.chain = chain /\ new.i = 1 /\ new.list = q.list /\ new.due = q.due
  <2>1. "send" \in PoolPc /\ 1 \in Nat
    BY DEF PoolPc
  <2> QED BY <1>2, <1>3, <2>1 DEF PoolReq, Sending
<1>5. PoolReqOK(new, counters, current, edit)
  BY <1>2, <1>4 DEF PoolReqOK, Balancing
<1> QED BY <1>4, <1>5

\* balanceLeast puts the members in order of what is open at them.
LEMMA LeastStep ==
    ASSUME PoolInv, NEW r \in Request, Least(r)
    PROVE  PoolInv'
<1> DEFINE q == req[r]
           w == IF PinnedChain(q) # <<>> THEN PinnedChain(q) ELSE LeastBusyFirst(q.list)
           new == [q EXCEPT !.pc = "send", !.chain = Capped(Servers(w)), !.i = 1]
<1>1. q \in PoolReq /\ q.pc \in Balancing /\ PoolReqOK(q, DOMAIN count, rule, edits)
  BY DEF PoolInv, PoolHandlers, Least, Balancing
<1>2. req' = [req EXCEPT ![r] = new] /\ rule' = rule /\ edits' = edits /\ count' = count
  BY DEF Least, Step
<1>3. inflight \in [PoolServer -> Int]
  BY DEF PoolInv, PoolState
<1> HIDE DEF q
<1>4. /\ q.list \in Seq(PoolAttempt) /\ Len(q.list) > 1 /\ q.counter \in Nat
      /\ q.due # NoServer => q.pin = q.due /\ \E k \in DOMAIN q.list : q.list[k].server = q.due
  BY <1>1 DEF PoolReqOK, PoolReq
<1>5. PICK f : Rearranged(w, f, q.list, PoolAttempt) /\ (q.due # NoServer => q.list[f[1]].server = q.due)
  <2>1. CASE PinnedChain(q) # <<>>
    <3>1. PICK f : Rearranged(PinnedChain(q), f, q.list, PoolAttempt) /\ q.list[f[1]].server = q.pin
      BY <1>1, <2>1, PinnedChainIs
    <3> QED BY <1>4, <2>1, <3>1
  <2>2. CASE PinnedChain(q) = <<>>
    <3>1. PICK f : Rearranged(LeastBusyFirst(q.list), f, q.list, PoolAttempt)
      BY <1>3, <1>4, LeastBusyIs
    <3>2. q.due = NoServer
      BY <1>1, <1>4, <2>2, PinnedChainFound
    <3> QED BY <2>2, <3>1, <3>2
  <2> QED BY <2>1, <2>2
<1>6. new = Sending(q, Capped(Servers(w)), q.counter)
  BY <1>1 DEF PoolReq, Sending
<1> HIDE DEF w, new
<1>7. new \in PoolReq /\ PoolReqOK(new, DOMAIN count', rule, edits)
  BY <1>1, <1>4, <1>5, <1>6, ReadyToSend
<1>8. PoolHandlers'
  BY <1>2, <1>7, PoolOneStep DEF PoolInv
<1>9. PoolState' /\ PoolPins' /\ PinsAgree'
  BY DEF PoolInv, PoolState, PoolPins, PinsAgree, Least
<1> QED BY <1>8, <1>9 DEF PoolInv

\* The names of a list, as the key of its counter.
LEMMA ServersAre ==
    ASSUME NEW list \in Seq(PoolAttempt)
    PROVE  Servers(list) \in Seq(PoolServer) /\ Len(Servers(list)) = Len(list)
<1>1. Len(list) \in Nat /\ DOMAIN list = 1 .. Len(list) /\ \A k \in DOMAIN list : list[k] \in PoolAttempt
  BY Elements
<1>2. \A k \in DOMAIN list : list[k].server \in PoolServer
  BY <1>1 DEF PoolAttempt
<1>3. Servers(list) = [k \in 1 .. Len(list) |-> list[k].server]
  BY <1>1 DEF Servers
<1> QED BY <1>1, <1>2, <1>3

\* The rotation's counter is looked up, or made.
LEMMA FindCounterStep ==
    ASSUME PoolInv, NEW r \in Request, FindCounter(r)
    PROVE  PoolInv'
<1> DEFINE q == req[r]
           key == Servers(q.list)
           fresh == key \notin DOMAIN rotations
           g == IF fresh THEN Len(count) + 1 ELSE rotations[key]
           pc == IF fresh /\ rotationKeys + 1 > RotationSweepAt THEN "scan" ELSE "rotate"
           new == [q EXCEPT !.counter = g, !.pc = pc]
<1>1. q \in PoolReq /\ q.pc \in Balancing /\ PoolReqOK(q, DOMAIN count, rule, edits)
  BY DEF PoolInv, PoolHandlers, FindCounter, Balancing
<1>2. /\ req' = [req EXCEPT ![r] = new] /\ rule' = rule /\ edits' = edits /\ inflight' = inflight
      /\ pins' = pins /\ home' = home
      /\ rotations' = [k \in DOMAIN rotations \cup {key} |-> IF k = key THEN g ELSE rotations[k]]
      /\ count' = IF fresh THEN Append(count, 0) ELSE count
  BY DEF FindCounter, Step
<1>3. /\ count \in Seq(Nat) /\ \A k \in DOMAIN rotations : rotations[k] \in DOMAIN count /\ Len(k) > 1
  BY DEF PoolInv, PoolState
<1> HIDE DEF q
<1>4. /\ q.list \in Seq(PoolAttempt) /\ Len(q.list) > 1
      /\ q.due # NoServer => q.pin = q.due /\ \E k \in DOMAIN q.list : q.list[k].server = q.due
  BY <1>1 DEF PoolReqOK, PoolReq
<1>5. Len(key) > 1
  BY <1>4, ServersAre
<1>6. Len(count) \in Nat /\ DOMAIN count = 1 .. Len(count)
  BY <1>3, Elements
<1>7. count' \in Seq(Nat) /\ DOMAIN count \subseteq DOMAIN count' /\ g \in DOMAIN count' /\ g \in Nat
  <2>1. CASE fresh
    <3> DEFINE n == Len(count)
               z == Append(count, 0)
    <3>1. z \in Seq(Nat) /\ Len(z) = n + 1
      BY <1>3, AppendProperties
    <3>2. count' = z /\ g = n + 1
      BY <1>2, <2>1
    <3> HIDE DEF z, n
    <3>3. DOMAIN z = 1 .. (n + 1)
      BY <3>1
    <3> QED BY <1>6, <3>1, <3>2, <3>3 DEF n
  <2>2. CASE ~fresh
    BY <1>2, <1>3, <1>6, <2>2
  <2> QED BY <2>1, <2>2
<1>8. pc \in {"scan", "rotate"}
  OBVIOUS
<1>9. \A k \in DOMAIN rotations' : rotations'[k] \in DOMAIN count' /\ Len(k) > 1
  BY <1>2, <1>3, <1>5, <1>7
<1> HIDE DEF g, pc, key, fresh
<1>10. /\ new \in PoolReq /\ new.pc = pc /\ new.counter = g /\ new.list = q.list /\ new.due = q.due /\ new.pin = q.pin
  <2>1. pc \in PoolPc
    BY <1>8 DEF PoolPc
  <2> QED BY <1>1, <1>7, <2>1 DEF PoolReq
<1> HIDE DEF new
<1>11. PoolReqOK(new, DOMAIN count', rule, edits)
  BY <1>4, <1>7, <1>8, <1>10 DEF PoolReqOK, Balancing
<1>12. PoolHandlers'
  BY <1>2, <1>7, <1>10, <1>11, PoolOneStep DEF PoolInv
<1>13. PoolState'
  BY <1>2, <1>7, <1>9 DEF PoolInv, PoolState
<1>14. PoolPins' /\ PinsAgree'
  BY <1>2 DEF PoolInv, PoolPins, PinsAgree
<1> QED BY <1>12, <1>13, <1>14 DEF PoolInv

\* The rules are read for the keys in use, before the lock is taken.
LEMMA SweepScanStep ==
    ASSUME PoolInv, NEW r \in Request, SweepScan(r)
    PROVE  PoolInv'
<1> DEFINE q == req[r]
           keys == LiveKeys(rule)
           new == [q EXCEPT !.pc = "sweep", !.live = keys, !.epoch = edits]
<1>1. q \in PoolReq /\ q.pc = "scan" /\ PoolReqOK(q, DOMAIN count, rule, edits)
  BY DEF PoolInv, PoolHandlers, SweepScan
<1>2. req' = [req EXCEPT ![r] = new] /\ rule' = rule /\ edits' = edits /\ count' = count
  BY DEF SweepScan, Step
<1>3. edits \in Nat /\ rule \in PoolRule
  BY PoolAssumption DEF PoolInv, PoolState
<1>4. keys \in SUBSET Seq(PoolServer)
  BY <1>3, LiveKeysAre
<1> HIDE DEF q, keys
<1>5. /\ new \in PoolReq /\ new.pc = "sweep" /\ new.counter = q.counter /\ new.list = q.list /\ new.due = q.due
      /\ new.pin = q.pin /\ new.live = keys /\ new.epoch = edits
  <2>1. "sweep" \in PoolPc
    BY DEF PoolPc
  <2> QED BY <1>1, <1>3, <1>4, <2>1 DEF PoolReq
<1> HIDE DEF new
<1>6. PoolReqOK(new, DOMAIN count', rule, edits)
  BY <1>1, <1>2, <1>3, <1>5 DEF PoolReqOK, Balancing, keys
<1>7. PoolHandlers'
  BY <1>2, <1>5, <1>6, PoolOneStep DEF PoolInv
<1>8. PoolState' /\ PoolPins' /\ PinsAgree'
  BY DEF PoolInv, PoolState, PoolPins, PinsAgree, SweepScan
<1> QED BY <1>7, <1>8 DEF PoolInv

\* The counters of the other keys are dropped.
LEMMA SweepDropStep ==
    ASSUME PoolInv, NEW r \in Request, SweepDrop(r)
    PROVE  PoolInv'
<1> DEFINE q == req[r]
           new == [q EXCEPT !.pc = "rotate", !.live = {}, !.epoch = 0]
<1>1. q \in PoolReq /\ q.pc = "sweep" /\ PoolReqOK(q, DOMAIN count, rule, edits)
  BY DEF PoolInv, PoolHandlers, SweepDrop
<1>2. /\ req' = [req EXCEPT ![r] = new] /\ rule' = rule /\ edits' = edits /\ count' = count /\ inflight' = inflight
      /\ rotations' = [k \in DOMAIN rotations \cap q.live |-> rotations[k]] /\ pins' = pins /\ home' = home
  BY DEF SweepDrop, Step
<1> HIDE DEF q
<1>3. /\ new \in PoolReq /\ new.pc = "rotate" /\ new.counter = q.counter /\ new.list = q.list /\ new.due = q.due
      /\ new.pin = q.pin
  <2>1. "rotate" \in PoolPc /\ {} \in SUBSET Seq(PoolServer)
    BY DEF PoolPc
  <2> QED BY <1>1, <2>1 DEF PoolReq
<1> HIDE DEF new
<1>4. PoolReqOK(new, DOMAIN count', rule, edits)
  BY <1>1, <1>2, <1>3 DEF PoolReqOK, Balancing
<1>5. PoolHandlers'
  BY <1>2, <1>3, <1>4, PoolOneStep DEF PoolInv
<1>6. PoolState' /\ PoolPins' /\ PinsAgree'
  BY <1>2 DEF PoolInv, PoolState, PoolPins, PinsAgree
<1> QED BY <1>5, <1>6 DEF PoolInv

\* A pinned turn starts on its member; any other takes the counter's next slot.
LEMMA RotateStep ==
    ASSUME PoolInv, NEW r \in Request, Rotate(r)
    PROVE  PoolInv'
<1> DEFINE q == req[r]
           i == StartOf(q.list, count[q.counter])
           w == IF PinnedChain(q) = <<>> THEN Rotated(q.list, i) ELSE PinnedChain(q)
           new == [q EXCEPT !.pc = "send", !.i = 1, !.counter = 0, !.chain = Capped(Servers(w))]
<1>1. q \in PoolReq /\ q.pc = "rotate" /\ PoolReqOK(q, DOMAIN count, rule, edits)
  BY DEF PoolInv, PoolHandlers, Rotate
<1>2. /\ req' = [req EXCEPT ![r] = new] /\ rule' = rule /\ edits' = edits /\ inflight' = inflight
      /\ pins' = pins /\ home' = home /\ rotations' = rotations
      /\ count' = IF PinnedChain(q) = <<>> THEN [count EXCEPT ![q.counter] = @ + 1] ELSE count
  BY DEF Rotate, Step
<1>3. count \in Seq(Nat)
  BY DEF PoolInv, PoolState
<1> HIDE DEF q
<1>4. /\ q.list \in Seq(PoolAttempt) /\ Len(q.list) > 1 /\ q.counter \in DOMAIN count
      /\ q.due # NoServer => q.pin = q.due /\ \E k \in DOMAIN q.list : q.list[k].server = q.due
  BY <1>1 DEF PoolReqOK, PoolReq, Balancing
<1>5. count[q.counter] \in Nat /\ count' \in Seq(Nat) /\ DOMAIN count' = DOMAIN count
  <2>1. count[q.counter] \in Nat
    BY <1>3, <1>4, Elements
  <2> QED BY <1>2, <1>3, <1>4, <2>1
<1>6. PICK f : Rearranged(w, f, q.list, PoolAttempt) /\ (q.due # NoServer => q.list[f[1]].server = q.due)
  <2>1. CASE PinnedChain(q) # <<>>
    <3>1. PICK f : Rearranged(PinnedChain(q), f, q.list, PoolAttempt) /\ q.list[f[1]].server = q.pin
      BY <1>1, <2>1, PinnedChainIs
    <3> QED BY <1>4, <2>1, <3>1
  <2>2. CASE PinnedChain(q) = <<>>
    <3>1. q.list # <<>>
      BY <1>4, Elements
    <3>2. i \in DOMAIN q.list
      BY <1>4, <1>5, <3>1, StartIs
    <3> HIDE DEF i
    <3>3. PICK f : Rearranged(Rotated(q.list, i), f, q.list, PoolAttempt)
      BY <1>4, <3>2, RotatedIs
    <3>4. q.due = NoServer
      BY <1>1, <1>4, <2>2, PinnedChainFound
    <3> QED BY <2>2, <3>3, <3>4
  <2> QED BY <2>1, <2>2
<1>7. new = Sending(q, Capped(Servers(w)), 0)
  BY <1>1 DEF PoolReq, Sending
<1> HIDE DEF w, new
<1>8. new \in PoolReq /\ PoolReqOK(new, DOMAIN count', rule, edits)
  BY <1>1, <1>4, <1>6, <1>7, ReadyToSend
<1>9. PoolHandlers'
  BY <1>2, <1>5, <1>8, PoolOneStep DEF PoolInv
<1>10. PoolState' /\ PoolPins' /\ PinsAgree'
  BY <1>2, <1>5 DEF PoolInv, PoolState, PoolPins, PinsAgree
<1> QED BY <1>9, <1>10 DEF PoolInv

\* An attempt is sent to the next member.
LEMMA SendStep ==
    ASSUME PoolInv, NEW r \in Request, Send(r)
    PROVE  PoolInv'
<1> DEFINE q == req[r]
           s == q.chain[q.i]
           new == [Idle EXCEPT !.pc = "open", !.conv = q.conv, !.chain = q.chain, !.i = q.i]
<1>1. q \in PoolReq /\ q.pc = "send" /\ PoolReqOK(q, DOMAIN count, rule, edits)
  BY DEF PoolInv, PoolHandlers, Send
<1>2. /\ req' = [req EXCEPT ![r] = new] /\ rule' = rule /\ edits' = edits /\ count' = count
      /\ inflight' = [inflight EXCEPT ![s] = @ + 1] /\ pins' = pins /\ home' = home /\ rotations' = rotations
  BY DEF Send, Step
<1>3. inflight \in [PoolServer -> Int]
  BY DEF PoolInv, PoolState
<1> HIDE DEF q
<1>4. q.i \in DOMAIN q.chain /\ q.chain \in Seq(PoolServer)
  BY <1>1 DEF PoolReqOK, PoolReq
<1>5. s \in PoolServer
  BY <1>4, Elements
<1>6. /\ new \in PoolReq /\ new.pc = "open" /\ new.chain = q.chain /\ new.i = q.i
  <2>1. "open" \in PoolPc /\ Idle \in PoolReq
    BY PoolIdle DEF PoolPc
  <2> QED BY <1>1, <2>1 DEF PoolReq
<1> HIDE DEF new
<1>7. PoolReqOK(new, DOMAIN count', rule, edits)
  BY <1>4, <1>6 DEF PoolReqOK, Balancing
<1>8. PoolHandlers'
  BY <1>2, <1>6, <1>7, PoolOneStep DEF PoolInv
<1>9. PoolState'
  BY <1>2, <1>3, <1>5 DEF PoolInv, PoolState
<1>10. PoolPins' /\ PinsAgree'
  BY <1>2 DEF PoolInv, PoolPins, PinsAgree
<1> QED BY <1>8, <1>9, <1>10 DEF PoolInv

\* An attempt failed: the next member is up, or there is none.
LEMMA FailedStep ==
    ASSUME PoolInv, NEW r \in Request, Failed(r)
    PROVE  PoolInv'
<1> DEFINE q == req[r]
           s == q.chain[q.i]
           next == [q EXCEPT !.pc = "send", !.i = @ + 1]
           new == IF q.i < Len(q.chain) THEN next ELSE Idle
<1>1. q \in PoolReq /\ q.pc = "open" /\ PoolReqOK(q, DOMAIN count, rule, edits)
  BY DEF PoolInv, PoolHandlers, Failed
<1>2. /\ req' = [req EXCEPT ![r] = new] /\ rule' = rule /\ edits' = edits /\ count' = count
      /\ inflight' = [inflight EXCEPT ![s] = @ - 1] /\ pins' = pins /\ home' = home /\ rotations' = rotations
  BY DEF Failed, Step
<1>3. inflight \in [PoolServer -> Int]
  BY DEF PoolInv, PoolState
<1> HIDE DEF q
<1>4. q.i \in DOMAIN q.chain /\ q.chain \in Seq(PoolServer) /\ q.i \in Nat
  BY <1>1 DEF PoolReqOK, PoolReq
<1>5. s \in PoolServer /\ Len(q.chain) \in Nat /\ DOMAIN q.chain = 1 .. Len(q.chain)
  BY <1>4, Elements
<1>6. new \in PoolReq /\ PoolReqOK(new, DOMAIN count', rule, edits)
  <2>1. CASE q.i < Len(q.chain)
    <3>1. "send" \in PoolPc /\ q.i + 1 \in Nat /\ q.i + 1 # 1 /\ q.i + 1 \in DOMAIN q.chain
      BY <1>4, <1>5, <2>1 DEF PoolPc
    <3>2. next \in PoolReq /\ next.pc = "send" /\ next.chain = q.chain /\ next.i = q.i + 1
      BY <1>1, <3>1 DEF PoolReq
    <3> HIDE DEF next
    <3>3. PoolReqOK(next, DOMAIN count', rule, edits)
      BY <3>1, <3>2 DEF PoolReqOK, Balancing
    <3> QED BY <2>1, <3>2, <3>3
  <2>2. CASE ~(q.i < Len(q.chain))
    <3>1. Idle \in PoolReq /\ Idle.pc = "idle"
      BY PoolIdle
    <3>2. PoolReqOK(Idle, DOMAIN count', rule, edits)
      BY <3>1 DEF PoolReqOK, Balancing
    <3> QED BY <2>2, <3>1, <3>2
  <2> QED BY <2>1, <2>2
<1> HIDE DEF new
<1>7. PoolHandlers'
  BY <1>2, <1>6, PoolOneStep DEF PoolInv
<1>8. PoolState'
  BY <1>2, <1>3, <1>5 DEF PoolInv, PoolState
<1>9. PoolPins' /\ PinsAgree'
  BY <1>2 DEF PoolInv, PoolPins, PinsAgree
<1> QED BY <1>7, <1>8, <1>9 DEF PoolInv

\* A pin that was just stored.
LEMMA FreshPin ==
    ASSUME NEW s \in PoolServer
    PROVE  [server |-> s, left |-> StickyTTL] \in PoolPin
<1> DEFINE Left == Int
<1>1. StickyTTL \in Left
  BY PoolAssumption
<1> HIDE DEF Left
<1>2. [server |-> s, left |-> StickyTTL] \in [server : PoolServer, left : Left]
  BY <1>1
<1> QED BY <1>2 DEF PoolPin, Left

\* One attempt less is open at a member.
LEMMA AttemptEnds ==
    ASSUME NEW open \in [PoolServer -> Int], NEW s \in PoolServer
    PROVE  [open EXCEPT ![s] = @ - 1] \in [PoolServer -> Int]
OBVIOUS

\* What storing a pin makes of the store.
PinPut(put, c, s) ==
    /\ put \in [DOMAIN put -> PoolPin] /\ "" \notin DOMAIN put /\ IsFiniteSet(DOMAIN put)
    /\ c \in DOMAIN put /\ put[c] = [server |-> s, left |-> StickyTTL]
    /\ \A k \in DOMAIN pins : k # c /\ pins[k].left >= 0 => k \in DOMAIN put /\ put[k] = pins[k]
    /\ DOMAIN put \subseteq DOMAIN pins \cup {c}
    /\ \A k \in DOMAIN put : k # c => put[k] = pins[k]
    /\ Cardinality(DOMAIN pins) >= StickySweepAt => \A k \in DOMAIN put : k # c => pins[k].left >= 0

\* Storing a pin: what a sweep drops has expired, so the conversations that are
\* still bound stay.
LEMMA PutKeepsPins ==
    ASSUME PoolPins, NEW c, c # "", NEW s \in PoolServer
    PROVE  PinPut(AfterPut(c, s), c, s)
<1> DEFINE pin == [server |-> s, left |-> StickyTTL]
           kept == IF Cardinality(DOMAIN pins) >= StickySweepAt
                   THEN {k \in DOMAIN pins : pins[k].left >= 0} ELSE DOMAIN pins
           put == AfterPut(c, s)
<1>1. put = [k \in kept \cup {c} |-> IF k = c THEN pin ELSE pins[k]]
  BY DEF AfterPut
<1>2. /\ kept \subseteq DOMAIN pins /\ \A k \in DOMAIN pins : pins[k].left >= 0 => k \in kept
      /\ Cardinality(DOMAIN pins) >= StickySweepAt => \A k \in kept : pins[k].left >= 0
  OBVIOUS
<1>3. pin \in PoolPin
  BY FreshPin
<1> HIDE DEF pin, kept, put
<1>4. /\ pins \in [DOMAIN pins -> PoolPin] /\ "" \notin DOMAIN pins /\ IsFiniteSet(DOMAIN pins)
  BY DEF PoolPins
<1>5. DOMAIN put = kept \cup {c} /\ put[c] = pin /\ \A k \in kept : k # c => put[k] = pins[k]
  BY <1>1
<1>6. put \in [DOMAIN put -> PoolPin] /\ "" \notin DOMAIN put
  BY <1>1, <1>2, <1>3, <1>4
<1>7. IsFiniteSet(DOMAIN put)
  <2>1. IsFiniteSet(kept)
    BY <1>2, <1>4, FS_Subset
  <2>2. IsFiniteSet(kept \cup {c})
    BY <2>1, FS_AddElement
  <2> QED BY <1>5, <2>2
<1>8. PinPut(put, c, s)
  BY <1>2, <1>5, <1>6, <1>7 DEF pin, PinPut
<1> QED BY <1>8 DEF put

\* A member answered: the conversation is pinned to it (stickyMap.set).
LEMMA ServedStep ==
    ASSUME PoolInv, NEW r \in Request, Served(r)
    PROVE  PoolInv'
<1> DEFINE q == req[r]
           s == q.chain[q.i]
           c == q.conv
<1>1. q \in PoolReq /\ q.pc = "open" /\ PoolReqOK(q, DOMAIN count, rule, edits)
  BY DEF PoolInv, PoolHandlers, Served
<1>2. /\ req' = [req EXCEPT ![r] = Idle] /\ rule' = rule /\ edits' = edits /\ count' = count
      /\ inflight' = [inflight EXCEPT ![s] = @ - 1] /\ rotations' = rotations
      /\ pins' = IF c = "" THEN pins ELSE AfterPut(c, s)
      /\ home' = IF c = "" THEN home
                 ELSE [k \in DOMAIN home \cup {c} |-> IF k = c THEN [server |-> s, left |-> StickyTTL] ELSE home[k]]
  BY DEF Served, Step
<1>3. inflight \in [PoolServer -> Int] /\ PoolPins /\ PinsAgree
  BY DEF PoolInv, PoolState
<1> HIDE DEF q
<1>4. q.i \in DOMAIN q.chain /\ q.chain \in Seq(PoolServer)
  BY <1>1 DEF PoolReqOK, PoolReq
<1>5. s \in PoolServer
  BY <1>4, Elements
<1> HIDE DEF s, c
<1>6. PoolPins' /\ PinsAgree'
  <2>1. CASE c = ""
    BY <1>2, <1>3, <2>1 DEF PoolPins, PinsAgree
  <2>2. CASE c # ""
    <3> DEFINE pin == [server |-> s, left |-> StickyTTL]
    <3>0. pins' = AfterPut(c, s)
      BY <1>2, <2>2
    <3>1. /\ pins' \in [DOMAIN pins' -> PoolPin] /\ "" \notin DOMAIN pins' /\ IsFiniteSet(DOMAIN pins')
          /\ c \in DOMAIN pins' /\ pins'[c] = pin
          /\ \A k \in DOMAIN pins : k # c /\ pins[k].left >= 0 => k \in DOMAIN pins' /\ pins'[k] = pins[k]
      <4>1. PinPut(pins', c, s)
        BY <1>3, <1>5, <2>2, <3>0, PutKeepsPins
      <4> QED BY <4>1 DEF PinPut
    <3>2. home' = [k \in DOMAIN home \cup {c} |-> IF k = c THEN pin ELSE home[k]]
      BY <1>2, <2>2
    <3>3. pin \in PoolPin
      BY <3>1
    <3> HIDE DEF pin
    <3>4. home' \in [DOMAIN home' -> PoolPin] /\ "" \notin DOMAIN home'
      BY <1>3, <2>2, <3>2, <3>3 DEF PoolPins
    <3>5. PinsAgree'
      <4> SUFFICES ASSUME NEW k \in DOMAIN home', home'[k].left >= 0
                   PROVE  k \in DOMAIN pins' /\ pins'[k] = home'[k]
        BY DEF PinsAgree
      <4>1. CASE k = c
        BY <3>1, <3>2, <4>1
      <4>2. CASE k # c
        <5>1. k \in DOMAIN home /\ home'[k] = home[k]
          BY <3>2, <4>2
        <5>2. k \in DOMAIN pins /\ pins[k] = home[k]
          BY <1>3, <5>1 DEF PinsAgree
        <5> QED BY <3>1, <4>2, <5>1, <5>2
      <4> QED BY <4>1, <4>2
    <3> QED BY <3>1, <3>4, <3>5 DEF PoolPins
  <2> QED BY <2>1, <2>2
<1>7. Idle \in PoolReq /\ Idle.pc = "idle"
  BY PoolIdle
<1>8. PoolReqOK(Idle, DOMAIN count', rule, edits)
  BY <1>7 DEF PoolReqOK, Balancing
<1>9. PoolHandlers'
  BY <1>2, <1>7, <1>8, PoolOneStep DEF PoolInv
<1>10. inflight' \in [PoolServer -> Int]
  BY <1>2, <1>3, <1>5, AttemptEnds
<1>11. PoolState'
  BY <1>2, <1>10 DEF PoolInv, PoolState
<1> QED BY <1>6, <1>9, <1>11 DEF PoolInv

\* An edit: what the sweeps have read is stale from now on.
LEMMA EditStep ==
    ASSUME PoolInv, edits' = edits + 1, rule' \in RuleVersions,
           UNCHANGED <<rotations, count, pins, inflight, req, home>>
    PROVE  PoolInv'
<1>1. ASSUME NEW r \in Request PROVE PoolReqOK(req[r], DOMAIN count, rule', edits + 1)
  <2>1. PoolReqOK(req[r], DOMAIN count, rule, edits) /\ req[r].epoch \in Nat /\ edits \in Nat
    BY DEF PoolInv, PoolHandlers, PoolState, PoolReq
  <2> QED BY <2>1 DEF PoolReqOK
<1>2. PoolHandlers'
  BY <1>1 DEF PoolInv, PoolHandlers
<1>3. edits + 1 \in Nat
  BY DEF PoolInv, PoolState
<1>4. PoolState'
  BY <1>3 DEF PoolInv, PoolState
<1>5. PoolPins' /\ PinsAgree'
  BY DEF PoolInv, PoolPins, PinsAgree
<1> QED BY <1>2, <1>4, <1>5 DEF PoolInv

\* Time passes over pins.
LEMMA OlderPins ==
    ASSUME NEW map, map \in [DOMAIN map -> PoolPin]
    PROVE  /\ Older(map) \in [DOMAIN map -> PoolPin] /\ DOMAIN Older(map) = DOMAIN map
           /\ \A k \in DOMAIN map : Older(map)[k].left >= 0 => map[k].left >= 0
           /\ \A k \in DOMAIN map : Older(map)[k] = [map[k] EXCEPT !.left = IF @ < 0 THEN @ ELSE @ - 1]
<1>1. Older(map) = [k \in DOMAIN map |-> [map[k] EXCEPT !.left = IF @ < 0 THEN @ ELSE @ - 1]]
  BY DEF Older
<1>2. ASSUME NEW k \in DOMAIN map
      PROVE  LET e == [map[k] EXCEPT !.left = IF @ < 0 THEN @ ELSE @ - 1]
             IN  e \in PoolPin /\ (e.left >= 0 => map[k].left >= 0)
  <2>1. map[k] \in PoolPin
    OBVIOUS
  <2> QED BY <2>1 DEF PoolPin
<1> QED BY <1>1, <1>2

\* Time passes over the pool.
LEMMA PoolTickStep ==
    ASSUME PoolInv, PoolTick
    PROVE  PoolInv'
<1>1. PoolPins /\ PinsAgree /\ pins' = Older(pins) /\ home' = Older(home)
  BY DEF PoolInv, PoolTick
<1>2. /\ pins' \in [DOMAIN pins -> PoolPin] /\ DOMAIN pins' = DOMAIN pins
      /\ \A k \in DOMAIN pins : pins'[k] = [pins[k] EXCEPT !.left = IF @ < 0 THEN @ ELSE @ - 1]
  BY <1>1, OlderPins DEF PoolPins
<1>3. /\ home' \in [DOMAIN home -> PoolPin] /\ DOMAIN home' = DOMAIN home
      /\ \A k \in DOMAIN home : home'[k].left >= 0 => home[k].left >= 0
      /\ \A k \in DOMAIN home : home'[k] = [home[k] EXCEPT !.left = IF @ < 0 THEN @ ELSE @ - 1]
  BY <1>1, OlderPins DEF PoolPins
<1>4. PoolPins'
  BY <1>1, <1>2, <1>3 DEF PoolPins
<1>5. PinsAgree'
  <2> SUFFICES ASSUME NEW c \in DOMAIN home', home'[c].left >= 0
               PROVE  c \in DOMAIN pins' /\ pins'[c] = home'[c]
    BY DEF PinsAgree
  <2>1. c \in DOMAIN pins /\ pins[c] = home[c]
    BY <1>1, <1>3 DEF PinsAgree
  <2> QED BY <1>2, <1>3, <2>1
<1>6. PoolState' /\ PoolHandlers'
  BY DEF PoolInv, PoolState, PoolHandlers, PoolTick
<1> QED BY <1>4, <1>5, <1>6 DEF PoolInv

\* A pin that was read lives on.
LEMMA RefreshedPin ==
    ASSUME NEW e \in PoolPin
    PROVE  [e EXCEPT !.left = StickyTTL] \in PoolPin
<1> DEFINE Left == Int
<1>1. StickyTTL \in Left
  BY PoolAssumption
<1>2. e \in [server : PoolServer, left : Left]
  BY DEF PoolPin
<1> HIDE DEF Left
<1>3. [e EXCEPT !.left = StickyTTL] \in [server : PoolServer, left : Left]
  BY <1>1, <1>2
<1> QED BY <1>3 DEF PoolPin, Left

\* What reading a pin makes of the store and of where a conversation belongs.
PinGot(got, due) ==
    /\ got \in [DOMAIN got -> PoolPin] /\ "" \notin DOMAIN got /\ IsFiniteSet(DOMAIN got)
    /\ due \in [DOMAIN due -> PoolPin] /\ "" \notin DOMAIN due
    /\ \A k \in DOMAIN due : due[k].left >= 0 => k \in DOMAIN got /\ got[k] = due[k]
    /\ DOMAIN got \subseteq DOMAIN pins

\* Reading a pin refreshes it, and the one that is due alike (stickyMap.get).
LEMMA GetKeepsPins ==
    ASSUME PoolPins, PinsAgree, NEW c, NEW got, got = IF c = "" THEN pins ELSE AfterGet(c),
           NEW due, due = IF DueAt(c) # NoServer THEN [home EXCEPT ![c].left = StickyTTL] ELSE home
    PROVE  PinGot(got, due)
<1>1. /\ pins \in [DOMAIN pins -> PoolPin] /\ "" \notin DOMAIN pins /\ IsFiniteSet(DOMAIN pins)
      /\ home \in [DOMAIN home -> PoolPin] /\ "" \notin DOMAIN home
      /\ \A k \in DOMAIN home : home[k].left >= 0 => k \in DOMAIN pins /\ pins[k] = home[k]
  BY DEF PoolPins, PinsAgree
<1> DEFINE Refreshed(e) == [e EXCEPT !.left = StickyTTL]
<1>2. \A e \in PoolPin : Refreshed(e) \in PoolPin
  BY RefreshedPin
<1> HIDE DEF Refreshed
<1>3. CASE Live(c)
  <2>1. c \in DOMAIN pins /\ pins[c].left >= 0
    BY <1>3 DEF Live
  <2>2. c # ""
    BY <1>1, <2>1
  <2>3. got = [pins EXCEPT ![c] = Refreshed(pins[c])]
    BY <1>3, <2>2 DEF AfterGet, Refreshed
  <2>4. got \in [DOMAIN pins -> PoolPin] /\ DOMAIN got = DOMAIN pins
    BY <1>1, <1>2, <2>1, <2>3
  <2>5. got[c] = Refreshed(pins[c]) /\ \A k \in DOMAIN pins : k # c => got[k] = pins[k]
    BY <1>1, <2>1, <2>3
  <2>6. CASE DueAt(c) # NoServer
    <3>1. c \in DOMAIN home /\ home[c].left >= 0
      BY <2>6 DEF DueAt
    <3>2. due = [home EXCEPT ![c] = Refreshed(home[c])]
      BY <2>6 DEF Refreshed
    <3>3. due \in [DOMAIN home -> PoolPin] /\ DOMAIN due = DOMAIN home
      BY <1>1, <1>2, <3>1, <3>2
    <3>4. due[c] = Refreshed(home[c]) /\ \A k \in DOMAIN home : k # c => due[k] = home[k]
      BY <1>1, <3>1, <3>2
    <3>5. \A k \in DOMAIN due : due[k].left >= 0 => k \in DOMAIN got /\ got[k] = due[k]
      BY <1>1, <2>4, <2>5, <3>1, <3>3, <3>4
    <3> QED BY <1>1, <2>4, <3>3, <3>5 DEF PinGot
  <2>7. CASE DueAt(c) = NoServer
    <3>1. due = home
      BY <2>7
    <3>2. ~(c \in DOMAIN home /\ home[c].left >= 0)
      <4> SUFFICES ASSUME c \in DOMAIN home, home[c].left >= 0 PROVE FALSE
        OBVIOUS
      <4>1. home[c].server = NoServer /\ home[c] \in PoolPin
        BY <1>1, <2>7 DEF DueAt
      <4> QED BY <4>1, PoolAssumption DEF PoolPin
    <3>3. \A k \in DOMAIN due : due[k].left >= 0 => k \in DOMAIN got /\ got[k] = due[k]
      BY <1>1, <2>4, <2>5, <3>1, <3>2
    <3> QED BY <1>1, <2>4, <3>1, <3>3 DEF PinGot
  <2> QED BY <2>6, <2>7
<1>4. CASE ~Live(c)
  <2>1. ~(c \in DOMAIN pins /\ pins[c].left >= 0)
    BY <1>4 DEF Live
  <2>2. ~(c \in DOMAIN home /\ home[c].left >= 0)
    BY <1>1, <2>1
  <2>3. due = home
    BY <2>2 DEF DueAt
  <2> DEFINE kept == DOMAIN pins \ {c}
             rest == [k \in kept |-> pins[k]]
  <2>4. got = rest \/ (c = "" /\ got = pins)
    BY <1>4 DEF AfterGet
  <2>5. CASE got = rest
    <3>1. DOMAIN got = kept /\ \A k \in kept : got[k] = pins[k]
      BY <2>5
    <3>2. got \in [kept -> PoolPin]
      BY <1>1, <2>5
    <3>3. IsFiniteSet(kept) /\ kept \subseteq DOMAIN pins
      BY <1>1, FS_Subset
    <3>4. \A k \in DOMAIN due : due[k].left >= 0 => k \in DOMAIN got /\ got[k] = due[k]
      BY <1>1, <2>2, <2>3, <3>1
    <3> QED BY <1>1, <2>3, <3>1, <3>2, <3>3, <3>4 DEF PinGot
  <2>6. CASE got = pins
    BY <1>1, <2>3, <2>6 DEF PinGot
  <2> QED BY <2>4, <2>5, <2>6
<1> QED BY <1>3, <1>4

\* A handler that has read its rule: a backend the conversation is bound to is
\* the one its pin names.
LEMMA DuePinned ==
    ASSUME PoolPins, PinsAgree, NEW c
    PROVE  /\ Pinned(c) \in PoolNames /\ DueAt(c) \in PoolNames
           /\ DueAt(c) # NoServer => Pinned(c) = DueAt(c)
<1>1. /\ \A k \in DOMAIN pins : pins[k] \in PoolPin
      /\ \A k \in DOMAIN home : home[k] \in PoolPin
      /\ \A k \in DOMAIN home : home[k].left >= 0 => k \in DOMAIN pins /\ pins[k] = home[k]
  BY DEF PoolPins, PinsAgree
<1>2. /\ \A k \in DOMAIN pins : pins[k].server \in PoolNames
      /\ \A k \in DOMAIN home : home[k].server \in PoolNames
  BY <1>1 DEF PoolPin, PoolNames
<1>3. NoServer \in PoolNames
  BY DEF PoolNames
<1>4. Pinned(c) \in PoolNames
  BY <1>2, <1>3 DEF Pinned, Live
<1>5. DueAt(c) \in PoolNames
  BY <1>2, <1>3 DEF DueAt
<1>6. DueAt(c) # NoServer => Pinned(c) = DueAt(c)
  BY <1>1 DEF DueAt, Pinned, Live
<1> QED BY <1>4, <1>5, <1>6

\* A request arrives: its members and its pin are read from the rule as it is.
LEMMA ArriveStep ==
    ASSUME PoolInv, NEW r \in Request, NEW c \in Conversation, Arrive(r, c)
    PROVE  PoolInv'
<1> DEFINE list == Attempts(rule)
           balanced == Len(list) > 1 /\ Balances(rule.balance)
           q == [Idle EXCEPT !.conv = c, !.list = list, !.mode = rule.balance, !.pin = Pinned(c), !.due = DueAt(c)]
           plain == [q EXCEPT !.pc = "send", !.conv = "", !.chain = Capped(Servers(list)), !.i = 1, !.due = NoServer]
           there == IF \E a \in ToSet(list) : a.server = DueAt(c) THEN DueAt(c) ELSE NoServer
           full == [q EXCEPT !.pc = rule.balance, !.due = there]
<1>1. /\ rule' = rule /\ edits' = edits /\ count' = count /\ inflight' = inflight /\ rotations' = rotations
      /\ ~balanced => req' = [req EXCEPT ![r] = plain] /\ pins' = pins /\ home' = home
      /\ balanced => /\ req' = [req EXCEPT ![r] = full]
                     /\ pins' = IF c = "" THEN pins ELSE AfterGet(c)
                     /\ home' = IF DueAt(c) # NoServer THEN [home EXCEPT ![c].left = StickyTTL] ELSE home
  <2>1. q.due = DueAt(c)
    BY DEF Idle
  <2> QED BY <2>1 DEF Arrive, Step
<1>2. PoolHandlers /\ PoolPins /\ PinsAgree /\ rule \in PoolRule
  BY PoolAssumption DEF PoolInv, PoolState
<1>3. list \in Seq(PoolAttempt) /\ list # <<>>
  BY <1>2, AttemptsAre DEF Attempts
<1>4. /\ Pinned(c) \in PoolNames /\ DueAt(c) \in PoolNames
      /\ DueAt(c) # NoServer => Pinned(c) = DueAt(c)
  BY <1>2, DuePinned
<1>5. rule.balance \in STRING \cup {""}
  BY <1>2 DEF PoolRule
<1> HIDE DEF list
<1>6. q \in PoolReq /\ q.list = list /\ q.pin = Pinned(c) /\ q.due = DueAt(c)
  BY <1>3, <1>4, <1>5, PoolIdle DEF PoolReq
<1> HIDE DEF q
<1>7. NoServer \in PoolNames
  BY DEF PoolNames
<1>8. CASE ~balanced
  <2> DEFINE chain == Capped(Servers(list))
  <2>1. PICK f : Rearranged(list, f, list, PoolAttempt)
    BY <1>3, AsItIs
  <2>2. /\ chain \in Seq(PoolServer) /\ 1 \in DOMAIN chain /\ Chained(chain, list)
    BY <1>3, <2>1, CappedIs
  <2> HIDE DEF chain
  <2>3. plain = [q EXCEPT !.pc = "send", !.conv = "", !.chain = chain, !.i = 1, !.due = NoServer]
    BY DEF chain
  <2>4. /\ plain \in PoolReq /\ plain.pc = "send" /\ plain.chain = chain /\ plain.i = 1
        /\ plain.list = list /\ plain.due = NoServer
    <3>1. "send" \in PoolPc /\ "" \in Conversation \cup {""}
      BY DEF PoolPc
    <3> QED BY <1>6, <1>7, <2>2, <2>3, <3>1 DEF PoolReq
  <2> HIDE DEF plain
  <2>5. PoolReqOK(plain, DOMAIN count', rule, edits)
    BY <2>2, <2>4 DEF PoolReqOK, Balancing
  <2>6. PoolHandlers'
    BY <1>1, <1>2, <1>8, <2>4, <2>5, PoolOneStep
  <2>7. PoolState' /\ PoolPins' /\ PinsAgree'
    BY <1>1, <1>8 DEF PoolInv, PoolState, PoolPins, PinsAgree
  <2> QED BY <2>6, <2>7 DEF PoolInv
<1>9. CASE balanced
  <2>1. rule.balance \in {"round-robin", "least-connections"} /\ Len(list) > 1
    BY <1>9 DEF Balances
  <2>2. there \in PoolNames /\ (there # NoServer => there = DueAt(c) /\ \E k \in DOMAIN list : list[k].server = there)
    BY <1>4, <1>7 DEF ToSet
  <2> HIDE DEF there
  <2>3. /\ full \in PoolReq /\ full.pc = rule.balance /\ full.list = list /\ full.due = there /\ full.pin = Pinned(c)
    <3>1. rule.balance \in PoolPc
      BY <2>1 DEF PoolPc
    <3> QED BY <1>6, <2>2, <3>1 DEF PoolReq
  <2> HIDE DEF full
  <2>4. PoolReqOK(full, DOMAIN count', rule, edits)
    BY <1>4, <2>1, <2>2, <2>3 DEF PoolReqOK, Balancing
  <2>5. PoolHandlers'
    BY <1>1, <1>2, <1>9, <2>3, <2>4, PoolOneStep
  <2>6. PoolPins' /\ PinsAgree'
    <3>1. /\ pins' = IF c = "" THEN pins ELSE AfterGet(c)
          /\ home' = IF DueAt(c) # NoServer THEN [home EXCEPT ![c].left = StickyTTL] ELSE home
      BY <1>1, <1>9
    <3>2. PinGot(pins', home')
      BY <1>2, <3>1, GetKeepsPins
    <3> QED BY <3>2 DEF PinGot, PoolPins, PinsAgree
  <2>7. PoolState'
    BY <1>1 DEF PoolInv, PoolState
  <2> QED BY <2>5, <2>6, <2>7 DEF PoolInv
<1> QED BY <1>8, <1>9

\* Every step of the pool keeps its invariant.
LEMMA PoolStep == PoolInv /\ [PoolNext]_poolVars => PoolInv'
<1> SUFFICES ASSUME PoolInv, [PoolNext]_poolVars PROVE PoolInv'
  OBVIOUS
<1>1. ASSUME NEW r \in Request, Handle(r) PROVE PoolInv'
  <2>1. ASSUME NEW c \in Conversation, Arrive(r, c) PROVE PoolInv'
    BY <2>1, ArriveStep
  <2> QED BY <1>1, <2>1, LeastStep, FindCounterStep, SweepScanStep, SweepDropStep, RotateStep,
             SendStep, ServedStep, FailedStep DEF Handle
<1>2. ASSUME NEW v \in RuleVersions, EditRule(v) PROVE PoolInv'
  BY <1>2, EditStep DEF EditRule
<1>3. ASSUME NEW s \in PoolServer, DropServer(s) PROVE PoolInv'
  <2>1. rule' \in RuleVersions
    BY <1>3 DEF DropServer, PoolInv, PoolState
  <2> QED BY <1>3, <2>1, EditStep DEF DropServer
<1>4. ASSUME PoolTick PROVE PoolInv'
  BY <1>4, PoolTickStep
<1>5. ASSUME UNCHANGED poolVars PROVE PoolInv'
  BY <1>5 DEF poolVars, PoolInv, PoolState, PoolPins, PinsAgree, PoolHandlers
<1> QED BY <1>1, <1>2, <1>3, <1>4, <1>5 DEF PoolNext

\* A request's handler moves alone.
LEMMA HandlerAlone ==
    ASSUME PoolInv, NEW r \in Request, Handle(r), NEW x \in Request, x # r
    PROVE  req'[x] = req[x]
<1>1. req \in [Request -> PoolReq]
  BY DEF PoolInv, PoolHandlers
<1>2. \E new : req' = [req EXCEPT ![r] = new]
  BY DEF Handle, Arrive, Least, FindCounter, SweepScan, SweepDrop, Rotate, Send, Served, Failed, Step
<1> QED BY <1>1, <1>2

\* A pin that enters a store at its bound meets live pins only.
LEMMA PinsStep ==
    ASSUME PoolInv, [PoolNext]_poolVars, DOMAIN pins' \ DOMAIN pins # {},
           Cardinality(DOMAIN pins') > StickySweepAt
    PROVE  \A k \in DOMAIN pins' : pins'[k].left >= 0
<1>1. PICK r \in Request : Handle(r)
  <2>1. ASSUME NEW v \in RuleVersions, EditRule(v) PROVE FALSE
    BY <2>1 DEF EditRule
  <2>2. ASSUME NEW s \in PoolServer, DropServer(s) PROVE FALSE
    BY <2>2 DEF DropServer
  <2>3. ~PoolTick
    BY DEF PoolTick, Older
  <2>4. ~UNCHANGED poolVars
    BY DEF poolVars
  <2> QED BY <2>1, <2>2, <2>3, <2>4 DEF PoolNext
<1>2. PoolPins /\ PinsAgree
  BY DEF PoolInv
<1>3. Served(r)
  <2>1. ASSUME NEW c \in Conversation, Arrive(r, c) PROVE FALSE
    <3>1. pins' = pins \/ pins' = AfterGet(c)
      BY <2>1 DEF Arrive
    <3>2. DOMAIN AfterGet(c) \subseteq DOMAIN pins
      BY DEF AfterGet
    <3> QED BY <3>1, <3>2
  <2> QED BY <1>1, <2>1 DEF Handle, Least, FindCounter, SweepScan, SweepDrop, Rotate, Send, Failed
<1> DEFINE q == req[r]
           s == q.chain[q.i]
           c == q.conv
<1>4. c # "" /\ pins' = AfterPut(c, s)
  BY <1>3 DEF Served
<1>5. s \in PoolServer
  <2>1. q \in PoolReq /\ q.pc = "open" /\ PoolReqOK(q, DOMAIN count, rule, edits)
    BY <1>3 DEF PoolInv, PoolHandlers, Served
  <2> HIDE DEF q
  <2>2. q.i \in DOMAIN q.chain /\ q.chain \in Seq(PoolServer)
    BY <2>1 DEF PoolReqOK, PoolReq
  <2> QED BY <2>2, Elements
<1> HIDE DEF c, s
<1>6. PinPut(pins', c, s)
  BY <1>2, <1>4, <1>5, PutKeepsPins
<1>7. c \notin DOMAIN pins /\ IsFiniteSet(DOMAIN pins) /\ DOMAIN pins' \subseteq DOMAIN pins \cup {c}
  BY <1>2, <1>6 DEF PinPut, PoolPins
<1>8. Cardinality(DOMAIN pins) >= StickySweepAt
  <2> DEFINE n == Cardinality(DOMAIN pins)
             m == Cardinality(DOMAIN pins')
             more == DOMAIN pins \cup {c}
  <2>1. IsFiniteSet(more) /\ Cardinality(more) = n + 1
    BY <1>7, FS_AddElement
  <2>2. n \in Nat
    BY <1>7, FS_CardinalityType
  <2>3. m <= Cardinality(more) /\ m \in Nat
    BY <1>7, <2>1, FS_Subset, FS_CardinalityType
  <2>4. m > StickySweepAt /\ StickySweepAt \in Nat
    BY PoolAssumption
  <2> HIDE DEF n, m
  <2>5. n >= StickySweepAt
    BY <2>1, <2>2, <2>3, <2>4
  <2> QED BY <2>5 DEF n
<1>9. StickyTTL >= 0
  BY PoolAssumption
<1>10. /\ pins'[c] = [server |-> s, left |-> StickyTTL]
       /\ \A k \in DOMAIN pins' : k # c => pins'[k] = pins[k] /\ pins[k].left >= 0
  BY <1>6, <1>8 DEF PinPut
<1>11. pins'[c].left >= 0
  BY <1>9, <1>10
<1> QED BY <1>10, <1>11

\* The sweep that drops the counter of a pool read rules that do not build it.
LEMMA RotationStep ==
    ASSUME PoolInv, [PoolNext]_poolVars, NEW r \in Request, req[r].pc = "sweep", req'[r].pc = "rotate",
           req[r].epoch = edits, Balances(rule.balance),
           \A f \in ToSet(orderedFallbacks(rule)) : f.server \in defined
    PROVE  Servers(Attempts(rule)) \notin DOMAIN rotations \ DOMAIN rotations'
<1> DEFINE key == Servers(Attempts(rule))
<1>1. PICK x \in Request : Handle(x)
  BY DEF PoolNext, EditRule, DropServer, PoolTick, poolVars
<1>2. x = r
  BY <1>1, HandlerAlone
<1>3. SweepDrop(r)
  BY <1>1, <1>2 DEF Handle, Arrive, Least, FindCounter, SweepScan, Rotate, Send, Served, Failed
<1>4. DOMAIN rotations' = DOMAIN rotations \cap req[r].live
  BY <1>3 DEF SweepDrop
<1>5. req[r].live = LiveKeys(rule) /\ rule \in PoolRule
  BY PoolAssumption DEF PoolInv, PoolHandlers, PoolReqOK, PoolState
<1>6. key = <<rule.server>> \o [k \in DOMAIN orderedFallbacks(rule) |-> orderedFallbacks(rule)[k].server]
  BY <1>5, AttemptsAre DEF Attempts
<1>7. \A k \in DOMAIN rotations : Len(k) > 1
  BY DEF PoolInv, PoolState
<1>8. Len(key) > 1 => key \in LiveKeys(rule)
  BY <1>6 DEF LiveKeys
<1> HIDE DEF key
<1>9. key \notin DOMAIN rotations \ DOMAIN rotations'
  BY <1>4, <1>5, <1>7, <1>8
<1> QED BY <1>9 DEF key

-----------------------------------------------------------------------------
(* The choice of the backends.                                             *)

\* The inductive invariant of the whole: the two halves share no state.
SelectInv == PoolInv /\ JevInv

\* In every state the pins, the rotations, the handlers of both kinds and the
\* stores of the decision router are as the two inductive invariants say.
THEOREM SelectInvariant == SelectSpec => []SelectInv
<1>1. SelectInit => SelectInv
  BY PoolStart, JevStart DEF SelectInit, SelectInv
<1>2. SelectInv /\ [SelectNext]_selectVars => SelectInv'
  <2> SUFFICES ASSUME SelectInv, [SelectNext]_selectVars PROVE SelectInv'
    OBVIOUS
  <2>1. [PoolNext]_poolVars /\ [JevNext]_jevVars
    BY DEF SelectNext, selectVars
  <2> QED BY <2>1, PoolStep, JevStep DEF SelectInv
<1> QED BY <1>1, <1>2, PTL DEF SelectSpec

\* A turn of a conversation starts on the backend that served its last one while
\* the conversation lives and its list names the backend, in both balance modes
\* (stickyGet, stickyPut, balanceRotation, balanceLeast).
THEOREM PinsHonoured == SelectSpec => []PinHonoured
<1>1. SelectInv => PinHonoured
  BY PoolInvSays DEF SelectInv
<1> QED BY <1>1, SelectInvariant, PTL

\* However the list of a request is made, nothing that could serve it is left out
\* or tried twice, up to the configured cap (Handle, balanceRotation,
\* balanceLeast, jevFallbackOrder and the routing that fails open).
THEOREM NothingLeftOut == SelectSpec => []WholePool
<1>1. SelectInv => WholePool
  BY PoolInvSays, JevInvSays DEF SelectInv, WholePool
<1> QED BY <1>1, SelectInvariant, PTL

\* Without a confident decision the decision router trades no stronger model for
\* a weaker one, first or as a fallback (applyJevPolicy, jevFallbackOrder).
THEOREM NoStepDown == SelectSpec => []NeverStepsDown
<1>1. SelectInv => NeverStepsDown
  BY JevInvSays DEF SelectInv, NeverStepsDown
<1> QED BY <1>1, SelectInvariant, PTL

\* A tool turn keeps the model its conversation was last settled on for as long as
\* the pin lives, whatever passes through the bounded store (jevStickyPut).
THEOREM LoopsKeepModel == SelectSpec => []LoopKeepsModel
<1>1. SelectInv => LoopKeepsModel
  BY JevInvSays DEF SelectInv
<1> QED BY <1>1, SelectInvariant, PTL

\* The sweeps of the pins and of the rotation counters drop what is dead and
\* nothing else (stickyPut, sweepRotations).
THEOREM SweepsAreExact == SelectSpec => SweepsExact
<1> DEFINE Live0 == DOMAIN pins' \ DOMAIN pins # {} /\ Cardinality(DOMAIN pins') > StickySweepAt
                        => \A k \in DOMAIN pins' : pins'[k].left >= 0
           Kept0 == \A r \in Request :
                        /\ req[r].pc = "sweep" /\ req'[r].pc = "rotate" /\ req[r].epoch = edits
                        /\ Balances(rule.balance)
                        /\ \A f \in ToSet(orderedFallbacks(rule)) : f.server \in defined
                        => Servers(Attempts(rule)) \notin DOMAIN rotations \ DOMAIN rotations'
<1>1. SelectInv /\ [SelectNext]_selectVars => [Live0]_pins /\ [Kept0]_<<req, rotations>>
  <2> SUFFICES ASSUME SelectInv, [SelectNext]_selectVars PROVE Live0 /\ Kept0
    OBVIOUS
  <2>1. PoolInv /\ [PoolNext]_poolVars
    BY DEF SelectInv, SelectNext, selectVars
  <2>2. Live0
    BY <2>1, PinsStep
  <2>3. Kept0
    BY <2>1, RotationStep
  <2> QED BY <2>2, <2>3
<1> QED BY <1>1, SelectInvariant, PTL DEF SelectSpec, SweepsExact, PinsBounded, RotationKept

-----------------------------------------------------------------------------
(* The shares of a weighted rotation.                                      *)

Dealer == [list : PoolLists, dealt : Seq(Nat)]

\* A counter that stands at n has dealt every member its share.
DealtOut(e, n) ==
    /\ Len(e.dealt) = Len(e.list)
    /\ \A i \in DOMAIN e.list :
        e.dealt[i] = Share(SlotsBefore(e.list)[i], Weights(e.list)[i], n \div Slots(e.list), n % Slots(e.list))

\* The counter a handler holds is the one of its pool.
DealerKnown(q, dealers) ==
    /\ q.pc \in Balancing => q.list \in PoolLists
    /\ q.pc \in {"scan", "sweep", "rotate"} => Servers(dealers[q.counter].list) = Servers(q.list)

\* The inductive invariant of the shares, beside PoolInv.
ShareInv ==
    /\ defined \subseteq PoolServer
    /\ starts \in Seq(Dealer) /\ Len(starts) = Len(count)
    /\ \A g \in DOMAIN count : DealtOut(starts[g], count[g])
    /\ \A k \in DOMAIN rotations : Servers(starts[rotations[k]].list) = k
    /\ \A r \in Request : DealerKnown(req[r], starts)

\* The lists that are balanced over are lists of members, never empty.
LEMMA PoolListIs ==
    ASSUME NEW list \in PoolLists
    PROVE  list \in Seq(PoolAttempt) /\ list # <<>>
<1>1. PICK v \in RuleVersions, names \in SUBSET PoolServer : list = AttemptsIn(v, names)
  BY DEF PoolLists
<1>2. v \in PoolRule
  BY PoolAssumption
<1> QED BY <1>1, <1>2, AttemptsAre

\* What a share of a round is worth.
LEMMA ShareBounds ==
    ASSUME NEW b \in Nat, NEW w \in Nat, NEW rounds \in Nat, NEW slot \in Nat,
           NEW n, n = Share(b, w, rounds, slot)
    PROVE  /\ n >= rounds * w /\ n <= (rounds + 1) * w
           /\ slot = 0 => n = rounds * w
<1> DEFINE m == rounds * w
<1>1. m \in Nat /\ (rounds + 1) * w = m + w
  OBVIOUS
<1>2. n = m + IF slot < b THEN 0 ELSE IF slot > b + w THEN w ELSE slot - b
  BY DEF Share
<1> HIDE DEF m
<1>3. n >= m /\ n <= m + w /\ (slot = 0 => n = m)
  BY <1>1, <1>2
<1> QED BY <1>1, <1>3 DEF m

\* What the dealers know makes the shares fair.
LEMMA ShareInvSays ==
    ASSUME PoolInv, ShareInv
    PROVE  FairShare
<1> SUFFICES ASSUME NEW g \in DOMAIN count, NEW i \in DOMAIN starts[g].list
             PROVE  LET list == starts[g].list
                        rounds == count[g] \div Slots(list)
                    IN  /\ starts[g].dealt[i] >= rounds * list[i].weight
                        /\ starts[g].dealt[i] <= (rounds + 1) * list[i].weight
                        /\ count[g] % Slots(list) = 0 => starts[g].dealt[i] = rounds * list[i].weight
  BY DEF FairShare
<1> DEFINE e == starts[g]
           list == e.list
           c == count[g]
           s == Slots(list)
           b == SlotsBefore(list)
           w == Weights(list)
           n == Len(list)
<1>1. count \in Seq(Nat) /\ starts \in Seq(Dealer) /\ Len(starts) = Len(count) /\ DealtOut(e, c)
  BY DEF PoolInv, PoolState, ShareInv
<1>2. c \in Nat /\ e \in Dealer
  <2>1. g \in DOMAIN starts
    BY <1>1, Elements
  <2> QED BY <1>1, <2>1, Elements
<1>3. list \in PoolLists /\ e.dealt[i] = Share(b[i], w[i], c \div s, c % s)
  BY <1>1, <1>2 DEF Dealer, DealtOut
<1> HIDE DEF e
<1>4. list \in Seq(PoolAttempt) /\ list # <<>>
  BY <1>3, PoolListIs
<1>5. Deals(b, w, n) /\ s \in Nat \ {0}
  BY <1>2, <1>4, ListDeals, StartIs
<1>6. n \in Nat /\ i \in 1 .. n /\ w[i] = list[i].weight
  <2>1. n \in Nat /\ DOMAIN list = 1 .. n
    BY <1>4, Elements
  <2> QED BY <2>1 DEF Weights, e
<1> HIDE DEF c, s, b, w, n, list
<1>7. b[i] \in Nat /\ w[i] \in Nat
  <2>1. i \in 1 .. (n + 1)
    BY <1>6
  <2> QED BY <1>5, <1>6, <2>1 DEF Deals
<1>8. c \div s \in Nat /\ (c % s) \in Nat
  BY <1>2, <1>5, DivMod
<1>9. /\ e.dealt[i] >= (c \div s) * w[i] /\ e.dealt[i] <= ((c \div s) + 1) * w[i]
      /\ c % s = 0 => e.dealt[i] = (c \div s) * w[i]
  <2> DEFINE rounds == c \div s
             slot == c % s
             bi == b[i]
             wi == w[i]
             d == e.dealt[i]
  <2>1. bi \in Nat /\ wi \in Nat /\ rounds \in Nat /\ slot \in Nat /\ d = Share(bi, wi, rounds, slot)
    BY <1>3, <1>7, <1>8
  <2> HIDE DEF rounds, slot, bi, wi, d
  <2>2. d >= rounds * wi /\ d <= (rounds + 1) * wi /\ (slot = 0 => d = rounds * wi)
    BY <2>1, ShareBounds
  <2> QED BY <2>2 DEF rounds, slot, bi, wi, d
<1> QED BY <1>6, <1>9 DEF c, s, list, e

\* A step of one handler that deals nothing.
LEMMA ShareOneStep ==
    ASSUME PoolInv, ShareInv, NEW r \in Request, NEW new, req' = [req EXCEPT ![r] = new], DealerKnown(new, starts),
           defined' = defined, count' = count, starts' = starts,
           DOMAIN rotations' \subseteq DOMAIN rotations, \A k \in DOMAIN rotations' : rotations'[k] = rotations[k]
    PROVE  ShareInv'
<1>1. \A x \in Request : DealerKnown(req'[x], starts)
  BY DEF PoolInv, PoolHandlers, ShareInv
<1> QED BY <1>1 DEF ShareInv

\* The handlers' steps that leave the counters alone.
LEMMA ShareQuietStep ==
    ASSUME PoolInv, ShareInv, NEW r \in Request,
           \/ \E c \in Conversation : Arrive(r, c)
           \/ Least(r) \/ SweepScan(r) \/ SweepDrop(r) \/ Send(r) \/ Served(r) \/ Failed(r)
    PROVE  ShareInv'
<1> DEFINE q == req[r]
<1>1. q \in PoolReq /\ DealerKnown(q, starts) /\ req \in [Request -> PoolReq]
  BY DEF PoolInv, PoolHandlers, ShareInv
<1>2. ASSUME NEW c \in Conversation, Arrive(r, c) PROVE ShareInv'
  <2> DEFINE list == Attempts(rule)
  <2>1. list \in PoolLists
    BY DEF PoolInv, PoolState, ShareInv, Attempts, PoolLists
  <2>2. /\ defined' = defined /\ count' = count /\ starts' = starts /\ rotations' = rotations
        /\ \E new : /\ req' = [req EXCEPT ![r] = new] /\ new.list = list
                    /\ new.pc = "send" \/ new.pc \in {"round-robin", "least-connections"}
    <3> DEFINE p == [Idle EXCEPT !.conv = c, !.list = list, !.mode = rule.balance, !.pin = Pinned(c), !.due = DueAt(c)]
               plain == [p EXCEPT !.pc = "send", !.conv = "", !.chain = Capped(Servers(list)), !.i = 1, !.due = NoServer]
               full == [p EXCEPT !.pc = rule.balance, !.due = IF \E a \in ToSet(list) : a.server = @ THEN @ ELSE NoServer]
    <3>1. plain.list = list /\ plain.pc = "send" /\ full.list = list /\ full.pc = rule.balance
      BY DEF Idle
    <3>2. \/ req' = [req EXCEPT ![r] = plain]
          \/ req' = [req EXCEPT ![r] = full] /\ Balances(rule.balance)
      BY <1>2 DEF Arrive, Step
    <3>3. defined' = defined /\ count' = count /\ starts' = starts /\ rotations' = rotations
      BY <1>2 DEF Arrive
    <3> QED BY <3>1, <3>2, <3>3 DEF Balances
  <2>3. PICK new : /\ req' = [req EXCEPT ![r] = new] /\ new.list = list
                   /\ new.pc = "send" \/ new.pc \in {"round-robin", "least-connections"}
    BY <2>2
  <2> HIDE DEF list
  <2>4. DealerKnown(new, starts)
    BY <2>1, <2>3 DEF DealerKnown, Balancing
  <2> QED BY <2>2, <2>3, <2>4, ShareOneStep
<1>3. ASSUME Least(r) PROVE ShareInv'
  <2>1. /\ defined' = defined /\ count' = count /\ starts' = starts /\ rotations' = rotations
        /\ \E chain : req' = [req EXCEPT ![r] = [q EXCEPT !.pc = "send", !.chain = chain, !.i = 1]]
    BY <1>3 DEF Least, Step
  <2>2. PICK chain : req' = [req EXCEPT ![r] = [q EXCEPT !.pc = "send", !.chain = chain, !.i = 1]]
    BY <2>1
  <2> DEFINE new == [q EXCEPT !.pc = "send", !.chain = chain, !.i = 1]
  <2>3. new.pc = "send"
    BY <1>1 DEF PoolReq
  <2> HIDE DEF new
  <2>4. DealerKnown(new, starts)
    BY <2>3 DEF DealerKnown, Balancing
  <2> QED BY <2>1, <2>2, <2>4, ShareOneStep DEF new
<1>4. ASSUME SweepScan(r) PROVE ShareInv'
  <2> DEFINE new == [q EXCEPT !.pc = "sweep", !.live = LiveKeys(rule), !.epoch = edits]
  <2>1. /\ defined' = defined /\ count' = count /\ starts' = starts /\ rotations' = rotations
        /\ req' = [req EXCEPT ![r] = new] /\ q.pc = "scan"
    BY <1>4 DEF SweepScan, Step
  <2>2. new.pc = "sweep" /\ new.list = q.list /\ new.counter = q.counter
    BY <1>1 DEF PoolReq
  <2> HIDE DEF new
  <2>3. DealerKnown(new, starts)
    BY <1>1, <2>1, <2>2 DEF DealerKnown, Balancing
  <2> QED BY <2>1, <2>3, ShareOneStep
<1>5. ASSUME SweepDrop(r) PROVE ShareInv'
  <2> DEFINE new == [q EXCEPT !.pc = "rotate", !.live = {}, !.epoch = 0]
  <2>1. /\ defined' = defined /\ count' = count /\ starts' = starts
        /\ rotations' = [k \in DOMAIN rotations \cap q.live |-> rotations[k]]
        /\ req' = [req EXCEPT ![r] = new] /\ q.pc = "sweep"
    BY <1>5 DEF SweepDrop, Step
  <2>2. new.pc = "rotate" /\ new.list = q.list /\ new.counter = q.counter
    BY <1>1 DEF PoolReq
  <2> HIDE DEF new
  <2>3. DealerKnown(new, starts)
    BY <1>1, <2>1, <2>2 DEF DealerKnown, Balancing
  <2>4. DOMAIN rotations' \subseteq DOMAIN rotations /\ \A k \in DOMAIN rotations' : rotations'[k] = rotations[k]
    BY <2>1
  <2> QED BY <2>1, <2>3, <2>4, ShareOneStep
<1>6. ASSUME Send(r) PROVE ShareInv'
  <2> DEFINE new == [Idle EXCEPT !.pc = "open", !.conv = q.conv, !.chain = q.chain, !.i = q.i]
  <2>1. /\ defined' = defined /\ count' = count /\ starts' = starts /\ rotations' = rotations
        /\ req' = [req EXCEPT ![r] = new]
    BY <1>6 DEF Send, Step
  <2>2. new.pc = "open"
    BY DEF Idle
  <2> HIDE DEF new
  <2>3. DealerKnown(new, starts)
    BY <2>2 DEF DealerKnown, Balancing
  <2> QED BY <2>1, <2>3, ShareOneStep
<1>7. DealerKnown(Idle, starts)
  BY PoolIdle DEF DealerKnown, Balancing
<1>8. ASSUME Served(r) PROVE ShareInv'
  <2>1. /\ defined' = defined /\ count' = count /\ starts' = starts /\ rotations' = rotations
        /\ req' = [req EXCEPT ![r] = Idle]
    BY <1>8 DEF Served, Step
  <2> QED BY <1>7, <2>1, ShareOneStep
<1>9. ASSUME Failed(r) PROVE ShareInv'
  <2> DEFINE next == [q EXCEPT !.pc = "send", !.i = @ + 1]
  <2>1. /\ defined' = defined /\ count' = count /\ starts' = starts /\ rotations' = rotations
        /\ req' = [req EXCEPT ![r] = IF q.i < Len(q.chain) THEN next ELSE Idle]
    BY <1>9 DEF Failed, Step
  <2>2. next.pc = "send"
    BY <1>1 DEF PoolReq
  <2> HIDE DEF next
  <2>3. DealerKnown(next, starts)
    BY <2>2 DEF DealerKnown, Balancing
  <2>4. DealerKnown(IF q.i < Len(q.chain) THEN next ELSE Idle, starts)
    BY <1>7, <2>3
  <2> QED BY <2>1, <2>4, ShareOneStep
<1> QED BY <1>2, <1>3, <1>4, <1>5, <1>6, <1>8, <1>9

\* A new counter has dealt nothing.
LEMMA NothingDealt ==
    ASSUME NEW list \in PoolLists, NEW e, e = [list |-> list, dealt |-> [i \in DOMAIN list |-> 0]]
    PROVE  e \in Dealer /\ DealtOut(e, 0)
<1> DEFINE n == Len(list)
           b == SlotsBefore(list)
           w == Weights(list)
           s == Slots(list)
           none == [i \in 1 .. n |-> 0]
<1>1. list \in Seq(PoolAttempt) /\ list # <<>>
  BY PoolListIs
<1>2. n \in Nat /\ DOMAIN list = 1 .. n
  BY <1>1, Elements
<1>3. none \in Seq(Nat) /\ Len(none) = n
  BY <1>2
<1>4. e.list = list /\ e.dealt = none /\ \A i \in 1 .. n : none[i] = 0
  BY <1>2
<1>5. e \in Dealer
  <2> HIDE DEF none
  <2>1. e = [list |-> list, dealt |-> none]
    BY <1>2 DEF none
  <2> QED BY <1>3, <2>1 DEF Dealer
<1>6. Deals(b, w, n) /\ s \in Nat \ {0}
  <2>1. 0 \in Nat
    OBVIOUS
  <2> QED BY <1>1, <2>1, ListDeals, StartIs
<1>7. 0 \div s = 0 /\ 0 % s = 0
  BY <1>6, DivMod
<1> HIDE DEF b, w, s, n
<1>8. \A i \in 1 .. n : Share(b[i], w[i], 0, 0) = 0
  <2> SUFFICES ASSUME NEW i \in 1 .. n PROVE Share(b[i], w[i], 0, 0) = 0
    OBVIOUS
  <2> DEFINE bi == b[i]
             wi == w[i]
  <2>1. i \in 1 .. (n + 1)
    BY <1>2
  <2>2. bi \in Nat /\ wi \in Nat
    BY <1>6, <2>1 DEF Deals
  <2> HIDE DEF bi, wi
  <2>3. Share(bi, wi, 0, 0) = 0
    BY <2>2 DEF Share
  <2> QED BY <2>3 DEF bi, wi
<1>9. \A i \in DOMAIN list : Share(b[i], w[i], 0 \div s, 0 % s) = 0
  BY <1>2, <1>7, <1>8
<1>10. DealtOut(e, 0)
  <2>1. Len(e.dealt) = Len(e.list)
    BY <1>3, <1>4 DEF n
  <2>2. \A i \in DOMAIN e.list : e.dealt[i] = Share(SlotsBefore(e.list)[i], Weights(e.list)[i], 0 \div Slots(e.list), 0 % Slots(e.list))
    BY <1>2, <1>4, <1>9 DEF b, w, s
  <2> QED BY <2>1, <2>2 DEF DealtOut
<1> QED BY <1>5, <1>10

\* The next start.
LEMMA OneDealt ==
    ASSUME NEW e \in Dealer, NEW c \in Nat, DealtOut(e, c), NEW i, i = StartOf(e.list, c),
           NEW new, new = [e EXCEPT !.dealt = [e.dealt EXCEPT ![i] = e.dealt[i] + 1]]
    PROVE  new \in Dealer /\ DealtOut(new, c + 1) /\ new.list = e.list
<1> DEFINE list == e.list
           d == e.dealt
           n == Len(list)
           b == SlotsBefore(list)
           w == Weights(list)
           s == Slots(list)
           more == [d EXCEPT ![i] = d[i] + 1]
<1>1. list \in PoolLists /\ d \in Seq(Nat) /\ Len(d) = n
  BY DEF Dealer, DealtOut
<1>2. list \in Seq(PoolAttempt) /\ list # <<>>
  BY <1>1, PoolListIs
<1>3. n \in Nat /\ DOMAIN list = 1 .. n /\ DOMAIN d = 1 .. n /\ \A k \in 1 .. n : d[k] \in Nat
  BY <1>1, <1>2, Elements
<1>4. /\ i \in 1 .. n /\ s \in Nat \ {0} /\ b[i] <= (c % s) /\ (c % s) < b[i] + w[i]
  BY <1>2, <1>3, StartIs
<1>5. Deals(b, w, n) /\ b[n + 1] = s
  BY <1>2, ListDeals
<1>6. \A j \in 1 .. n : d[j] = Share(b[j], w[j], c \div s, c % s)
  BY <1>3 DEF DealtOut
<1>7. new = [e EXCEPT !.dealt = more]
  OBVIOUS
<1> HIDE DEF b, w, s, n, list, d
<1>8. /\ more \in Seq(Nat) /\ Len(more) = n /\ more[i] = d[i] + 1
      /\ \A j \in 1 .. n : j # i => more[j] = d[j]
  BY <1>1, <1>3, <1>4
<1> HIDE DEF more
<1>9. new \in Dealer /\ new.list = list /\ new.dealt = more
  BY <1>7, <1>8 DEF Dealer, list
<1>10. ASSUME NEW j \in 1 .. n PROVE more[j] = Share(b[j], w[j], (c + 1) \div s, (c + 1) % s)
  <2>1. Share(b[j], w[j], (c + 1) \div s, (c + 1) % s)
          = Share(b[j], w[j], c \div s, c % s) + IF j = i THEN 1 ELSE 0
    BY <1>4, <1>5, NextShare
  <2>2. more[j] = d[j] + IF j = i THEN 1 ELSE 0
    BY <1>3, <1>8
  <2> QED BY <1>6, <2>1, <2>2
<1>11. \A j \in DOMAIN list : more[j] = Share(b[j], w[j], (c + 1) \div s, (c + 1) % s)
  BY <1>3, <1>10
<1>12. DealtOut(new, c + 1)
  BY <1>8, <1>9, <1>11 DEF DealtOut, b, w, s, n
<1> QED BY <1>9, <1>12 DEF list

\* A new counter has dealt nothing; an old one serves the list it was made for.
LEMMA ShareFindCounter ==
    ASSUME PoolInv, ShareInv, NEW r \in Request, FindCounter(r)
    PROVE  ShareInv'
<1> DEFINE q == req[r]
           key == Servers(q.list)
           fresh == key \notin DOMAIN rotations
           g == IF fresh THEN Len(count) + 1 ELSE rotations[key]
           pc == IF fresh /\ rotationKeys + 1 > RotationSweepAt THEN "scan" ELSE "rotate"
           new == [q EXCEPT !.counter = g, !.pc = pc]
           e == [list |-> q.list, dealt |-> [i \in DOMAIN q.list |-> 0]]
<1>1. /\ q \in PoolReq /\ q.pc = "round-robin" /\ DealerKnown(q, starts) /\ req \in [Request -> PoolReq]
      /\ \A x \in Request : PoolReqOK(req[x], DOMAIN count, rule, edits) /\ DealerKnown(req[x], starts)
  BY DEF PoolInv, PoolHandlers, ShareInv, FindCounter
<1>2. /\ req' = [req EXCEPT ![r] = new] /\ defined' = defined
      /\ rotations' = [k \in DOMAIN rotations \cup {key} |-> IF k = key THEN g ELSE rotations[k]]
      /\ count' = IF fresh THEN Append(count, 0) ELSE count
      /\ starts' = IF fresh THEN Append(starts, e) ELSE starts
  BY DEF FindCounter, Step
<1>3. /\ count \in Seq(Nat) /\ starts \in Seq(Dealer) /\ Len(starts) = Len(count)
      /\ \A k \in DOMAIN rotations : rotations[k] \in DOMAIN count /\ Servers(starts[rotations[k]].list) = k
      /\ \A x \in DOMAIN count : DealtOut(starts[x], count[x])
  BY DEF PoolInv, PoolState, ShareInv
<1> HIDE DEF q
<1>4. q.list \in PoolLists
  BY <1>1 DEF DealerKnown, Balancing
<1>5. e \in Dealer /\ DealtOut(e, 0) /\ e.list = q.list
  BY <1>4, NothingDealt
<1> HIDE DEF e
<1>6. Len(count) \in Nat /\ DOMAIN count = 1 .. Len(count) /\ DOMAIN starts = 1 .. Len(count)
  BY <1>3, Elements
<1>7. pc \in {"scan", "rotate"}
  OBVIOUS
<1> HIDE DEF pc
<1>8. new.counter = g /\ new.pc = pc /\ new.list = q.list
  BY <1>1 DEF PoolReq
<1> HIDE DEF new
<1>9. /\ starts' \in Seq(Dealer) /\ Len(starts') = Len(count')
      /\ \A x \in DOMAIN count : starts'[x] = starts[x]
      /\ \A x \in DOMAIN count' : DealtOut(starts'[x], count'[x])
      /\ Servers(starts'[g].list) = key
  <2>1. CASE fresh
    <3> DEFINE n == Len(count)
               z == Append(count, 0)
               y == Append(starts, e)
    <3>1. /\ z \in Seq(Nat) /\ Len(z) = n + 1 /\ z[n + 1] = 0 /\ \A x \in 1 .. n : z[x] = count[x]
      BY <1>3, AppendProperties
    <3>2. /\ y \in Seq(Dealer) /\ Len(y) = n + 1 /\ y[n + 1] = e /\ \A x \in 1 .. n : y[x] = starts[x]
      BY <1>3, <1>5, AppendProperties
    <3>3. count' = z /\ starts' = y /\ g = n + 1
      BY <1>2, <2>1
    <3> HIDE DEF z, y, n
    <3>4. DOMAIN z = 1 .. (n + 1)
      BY <3>1, Elements
    <3>5. n \in Nat /\ DOMAIN count = 1 .. n
      BY <1>6 DEF n
    <3>6. \A x \in 1 .. (n + 1) : x = n + 1 \/ x \in 1 .. n
      BY <3>5
    <3>7. \A x \in DOMAIN z : DealtOut(y[x], z[x])
      BY <1>3, <1>5, <3>1, <3>2, <3>4, <3>5, <3>6
    <3> QED BY <1>5, <3>1, <3>2, <3>3, <3>5, <3>7
  <2>2. CASE ~fresh
    BY <1>2, <1>3, <2>2
  <2> QED BY <2>1, <2>2
<1> HIDE DEF g, fresh
<1>10. \A k \in DOMAIN rotations' : Servers(starts'[rotations'[k]].list) = k
  BY <1>2, <1>3, <1>9
<1>11. DealerKnown(new, starts')
  BY <1>4, <1>7, <1>8, <1>9 DEF DealerKnown
<1>12. ASSUME NEW x \in Request PROVE DealerKnown(req'[x], starts')
  <2>1. CASE x = r
    BY <1>1, <1>2, <1>11, <2>1
  <2>2. CASE x # r
    <3>1. req'[x] = req[x] /\ PoolReqOK(req[x], DOMAIN count, rule, edits) /\ DealerKnown(req[x], starts)
      BY <1>1, <1>2, <2>2
    <3> QED BY <1>9, <3>1 DEF DealerKnown, PoolReqOK
  <2> QED BY <2>1, <2>2
<1> QED BY <1>2, <1>9, <1>10, <1>12 DEF ShareInv

\* One more turn is dealt, to the member whose slot the counter names.
LEMMA ShareRotate ==
    ASSUME WeightsKept, PoolInv, ShareInv, NEW r \in Request, Rotate(r)
    PROVE  ShareInv'
<1> DEFINE q == req[r]
           g == q.counter
           c == count[g]
           i == StartOf(q.list, c)
           e == starts[g]
           d == [e EXCEPT !.dealt = [e.dealt EXCEPT ![i] = e.dealt[i] + 1]]
<1>1. /\ q \in PoolReq /\ q.pc = "rotate" /\ DealerKnown(q, starts) /\ req \in [Request -> PoolReq]
      /\ \A x \in Request : PoolReqOK(req[x], DOMAIN count, rule, edits) /\ DealerKnown(req[x], starts)
  BY DEF PoolInv, PoolHandlers, ShareInv, Rotate
<1>2. /\ \E chain : req' = [req EXCEPT ![r] = [q EXCEPT !.pc = "send", !.i = 1, !.counter = 0, !.chain = chain]]
      /\ rotations' = rotations /\ defined' = defined
      /\ \/ count' = count /\ starts' = starts
         \/ count' = [count EXCEPT ![g] = c + 1] /\ starts' = [starts EXCEPT ![g] = d]
  <2>1. \E chain : req' = [req EXCEPT ![r] = [q EXCEPT !.pc = "send", !.i = 1, !.counter = 0, !.chain = chain]]
    BY DEF Rotate, Step
  <2>2. rotations' = rotations /\ defined' = defined
    BY DEF Rotate
  <2>3. \/ count' = count /\ starts' = starts
        \/ count' = [count EXCEPT ![g] = @ + 1] /\ starts' = [starts EXCEPT ![g].dealt[i] = @ + 1]
    BY DEF Rotate
  <2>4. [count EXCEPT ![g] = @ + 1] = [count EXCEPT ![g] = c + 1]
    OBVIOUS
  <2>5. [starts EXCEPT ![g].dealt[i] = @ + 1] = [starts EXCEPT ![g] = d]
    OBVIOUS
  <2> QED BY <2>1, <2>2, <2>3, <2>4, <2>5
<1>3. PICK chain : req' = [req EXCEPT ![r] = [q EXCEPT !.pc = "send", !.i = 1, !.counter = 0, !.chain = chain]]
  BY <1>2
<1>4. /\ count \in Seq(Nat) /\ starts \in Seq(Dealer) /\ Len(starts) = Len(count)
      /\ \A k \in DOMAIN rotations : rotations[k] \in DOMAIN count /\ Servers(starts[rotations[k]].list) = k
      /\ \A x \in DOMAIN count : DealtOut(starts[x], count[x])
  BY DEF PoolInv, PoolState, ShareInv
<1> DEFINE new == [q EXCEPT !.pc = "send", !.i = 1, !.counter = 0, !.chain = chain]
<1>5. new.pc = "send"
  BY <1>1 DEF PoolReq
<1> HIDE DEF new
<1>6. \A any : DealerKnown(new, any)
  BY <1>5 DEF DealerKnown, Balancing
<1>7. CASE count' = count /\ starts' = starts
  BY <1>2, <1>3, <1>6, <1>7, ShareOneStep DEF new
<1>8. CASE count' = [count EXCEPT ![g] = c + 1] /\ starts' = [starts EXCEPT ![g] = d]
  <2>1. g \in DOMAIN count /\ q.list \in PoolLists /\ Servers(e.list) = Servers(q.list)
    BY <1>1 DEF PoolReqOK, DealerKnown, Balancing
  <2>2. Len(count) \in Nat /\ DOMAIN count = 1 .. Len(count) /\ DOMAIN starts = 1 .. Len(count)
    BY <1>4, Elements
  <2>3. e \in Dealer /\ c \in Nat /\ DealtOut(e, c)
    BY <1>4, <2>1, <2>2, Elements
  <2> HIDE DEF e, c, g, q
  <2>4. e.list = q.list
    BY <2>1, <2>3 DEF Dealer, WeightsKept
  <2>5. d \in Dealer /\ DealtOut(d, c + 1) /\ d.list = e.list
    BY <2>3, <2>4, OneDealt
  <2> HIDE DEF d
  <2>6. /\ count' \in Seq(Nat) /\ Len(count') = Len(count) /\ DOMAIN count' = DOMAIN count
        /\ count'[g] = c + 1 /\ \A x \in DOMAIN count : x # g => count'[x] = count[x]
    BY <1>4, <1>8, <2>1, <2>3
  <2>7. /\ starts' \in Seq(Dealer) /\ Len(starts') = Len(starts)
        /\ starts'[g] = d /\ \A x \in DOMAIN count : x # g => starts'[x] = starts[x]
    BY <1>4, <1>8, <2>1, <2>2, <2>5
  <2>8. \A x \in DOMAIN count : starts'[x].list = starts[x].list /\ DealtOut(starts'[x], count'[x])
    BY <1>4, <2>5, <2>6, <2>7 DEF e
  <2>9. \A k \in DOMAIN rotations' : Servers(starts'[rotations'[k]].list) = k
    BY <1>2, <1>4, <2>8
  <2>10. ASSUME NEW x \in Request PROVE DealerKnown(req'[x], starts')
    <3>1. CASE x = r
      BY <1>1, <1>3, <1>6, <3>1 DEF new
    <3>2. CASE x # r
      <4>1. req'[x] = req[x] /\ PoolReqOK(req[x], DOMAIN count, rule, edits) /\ DealerKnown(req[x], starts)
        BY <1>1, <1>3, <3>2
      <4> QED BY <2>8, <4>1 DEF DealerKnown, PoolReqOK
    <3> QED BY <3>1, <3>2
  <2> QED BY <1>2, <1>4, <2>6, <2>7, <2>8, <2>9, <2>10 DEF ShareInv
<1> QED BY <1>2, <1>7, <1>8

\* Nothing is dealt before the first request.
LEMMA ShareStart ==
    ASSUME PoolInit
    PROVE  ShareInv
<1>1. DealerKnown(Idle, starts)
  BY PoolIdle DEF DealerKnown, Balancing
<1>2. <<>> \in Seq(Dealer) /\ DOMAIN <<>> = {}
  BY EmptySeq
<1> QED BY <1>1, <1>2 DEF PoolInit, ShareInv

\* Every step keeps the shares.
LEMMA ShareStep == WeightsKept /\ PoolInv /\ ShareInv /\ [PoolNext]_poolVars => ShareInv'
<1> SUFFICES ASSUME WeightsKept, PoolInv, ShareInv, [PoolNext]_poolVars PROVE ShareInv'
  OBVIOUS
<1>1. ASSUME NEW r \in Request, Handle(r) PROVE ShareInv'
  BY <1>1, ShareQuietStep, ShareFindCounter, ShareRotate DEF Handle
<1>2. ASSUME NEW v \in RuleVersions, EditRule(v) PROVE ShareInv'
  BY <1>2 DEF EditRule, ShareInv
<1>3. ASSUME NEW s \in PoolServer, DropServer(s) PROVE ShareInv'
  BY <1>3 DEF DropServer, ShareInv
<1>4. ASSUME PoolTick PROVE ShareInv'
  BY <1>4 DEF PoolTick, ShareInv
<1>5. ASSUME UNCHANGED poolVars PROVE ShareInv'
  BY <1>5 DEF poolVars, ShareInv
<1> QED BY <1>1, <1>2, <1>3, <1>4, <1>5 DEF PoolNext

\* While the weights of a pool stay what they were, every rotation counter deals
\* its starts in their proportions, however the requests of pinned and unpinned
\* conversations interleave (balanceRotation, sweepRotations).
THEOREM SharesFair == WeightsKept => (SelectSpec => []FairShare)
<1> SUFFICES ASSUME WeightsKept PROVE SelectSpec => []FairShare
  OBVIOUS
<1>1. SelectInit => ShareInv
  BY ShareStart DEF SelectInit
<1>2. SelectInv /\ ShareInv /\ [SelectNext]_selectVars => ShareInv'
  <2> SUFFICES ASSUME SelectInv, ShareInv, [SelectNext]_selectVars PROVE ShareInv'
    OBVIOUS
  <2>1. PoolInv /\ [PoolNext]_poolVars
    BY DEF SelectInv, SelectNext, selectVars
  <2> QED BY <2>1, ShareStep
<1>3. SelectInv /\ ShareInv => FairShare
  BY ShareInvSays DEF SelectInv
<1> QED BY <1>1, <1>2, <1>3, SelectInvariant, PTL DEF SelectSpec

=============================================================================
