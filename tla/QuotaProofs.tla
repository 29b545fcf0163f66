---------------------------- MODULE QuotaProofs ----------------------------
(***************************************************************************)
(* The quota tracker keeps its promises for every number of servers and    *)
(* requests, every limit, window, budget and report: what it counts is     *)
(* never less than what was spent, what it holds reserved is what the      *)
(* attempts out hold, and the two together stay within the limit.          *)
(***************************************************************************)
EXTENDS QuotaAudit, FoldTheorems

-----------------------------------------------------------------------------
(* The tracker's folds.                                                    *)

Event == [at : Nat, n : Nat]
Stamp == [at : Nat]
Tokens == [e \in Event |-> e.n]
One == [e \in Stamp |-> 1]

\* The entries of a window that are younger than t.
Later(E, t) == {e \in E : e.at > t}

\* Pruning keeps the entries younger than the window.
LEMMA PrunedIs ==
    ASSUME NEW E, NEW w \in Seq(E)
    PROVE  Pruned(w) = Filter(w, E, Later(E, now - QuotaWindow))
<1> DEFINE T == Later(E, now - QuotaWindow)
           step == KeepStep(E, T)
           g == PartsFold(w, Seq(E), <<>>, step)
           c == CHOOSE h : h = [R \in SUBSET DOMAIN w |->
                    IF R = {} THEN <<>>
                    ELSE IF Young(w[Max(R)]) THEN Append(h[R \ {Max(R)}], w[Max(R)]) ELSE h[R \ {Max(R)}]]
<1>1. Pruned(w) = c[DOMAIN w]
  BY Zenon DEF Pruned, FoldLeft, MapThenFoldSet
<1>2. /\ Foldable(w, E, Seq(E), <<>>, step) /\ \A i \in DOMAIN w : w[i] \in E
      /\ \A s \in Seq(E), e \in E : step[<<s, e>>] = IF Young(e) THEN Append(s, e) ELSE s
  <2>1. \A e \in E : e \in T <=> Young(e)
    BY DEF Later, Young
  <2>2. \A s \in Seq(E), e \in E : step[<<s, e>>] = IF e \in T THEN Append(s, e) ELSE s
    BY DEF KeepStep
  <2>3. Foldable(w, E, Seq(E), <<>>, step)
    BY FilterSteps
  <2>4. \A i \in DOMAIN w : w[i] \in E
    BY LenProperties, ElementOfSeq
  <2> HIDE DEF step, T
  <2> QED BY <2>1, <2>2, <2>3, <2>4
<1> HIDE DEF T, step
<1>3. IsLeftFold(g, w, Seq(E), <<>>, step)
  BY <1>2, PartsSolve
<1> HIDE DEF g
<1>4. g = [R \in SUBSET DOMAIN w |->
              IF R = {} THEN <<>>
              ELSE IF Young(w[Max(R)]) THEN Append(g[R \ {Max(R)}], w[Max(R)]) ELSE g[R \ {Max(R)}]]
  <2>1. \A R \in SUBSET DOMAIN w : R # {} => g[R \ {Max(R)}] \in Seq(E) /\ w[Max(R)] \in E
    BY <1>2, <1>3 DEF IsLeftFold
  <2>2. \A R \in SUBSET DOMAIN w :
           R # {} => g[R] = IF Young(w[Max(R)]) THEN Append(g[R \ {Max(R)}], w[Max(R)]) ELSE g[R \ {Max(R)}]
    BY <1>2, <1>3, <2>1 DEF IsLeftFold
  <2> QED BY <1>3, <2>2 DEF IsLeftFold
<1>5. c = [R \in SUBSET DOMAIN w |->
              IF R = {} THEN <<>>
              ELSE IF Young(w[Max(R)]) THEN Append(c[R \ {Max(R)}], w[Max(R)]) ELSE c[R \ {Max(R)}]]
  BY <1>4, Zenon
<1> HIDE DEF c
<1>6. SolvesLeft(c, w, Seq(E), <<>>, step)
  <2>1. \A R \in SUBSET DOMAIN w : R # {} => Max(R) \in DOMAIN w
    BY <1>3 DEF IsLeftFold
  <2>2. c[{}] = <<>>
    BY <1>5
  <2>3. ASSUME NEW R \in SUBSET DOMAIN w, R # {}, c[R \ {Max(R)}] \in Seq(E)
        PROVE  c[R] = step[<<c[R \ {Max(R)}], w[Max(R)]>>]
    BY <1>2, <1>5, <2>1, <2>3
  <2> QED BY <2>2, <2>3 DEF SolvesLeft
<1>7. c[DOMAIN w] = LeftFold(w, Seq(E), <<>>, step)
  BY <1>2, <1>6, LeftFoldIs
<1> QED BY <1>1, <1>7 DEF Filter, step, T

\* What is recent once the clock shows t is what is younger than the window then.
LEMMA RecentIs ==
    ASSUME NEW E, \A e \in E : e.at \in Nat, NEW h, NEW s \in Server, h[s] \in Seq(E), NEW t \in Int
    PROVE  Recent(h, t)[s] = Filter(h[s], E, Later(E, t - QuotaWindow))
<1> DEFINE w == h[s]
           T == Later(E, t - QuotaWindow)
           step == KeepStep(E, T)
           g == PartsFold(w, Seq(E), <<>>, step)
           c == CHOOSE k : k = [R \in SUBSET DOMAIN w |->
                    IF R = {} THEN <<>>
                    ELSE IF t - w[Max(R)].at < QuotaWindow THEN Append(k[R \ {Max(R)}], w[Max(R)]) ELSE k[R \ {Max(R)}]]
<1>1. Recent(h, t)[s] = c[DOMAIN w]
  BY Zenon DEF Recent, FoldLeft, MapThenFoldSet
<1>8. w \in Seq(E)
  OBVIOUS
<1> HIDE DEF w
<1>2. /\ Foldable(w, E, Seq(E), <<>>, step) /\ \A i \in DOMAIN w : w[i] \in E
      /\ \A q \in Seq(E), e \in E : step[<<q, e>>] = IF t - e.at < QuotaWindow THEN Append(q, e) ELSE q
  <2>1. \A e \in E : e \in T <=> t - e.at < QuotaWindow
    BY QuotaAssumption DEF Later
  <2>2. \A q \in Seq(E), e \in E : step[<<q, e>>] = IF e \in T THEN Append(q, e) ELSE q
    BY DEF KeepStep
  <2>3. Foldable(w, E, Seq(E), <<>>, step)
    BY <1>8, FilterSteps
  <2>4. \A i \in DOMAIN w : w[i] \in E
    BY <1>8, LenProperties, ElementOfSeq
  <2> HIDE DEF step, T
  <2> QED BY <2>1, <2>2, <2>3, <2>4
<1> HIDE DEF T, step
<1>3. IsLeftFold(g, w, Seq(E), <<>>, step)
  BY <1>2, PartsSolve
<1> HIDE DEF g
<1>4. g = [R \in SUBSET DOMAIN w |->
              IF R = {} THEN <<>>
              ELSE IF t - w[Max(R)].at < QuotaWindow THEN Append(g[R \ {Max(R)}], w[Max(R)]) ELSE g[R \ {Max(R)}]]
  <2>1. \A R \in SUBSET DOMAIN w : R # {} => g[R \ {Max(R)}] \in Seq(E) /\ w[Max(R)] \in E
    BY <1>2, <1>3 DEF IsLeftFold
  <2>2. \A R \in SUBSET DOMAIN w :
           R # {} => g[R] = IF t - w[Max(R)].at < QuotaWindow THEN Append(g[R \ {Max(R)}], w[Max(R)]) ELSE g[R \ {Max(R)}]
    BY <1>2, <1>3, <2>1 DEF IsLeftFold
  <2> QED BY <1>3, <2>2 DEF IsLeftFold
<1>5. c = [R \in SUBSET DOMAIN w |->
              IF R = {} THEN <<>>
              ELSE IF t - w[Max(R)].at < QuotaWindow THEN Append(c[R \ {Max(R)}], w[Max(R)]) ELSE c[R \ {Max(R)}]]
  BY <1>4, Zenon
<1> HIDE DEF c
<1>6. SolvesLeft(c, w, Seq(E), <<>>, step)
  <2>1. \A R \in SUBSET DOMAIN w : R # {} => Max(R) \in DOMAIN w
    BY <1>3 DEF IsLeftFold
  <2>2. c[{}] = <<>>
    BY <1>5
  <2>3. ASSUME NEW R \in SUBSET DOMAIN w, R # {}, c[R \ {Max(R)}] \in Seq(E)
        PROVE  c[R] = step[<<c[R \ {Max(R)}], w[Max(R)]>>]
    <3>1. Max(R) \in DOMAIN w /\ w[Max(R)] \in E
      BY <1>2, <2>1, <2>3
    <3>2. c[R] = IF t - w[Max(R)].at < QuotaWindow THEN Append(c[R \ {Max(R)}], w[Max(R)]) ELSE c[R \ {Max(R)}]
      BY <1>5, <2>3
    <3> QED BY <1>2, <2>3, <3>1, <3>2, ZenonT(60)
  <2> QED BY <2>2, <2>3 DEF SolvesLeft
<1>7. c[DOMAIN w] = LeftFold(w, Seq(E), <<>>, step)
  BY <1>2, <1>6, LeftFoldIs
<1> QED BY <1>1, <1>7 DEF Filter, step, T, w

\* The total of a window adds up its tokens.
LEMMA TotalIs ==
    ASSUME NEW w \in Seq(Event)
    PROVE  Total(w) = Weight(w, Event, Tokens)
<1> DEFINE step == AddStep(Event, Tokens)
           g == PartsFold(w, Nat, 0, step)
           c == CHOOSE h : h = [R \in SUBSET DOMAIN w |->
                    IF R = {} THEN 0 ELSE h[R \ {Max(R)}] + w[Max(R)].n]
<1>1. Total(w) = c[DOMAIN w]
  BY Zenon DEF Total, FoldLeft, MapThenFoldSet
<1>2. /\ Foldable(w, Event, Nat, 0, step) /\ \A i \in DOMAIN w : w[i] \in Event
      /\ \A n \in Nat, e \in Event : step[<<n, e>>] = n + e.n
  <2>1. Tokens \in [Event -> Nat] /\ \A e \in Event : Tokens[e] = e.n
    BY DEF Tokens, Event
  <2>2. \A n \in Nat, e \in Event : step[<<n, e>>] = n + Tokens[e]
    BY DEF AddStep
  <2>3. Foldable(w, Event, Nat, 0, step)
    BY <2>1, WeightSteps
  <2>4. \A i \in DOMAIN w : w[i] \in Event
    BY LenProperties, ElementOfSeq
  <2> HIDE DEF step
  <2> QED BY <2>1, <2>2, <2>3, <2>4
<1> HIDE DEF step
<1>3. IsLeftFold(g, w, Nat, 0, step)
  BY <1>2, PartsSolve
<1> HIDE DEF g
<1>4. g = [R \in SUBSET DOMAIN w |-> IF R = {} THEN 0 ELSE g[R \ {Max(R)}] + w[Max(R)].n]
  <2>1. \A R \in SUBSET DOMAIN w : R # {} => g[R \ {Max(R)}] \in Nat /\ w[Max(R)] \in Event
    BY <1>2, <1>3 DEF IsLeftFold
  <2>2. \A R \in SUBSET DOMAIN w : R # {} => g[R] = g[R \ {Max(R)}] + w[Max(R)].n
    BY <1>2, <1>3, <2>1 DEF IsLeftFold
  <2> QED BY <1>3, <2>2 DEF IsLeftFold
<1>5. c = [R \in SUBSET DOMAIN w |-> IF R = {} THEN 0 ELSE c[R \ {Max(R)}] + w[Max(R)].n]
  BY <1>4, Zenon
<1> HIDE DEF c
<1>6. SolvesLeft(c, w, Nat, 0, step)
  <2>1. \A R \in SUBSET DOMAIN w : R # {} => Max(R) \in DOMAIN w
    BY <1>3 DEF IsLeftFold
  <2>2. c[{}] = 0
    BY <1>5
  <2>3. ASSUME NEW R \in SUBSET DOMAIN w, R # {}, c[R \ {Max(R)}] \in Nat
        PROVE  c[R] = step[<<c[R \ {Max(R)}], w[Max(R)]>>]
    BY <1>2, <1>5, <2>1, <2>3
  <2> QED BY <2>2, <2>3 DEF SolvesLeft
<1>7. c[DOMAIN w] = LeftFold(w, Nat, 0, step)
  BY <1>2, <1>6, LeftFoldIs
<1> QED BY <1>1, <1>7 DEF Weight, step

\* What the attempts out on s reserved, one by one.
Holding(s) == [r \in Request |-> IF call[r].srv = s THEN backed[r] ELSE 0]

\* The sum ReservedExact speaks of.
LEMMA HeldIs ==
    ASSUME IsFiniteSet(Request), NEW s, Holding(s) \in [Request -> Int]
    PROVE  MapThenSumSet(LAMBDA r : IF call[r].srv = s THEN backed[r] ELSE 0, Request) = SumOver(Request, Holding(s))
<1> DEFINE f == Holding(s)
           g == PartsSum(Request, f)
           c == CHOOSE h : h = [R \in SUBSET Request |->
                    IF R = {} THEN 0
                    ELSE (IF call[CHOOSE x \in R : TRUE].srv = s THEN backed[CHOOSE x \in R : TRUE] ELSE 0)
                         + h[R \ {CHOOSE x \in R : TRUE}]]
<1>1. MapThenSumSet(LAMBDA r : IF call[r].srv = s THEN backed[r] ELSE 0, Request) = c[Request]
  BY Zenon DEF MapThenSumSet, MapThenFoldSet
<1>2. \A x \in Request : f[x] = IF call[x].srv = s THEN backed[x] ELSE 0
  BY DEF Holding
<1>8. f \in [Request -> Int]
  OBVIOUS
<1> HIDE DEF f
<1>3. IsSum(g, Request, f)
  BY <1>8, PartsSummed
<1> HIDE DEF g
<1>4. g = [R \in SUBSET Request |->
              IF R = {} THEN 0
              ELSE (IF call[CHOOSE x \in R : TRUE].srv = s THEN backed[CHOOSE x \in R : TRUE] ELSE 0)
                   + g[R \ {CHOOSE x \in R : TRUE}]]
  <2>1. ASSUME NEW R \in SUBSET Request, R # {}
        PROVE  g[R] = (IF call[CHOOSE x \in R : TRUE].srv = s THEN backed[CHOOSE x \in R : TRUE] ELSE 0)
                      + g[R \ {CHOOSE x \in R : TRUE}]
    <3> DEFINE x == CHOOSE x \in R : TRUE
    <3>1. x \in R /\ g[R] = f[x] + g[R \ {x}]
      BY <1>3, <2>1 DEF IsSum
    <3> HIDE DEF x
    <3>2. g[R] = (IF call[x].srv = s THEN backed[x] ELSE 0) + g[R \ {x}]
      BY <1>2, <3>1
    <3> QED BY <3>2 DEF x
  <2> QED BY <1>3, <2>1 DEF IsSum
<1>5. c = [R \in SUBSET Request |->
              IF R = {} THEN 0
              ELSE (IF call[CHOOSE x \in R : TRUE].srv = s THEN backed[CHOOSE x \in R : TRUE] ELSE 0)
                   + c[R \ {CHOOSE x \in R : TRUE}]]
  BY <1>4, Zenon
<1> HIDE DEF c
<1>6. ASSUME NEW R \in SUBSET Request, R # {} PROVE c[R] = f[CHOOSE x \in R : TRUE] + c[R \ {CHOOSE x \in R : TRUE}]
  <2> DEFINE x == CHOOSE x \in R : TRUE
  <2>1. x \in R
    BY <1>6
  <2>2. c[R] = (IF call[x].srv = s THEN backed[x] ELSE 0) + c[R \ {x}]
    BY <1>5, <1>6
  <2> HIDE DEF x
  <2>3. c[R] = f[x] + c[R \ {x}]
    BY <1>2, <2>1, <2>2
  <2> QED BY <2>3 DEF x
<1>7. c[Request] = SumOver(Request, f)
  <2>1. c[{}] = 0
    BY <1>5
  <2> QED BY <1>6, <1>8, <2>1, SumIs
<1> QED BY <1>1, <1>7 DEF f

-----------------------------------------------------------------------------
(* A window that counts at least what another holds.                       *)

\* Weights of entries with a time.
Timed(E, f) == f \in [E -> Nat] /\ \A e \in E : e.at \in Nat

WeightAfter(w, E, f, t) == Weight(Filter(w, E, Later(E, t)), E, f)

\* Whatever the clock will show, u weighs at least what w weighs, and w has only
\* entries that are younger than `from'.
Covers(u, w, E, f, from) ==
    /\ u \in Seq(E) /\ w \in Seq(Later(E, from))
    /\ \A t \in Int : t >= from => WeightAfter(u, E, f, t) >= WeightAfter(w, E, f, t)

\* What an entry adds.
LEMMA AfterAppend ==
    ASSUME NEW E, NEW f, Timed(E, f), NEW w \in Seq(E), NEW e \in E, NEW t \in Int
    PROVE  /\ WeightAfter(w, E, f, t) \in Nat
           /\ WeightAfter(Append(w, e), E, f, t) = WeightAfter(w, E, f, t) + IF e.at > t THEN f[e] ELSE 0
<1> DEFINE k == Filter(w, E, Later(E, t))
<1>1. k \in Seq(E) /\ Filter(Append(w, e), E, Later(E, t)) = IF e \in Later(E, t) THEN Append(k, e) ELSE k
  BY FilterSteps
<1>2. e \in Later(E, t) <=> e.at > t
  BY DEF Later
<1> HIDE DEF k
<1>3. Weight(k, E, f) \in Nat /\ Weight(Append(k, e), E, f) = Weight(k, E, f) + f[e]
  BY <1>1, WeightSteps DEF Timed
<1>4. CASE e.at > t
  BY <1>1, <1>2, <1>3, <1>4 DEF WeightAfter, k
<1>5. CASE ~(e.at > t)
  BY <1>1, <1>2, <1>3, <1>5 DEF WeightAfter, k
<1> QED BY <1>4, <1>5

\* Younger entries are entries.
LEMMA LaterSeq ==
    ASSUME NEW E, NEW t, NEW w \in Seq(Later(E, t))
    PROVE  w \in Seq(E)
<1>1. Later(E, t) \subseteq E
  BY DEF Later
<1> QED BY <1>1, SeqMonotonic

\* Both windows get the same entry.
LEMMA CoverAppend ==
    ASSUME NEW E, NEW f, Timed(E, f), NEW from \in Int, NEW u, NEW w, Covers(u, w, E, f, from),
           NEW e \in Later(E, from)
    PROVE  Covers(Append(u, e), Append(w, e), E, f, from)
<1>1. u \in Seq(E) /\ w \in Seq(Later(E, from)) /\ w \in Seq(E) /\ e \in E
  BY LaterSeq DEF Covers, Later
<1>2. Append(u, e) \in Seq(E) /\ Append(w, e) \in Seq(Later(E, from))
  BY <1>1, AppendProperties
<1>3. ASSUME NEW t \in Int, t >= from
      PROVE  WeightAfter(Append(u, e), E, f, t) >= WeightAfter(Append(w, e), E, f, t)
  <2>1. /\ WeightAfter(u, E, f, t) \in Nat /\ WeightAfter(w, E, f, t) \in Nat
        /\ WeightAfter(Append(u, e), E, f, t) = WeightAfter(u, E, f, t) + IF e.at > t THEN f[e] ELSE 0
        /\ WeightAfter(Append(w, e), E, f, t) = WeightAfter(w, E, f, t) + IF e.at > t THEN f[e] ELSE 0
    BY <1>1, AfterAppend
  <2>2. f[e] \in Nat
    BY <1>1 DEF Timed
  <2>3. WeightAfter(u, E, f, t) >= WeightAfter(w, E, f, t)
    BY <1>3 DEF Covers
  <2> QED BY <2>1, <2>2, <2>3
<1> QED BY <1>2, <1>3 DEF Covers

\* Pruning loses nothing that is still inside the window.
LEMMA AfterPruned ==
    ASSUME NEW E, NEW f, Timed(E, f), NEW from \in Int, NEW w \in Seq(E), NEW t \in Int, t >= from
    PROVE  /\ Filter(w, E, Later(E, from)) \in Seq(E)
           /\ WeightAfter(Filter(w, E, Later(E, from)), E, f, t) = WeightAfter(w, E, f, t)
<1>1. Later(E, t) \in SUBSET Later(E, from)
  BY DEF Later, Timed
<1>2. Filter(Filter(w, E, Later(E, from)), E, Later(E, t)) = Filter(w, E, Later(E, t))
  BY <1>1, FilterTwice
<1>3. Filter(w, E, Later(E, from)) \in Seq(E)
  BY FilterSteps
<1> QED BY <1>2, <1>3 DEF WeightAfter

\* Pruning keeps a window covering, even in place, where the tail stays.
LEMMA CoverPruned ==
    ASSUME NEW E, NEW f, Timed(E, f), NEW from \in Int, NEW u, NEW w, Covers(u, w, E, f, from),
           NEW v \in Seq(E)
    PROVE  /\ Covers(Filter(u, E, Later(E, from)), w, E, f, from)
           /\ Covers(Filter(u, E, Later(E, from)) \o v, w, E, f, from)
<1> DEFINE k == Filter(u, E, Later(E, from))
<1>1. u \in Seq(E) /\ w \in Seq(Later(E, from))
  BY DEF Covers
<1>2. k \in Seq(E) /\ \A t \in Int : t >= from => WeightAfter(k, E, f, t) = WeightAfter(u, E, f, t)
  <2>1. k \in Seq(E)
    BY <1>1, FilterSteps
  <2> QED BY <1>1, <2>1, AfterPruned
<1> HIDE DEF k
<1>3. Covers(k, w, E, f, from)
  BY <1>1, <1>2 DEF Covers
<1>4. ASSUME NEW t \in Int, t >= from
      PROVE  WeightAfter(k \o v, E, f, t) >= WeightAfter(w, E, f, t)
  <2> DEFINE a == Filter(k, E, Later(E, t))
             b == Filter(v, E, Later(E, t))
  <2>1. a \in Seq(E) /\ b \in Seq(E)
    BY <1>2, FilterSteps
  <2>2. Filter(k \o v, E, Later(E, t)) = a \o b
    BY <1>2, FilterConcat
  <2> HIDE DEF a, b
  <2>3. Weight(a \o b, E, f) = Weight(a, E, f) + Weight(b, E, f) /\ Weight(a, E, f) \in Nat /\ Weight(b, E, f) \in Nat
    BY <2>1, WeightConcat, WeightSteps DEF Timed
  <2>4. Weight(a, E, f) >= WeightAfter(w, E, f, t)
    BY <1>3, <1>4 DEF Covers, WeightAfter, a
  <2>5. WeightAfter(w, E, f, t) \in Nat
    <3>1. w \in Seq(E)
      BY <1>1, LaterSeq
    <3>2. Filter(w, E, Later(E, t)) \in Seq(E)
      BY <3>1, FilterSteps
    <3> QED BY <3>2, WeightSteps DEF WeightAfter, Timed
  <2> QED BY <2>2, <2>3, <2>4, <2>5 DEF WeightAfter
<1>5. k \o v \in Seq(E)
  BY <1>2, ConcatProperties
<1>6. Covers(k \o v, w, E, f, from)
  BY <1>1, <1>4, <1>5 DEF Covers
<1> QED BY <1>3, <1>6 DEF k

\* Time passes: what has become too old is dropped from w.
LEMMA CoverTick ==
    ASSUME NEW E, NEW f, Timed(E, f), NEW from \in Int, NEW to \in Int, to >= from,
           NEW u, NEW w, Covers(u, w, E, f, from)
    PROVE  Covers(u, Filter(w, E, Later(E, to)), E, f, to)
<1>1. u \in Seq(E) /\ w \in Seq(E)
  BY LaterSeq DEF Covers
<1>2. Filter(w, E, Later(E, to)) \in Seq(Later(E, to))
  <2>1. E \cap Later(E, to) = Later(E, to)
    BY DEF Later
  <2> QED BY <1>1, <2>1, FilterIn
<1>3. ASSUME NEW t \in Int, t >= to
      PROVE  WeightAfter(u, E, f, t) >= WeightAfter(Filter(w, E, Later(E, to)), E, f, t)
  <2>1. WeightAfter(Filter(w, E, Later(E, to)), E, f, t) = WeightAfter(w, E, f, t)
    BY <1>1, <1>3, AfterPruned
  <2>2. t >= from
    BY <1>3
  <2> QED BY <2>1, <2>2 DEF Covers
<1> QED BY <1>1, <1>2, <1>3 DEF Covers

\* What is inside the window weighs at least as much as what is covered.
LEMMA CoverTotal ==
    ASSUME NEW E, NEW f, Timed(E, f), NEW from \in Int, NEW u, NEW w, Covers(u, w, E, f, from)
    PROVE  Weight(Filter(u, E, Later(E, from)), E, f) >= Weight(w, E, f)
<1>1. E \cap Later(E, from) = Later(E, from)
  BY DEF Later
<1>2. Filter(w, E, Later(E, from)) = w
  BY <1>1, FilterAll DEF Covers
<1>3. from >= from
  OBVIOUS
<1> QED BY <1>2, <1>3 DEF Covers, WeightAfter

-----------------------------------------------------------------------------
(* The windows.                                                            *)

Out == {"sent", "counted"}

\* The parts of the state that are no windows.
Shape ==
    /\ now \in Nat /\ reserved \in [Server -> Nat] /\ tpm \in [Server -> TPMs] /\ rpm \in [Server -> RPMs]
    /\ call \in [Request -> Call] /\ backed \in [Request -> Nat]
    /\ \A r \in Request : /\ call[r].st # "idle" => call[r].srv \in Server
                          /\ call[r].st \notin Out => call[r].held = 0 /\ backed[r] = 0

\* The tracker's windows and the ones of the audit.
Windows ==
    /\ tokens \in [Server -> Seq(Event)] /\ requests \in [Server -> Seq(Stamp)]
    /\ spent \in [Server -> Seq(Event)] /\ served \in [Server -> Seq(Stamp)]
    /\ \A s \in Server : /\ Covers(tokens[s], spent[s], Event, Tokens, now - QuotaWindow)
                         /\ Covers(requests[s], served[s], Stamp, One, now - QuotaWindow)

QuotaInv == Shape /\ Windows

\* Tokens and requests are entries with a time.
LEMMA AreTimed == Timed(Event, Tokens) /\ Timed(Stamp, One)
BY DEF Timed, Event, Tokens, Stamp, One

\* A window pruned, stored or not, still covers.
LEMMA PrunedCovers ==
    ASSUME now \in Nat, NEW E, NEW f, Timed(E, f), NEW u, NEW w, Covers(u, w, E, f, now - QuotaWindow)
    PROVE  /\ Covers(Pruned(u), w, E, f, now - QuotaWindow)
           /\ Covers(PrunedUnder(u), w, E, f, now - QuotaWindow)
           /\ Weight(Pruned(u), E, f) >= Weight(w, E, f)
           /\ Pruned(u) \in Seq(E)
<1> DEFINE from == now - QuotaWindow
           k == Filter(u, E, Later(E, from))
<1>1. from \in Int /\ u \in Seq(E)
  BY QuotaAssumption DEF Covers
<1>2. Pruned(u) = k
  BY <1>1, PrunedIs
<1> DEFINE v == SubSeq(u, Len(Pruned(u)) + 1, Len(u))
<1>3. k \in Seq(E)
  BY <1>1, FilterSteps
<1>4. v \in Seq(E)
  <2>1. Len(Pruned(u)) \in Nat /\ Len(u) \in Nat /\ \A i \in 1 .. Len(u) : u[i] \in E
    BY <1>1, <1>2, <1>3, LenProperties, ElementOfSeq
  <2>2. \A i \in Len(Pruned(u)) + 1 .. Len(u) : u[i] \in E
    BY <2>1
  <2> QED BY <2>1, <2>2, SubSeqProperties
<1> HIDE DEF from, k, v
<1>5. Covers(u, w, E, f, from)
  BY DEF from
<1>6. Covers(k, w, E, f, from) /\ Covers(k \o v, w, E, f, from)
  BY <1>1, <1>4, <1>5, CoverPruned DEF k
<1>7. Weight(k, E, f) >= Weight(w, E, f)
  BY <1>1, <1>5, CoverTotal DEF k
<1>8. PrunedUnder(u) = k \o v
  BY <1>2 DEF PrunedUnder, v
<1> QED BY <1>2, <1>3, <1>6, <1>7, <1>8 DEF from

\* A step that only looks at the windows, pruning them or not.
LEMMA WindowsRead ==
    ASSUME QuotaInv, UNCHANGED <<now, spent, served>>,
           tokens' = [s \in Server |-> tokens'[s]], requests' = [s \in Server |-> requests'[s]],
           \A s \in Server : /\ tokens'[s] \in {tokens[s], Pruned(tokens[s]), PrunedUnder(tokens[s])}
                            /\ requests'[s] \in {requests[s], Pruned(requests[s]), PrunedUnder(requests[s])}
    PROVE  Windows'
<1>1. ASSUME NEW s \in Server
      PROVE  /\ Covers(tokens'[s], spent[s], Event, Tokens, now - QuotaWindow)
             /\ Covers(requests'[s], served[s], Stamp, One, now - QuotaWindow)
  <2>1. now \in Nat /\ Covers(tokens[s], spent[s], Event, Tokens, now - QuotaWindow)
        /\ Covers(requests[s], served[s], Stamp, One, now - QuotaWindow)
    BY DEF QuotaInv, Shape, Windows
  <2>2. /\ Covers(Pruned(tokens[s]), spent[s], Event, Tokens, now - QuotaWindow)
        /\ Covers(PrunedUnder(tokens[s]), spent[s], Event, Tokens, now - QuotaWindow)
    BY <2>1, AreTimed, PrunedCovers
  <2>3. /\ Covers(Pruned(requests[s]), served[s], Stamp, One, now - QuotaWindow)
        /\ Covers(PrunedUnder(requests[s]), served[s], Stamp, One, now - QuotaWindow)
    BY <2>1, AreTimed, PrunedCovers
  <2>4. /\ tokens'[s] \in {tokens[s], Pruned(tokens[s]), PrunedUnder(tokens[s])}
        /\ requests'[s] \in {requests[s], Pruned(requests[s]), PrunedUnder(requests[s])}
    OBVIOUS
  <2> QED BY <2>1, <2>2, <2>3, <2>4
<1>2. \A s \in Server : tokens'[s] \in Seq(Event) /\ requests'[s] \in Seq(Stamp)
  BY <1>1 DEF Covers
<1>3. tokens' \in [Server -> Seq(Event)] /\ requests' \in [Server -> Seq(Stamp)]
  BY <1>2
<1> QED BY <1>1, <1>3 DEF QuotaInv, Windows

\* The attempt of r becomes c, and what Reserve added for it b.
LEMMA ShapeMoves ==
    ASSUME Shape, NEW r \in Request, NEW c \in Call, NEW b \in Nat,
           call' = [call EXCEPT ![r] = c], backed' = [backed EXCEPT ![r] = b],
           c.st # "idle" => c.srv \in Server, c.st \notin Out => c.held = 0 /\ b = 0,
           now' \in Nat, reserved' \in [Server -> Nat], tpm' \in [Server -> TPMs], rpm' \in [Server -> RPMs]
    PROVE  Shape'
<1>1. call' \in [Request -> Call] /\ backed' \in [Request -> Nat] /\ call'[r] = c /\ backed'[r] = b
  BY DEF Shape
<1>2. \A q \in Request : q # r => call'[q] = call[q] /\ backed'[q] = backed[q]
  BY DEF Shape
<1> QED BY <1>1, <1>2 DEF Shape

\* An idle attempt is well-formed, and a step of one attempt leaves its call in place.
LEMMA IdleCall == Idle \in Call /\ Idle.st = "idle" /\ Idle.held = 0
BY DEF Idle, Call

\* Asking Allow prunes the windows it looked at.
LEMMA AllowStep ==
    ASSUME QuotaInv, NEW r \in Request, NEW s \in Server, NEW last \in BOOLEAN, AuditAllow(r, s, last)
    PROVE  QuotaInv'
<1> DEFINE c == [Idle EXCEPT !.srv = s, !.last = last, !.st = IF Allowed(s) \/ last THEN "allowed" ELSE "blocked"]
<1>1. /\ call[r].st = "idle" /\ call' = [call EXCEPT ![r] = c]
      /\ UNCHANGED <<now, reserved, tpm, rpm, spent, served, backed>>
      /\ requests' = [requests EXCEPT ![s] = IF rpm[s] > 0 THEN Pruned(@) ELSE @]
      /\ tokens' = [tokens EXCEPT ![s] = IF tpm[s] > 0 /\ ~RPMFull(s) THEN Pruned(@) ELSE @]
  BY DEF AuditAllow, AskAllow, Allow
<1>2. c \in Call /\ c.srv \in Server /\ c.held = 0 /\ c.st \notin Out
  BY DEF Idle, Call, Out
<1> HIDE DEF c
<1>3. backed' = [backed EXCEPT ![r] = 0] /\ 0 \in Nat
  BY <1>1 DEF QuotaInv, Shape, Out
<1>4. Shape'
  BY <1>1, <1>2, <1>3, ShapeMoves DEF QuotaInv, Shape
<1>5. Windows'
  <2>1. tokens \in [Server -> Seq(Event)] /\ requests \in [Server -> Seq(Stamp)]
    BY DEF QuotaInv, Windows
  <2>2. /\ tokens' = [q \in Server |-> tokens'[q]] /\ requests' = [q \in Server |-> requests'[q]]
        /\ \A q \in Server : tokens'[q] \in {tokens[q], Pruned(tokens[q])} /\ requests'[q] \in {requests[q], Pruned(requests[q])}
    BY <1>1, <2>1
  <2> QED BY <1>1, <2>2, WindowsRead
<1> QED BY <1>4, <1>5 DEF QuotaInv

\* Logging and refusing end the attempt; Usage prunes without storing.
LEMMA EndStep ==
    ASSUME QuotaInv, NEW r \in Request, LogUsage(r) \/ Refuse(r), UNCHANGED history
    PROVE  QuotaInv'
<1>1. /\ call[r].st \notin Out /\ call[r].st # "idle" /\ call' = [call EXCEPT ![r] = Idle]
      /\ UNCHANGED <<now, reserved, tpm, rpm, spent, served, backed>>
  BY DEF LogUsage, Refuse, Usage, quotaVars, history, Out
<1>2. backed' = [backed EXCEPT ![r] = 0] /\ 0 \in Nat
  BY <1>1 DEF QuotaInv, Shape
<1>3. Shape'
  BY <1>1, <1>2, IdleCall, ShapeMoves DEF QuotaInv, Shape
<1>4. Windows'
  <2>1. /\ tokens \in [Server -> Seq(Event)] /\ requests \in [Server -> Seq(Stamp)] /\ call[r].srv \in Server
    BY <1>1 DEF QuotaInv, Windows, Shape
  <2>2. /\ tokens' = [q \in Server |-> tokens'[q]] /\ requests' = [q \in Server |-> requests'[q]]
        /\ \A q \in Server : /\ tokens'[q] \in {tokens[q], PrunedUnder(tokens[q])}
                             /\ requests'[q] \in {requests[q], PrunedUnder(requests[q])}
    BY <2>1 DEF LogUsage, Refuse, Usage, quotaVars
  <2> QED BY <1>1, <2>2, WindowsRead
<1> QED BY <1>3, <1>4 DEF QuotaInv

\* The server is asked to hold the estimate, and does.
Holds(s, e) == Admits(s, e) /\ e # 0 /\ tpm[s] # 0

Reserving(r, e, s, b) ==
    /\ s \in Server /\ call[r].st = "allowed" /\ e \in Nat /\ b \in Nat
    /\ UNCHANGED <<now, requests, tpm, rpm, spent, served>>
    /\ reserved' = [reserved EXCEPT ![s] = @ + b]
    /\ backed' = [backed EXCEPT ![r] = b]
    /\ tokens' \in {tokens, [tokens EXCEPT ![s] = Pruned(@)]}
    /\ call' = [call EXCEPT ![r] = IF Admits(s, e)
                                   THEN [call[r] EXCEPT !.st = "sent", !.budget = e, !.held = e]
                                   ELSE IF call[r].last THEN [call[r] EXCEPT !.st = "sent", !.budget = e]
                                   ELSE Idle]

\* What Reserve and the attempt that asks it agree on.
LEMMA Reserves ==
    ASSUME QuotaInv, NEW r \in Request, NEW e \in Estimates, AuditSend(r, e)
    PROVE  Reserving(r, e, call[r].srv, IF Holds(call[r].srv, e) THEN e ELSE 0)
<1> DEFINE s == call[r].srv
           held == Holds(s, e)
           b == IF held THEN e ELSE 0
<1>1. /\ call[r].st = "allowed" /\ s \in Server /\ e \in Nat /\ reserved \in [Server -> Nat]
      /\ UNCHANGED <<now, requests, tpm, rpm, spent, served>> /\ Reserve(s, e)
      /\ backed' = [backed EXCEPT ![r] = reserved'[s] - reserved[s]]
      /\ call' = [call EXCEPT ![r] = IF Admits(s, e)
                                     THEN [call[r] EXCEPT !.st = "sent", !.budget = e, !.held = e]
                                     ELSE IF call[r].last THEN [call[r] EXCEPT !.st = "sent", !.budget = e]
                                     ELSE Idle]
  BY QuotaUseAssumption DEF AuditSend, Send, Reserve, QuotaInv, Shape
<1> HIDE DEF s
<1>2. CASE e = 0 \/ tpm[s] = 0
  <2>1. reserved' = reserved /\ tokens' = tokens /\ b = 0
    BY <1>1, <1>2 DEF Reserve, Holds
  <2> HIDE DEF b
  <2>2. reserved[s] + b = reserved[s] /\ reserved'[s] - reserved[s] = b /\ b \in Nat
    BY <1>1, <2>1
  <2>3. reserved' = [reserved EXCEPT ![s] = reserved[s] + b]
    <3>1. [reserved EXCEPT ![s] = reserved[s]] = reserved
      BY <1>1
    <3> QED BY <2>1, <2>2, <3>1
  <2>4. backed' = [backed EXCEPT ![r] = b]
    BY <1>1, <2>2
  <2>5. Reserving(r, e, s, b)
    BY <1>1, <2>1, <2>2, <2>3, <2>4 DEF Reserving
  <2> QED BY <2>5 DEF s, b
<1>3. CASE ~(e = 0 \/ tpm[s] = 0)
  <2>1. /\ tokens' = [tokens EXCEPT ![s] = Pruned(@)] /\ (held <=> Admits(s, e))
        /\ reserved' = [reserved EXCEPT ![s] = IF Admits(s, e) THEN @ + e ELSE @]
    BY <1>1, <1>3 DEF Reserve, Holds
  <2>2. b \in Nat /\ reserved'[s] = reserved[s] + b /\ reserved[s] + b = IF Admits(s, e) THEN reserved[s] + e ELSE reserved[s]
    BY <1>1, <2>1
  <2> HIDE DEF b
  <2>6. reserved' = [reserved EXCEPT ![s] = IF Admits(s, e) THEN reserved[s] + e ELSE reserved[s]]
    BY <2>1
  <2>7. reserved' = [reserved EXCEPT ![s] = reserved[s] + b]
    BY <2>2, <2>6, Zenon
  <2>8. reserved[s] \in Nat
    BY <1>1
  <2>3. reserved'[s] - reserved[s] = b
    BY <2>2, <2>8
  <2>4. backed' = [backed EXCEPT ![r] = b]
    BY <1>1, <2>3
  <2>5. Reserving(r, e, s, b)
    BY <1>1, <2>1, <2>2, <2>4, <2>7 DEF Reserving
  <2> QED BY <2>5 DEF s, b
<1> QED BY <1>2, <1>3

\* Reserving keeps the state well-formed and the windows covered.
LEMMA SendStep ==
    ASSUME QuotaInv, NEW r \in Request, NEW e \in Estimates, AuditSend(r, e)
    PROVE  QuotaInv'
<1> DEFINE s == call[r].srv
           b == IF Holds(s, e) THEN e ELSE 0
           c == IF Admits(s, e) THEN [call[r] EXCEPT !.st = "sent", !.budget = e, !.held = e]
                ELSE IF call[r].last THEN [call[r] EXCEPT !.st = "sent", !.budget = e] ELSE Idle
<1>1. Reserving(r, e, s, b)
  BY Reserves
<1>2. Holds(s, e) => Admits(s, e)
  BY DEF Holds
<1>3. ~Admits(s, e) => b = 0
  BY <1>2
<1>4. call[r] \in Call /\ e \in Nat /\ s \in Server /\ call[r].srv = s
  BY <1>1 DEF QuotaInv, Shape, Reserving
<1>5. /\ c \in Call /\ (c.st # "idle" => c.srv = s) /\ (c.st \notin Out => c.st = "idle" /\ ~Admits(s, e) /\ c.held = 0)
  BY <1>4, IdleCall DEF Call, Out
<1>6. call' = [call EXCEPT ![r] = c]
  BY <1>1 DEF Reserving
<1> HIDE DEF c, b, s
<1>7. reserved' \in [Server -> Nat] /\ UNCHANGED <<now, tpm, rpm>> /\ b \in Nat /\ backed' = [backed EXCEPT ![r] = b]
  BY <1>1 DEF Reserving, QuotaInv, Shape
<1>8. c.st # "idle" => c.srv \in Server
  BY <1>4, <1>5
<1>9. c.st \notin Out => c.held = 0 /\ b = 0
  BY <1>3, <1>5
<1>10. Shape
  BY DEF QuotaInv
<1>11. now' \in Nat /\ tpm' \in [Server -> TPMs] /\ rpm' \in [Server -> RPMs]
  BY <1>7, <1>10 DEF Shape
<1>12. Shape'
  BY <1>5, <1>6, <1>7, <1>8, <1>9, <1>10, <1>11, ShapeMoves
<1>13. Windows'
  <2>1. tokens \in [Server -> Seq(Event)] /\ requests \in [Server -> Seq(Stamp)]
    BY DEF QuotaInv, Windows
  <2>2. /\ tokens' = [q \in Server |-> tokens'[q]] /\ requests' = [q \in Server |-> requests'[q]]
        /\ \A q \in Server : tokens'[q] \in {tokens[q], Pruned(tokens[q])} /\ requests'[q] = requests[q]
    BY <1>1, <2>1 DEF Reserving
  <2>3. UNCHANGED <<now, spent, served>>
    BY <1>1 DEF Reserving
  <2> QED BY <2>2, <2>3, WindowsRead
<1> QED BY <1>12, <1>13 DEF QuotaInv

\* A served attempt is counted by both.
LEMMA CountStep ==
    ASSUME QuotaInv, NEW r \in Request, AuditCount(r)
    PROVE  QuotaInv'
<1> DEFINE s == call[r].srv
           e == [at |-> now]
           c == [call[r] EXCEPT !.st = "counted"]
           from == now - QuotaWindow
<1>1. /\ call[r].st = "sent" /\ call' = [call EXCEPT ![r].st = "counted"]
      /\ UNCHANGED <<now, tokens, reserved, tpm, rpm, spent, backed>>
      /\ requests' = [requests EXCEPT ![s] = Append(Pruned(@), e)]
      /\ served' = [served EXCEPT ![s] = Append(@, e)]
  BY DEF AuditCount, Count, RecordRequest
<1>2. call[r] \in Call /\ s \in Server /\ backed[r] \in Nat /\ now \in Nat
  BY <1>1 DEF QuotaInv, Shape
<1>3. c \in Call /\ c.srv = s /\ c.st = "counted"
  BY <1>2 DEF Call
<1>4. call' = [call EXCEPT ![r] = c] /\ backed' = [backed EXCEPT ![r] = backed[r]]
  BY <1>1 DEF QuotaInv, Shape
<1>5. e \in Later(Stamp, from) /\ from \in Int
  BY <1>2, QuotaAssumption DEF Later, Stamp
<1> HIDE DEF c, s, e, from
<1>6. Shape /\ now' \in Nat /\ reserved' \in [Server -> Nat] /\ tpm' \in [Server -> TPMs] /\ rpm' \in [Server -> RPMs]
  BY <1>1 DEF QuotaInv, Shape
<1>7. c.st \in Out
  BY <1>3 DEF Out
<1>8. Shape'
  BY <1>2, <1>3, <1>4, <1>6, <1>7, ShapeMoves
<1>9. Covers(Append(Pruned(requests[s]), e), Append(served[s], e), Stamp, One, from)
  <2>1. Covers(requests[s], served[s], Stamp, One, now - QuotaWindow)
    BY <1>2 DEF QuotaInv, Windows
  <2>2. Covers(Pruned(requests[s]), served[s], Stamp, One, from)
    BY <1>2, <2>1, AreTimed, PrunedCovers DEF from
  <2> QED BY <1>5, <2>2, AreTimed, CoverAppend
<1>10. requests \in [Server -> Seq(Stamp)] /\ served \in [Server -> Seq(Stamp)]
  BY DEF QuotaInv, Windows
<1>11. Append(Pruned(requests[s]), e) \in Seq(Stamp) /\ Append(served[s], e) \in Seq(Stamp)
  BY <1>9, LaterSeq DEF Covers
<1>12. /\ requests' \in [Server -> Seq(Stamp)] /\ served' \in [Server -> Seq(Stamp)]
       /\ requests'[s] = Append(Pruned(requests[s]), e) /\ served'[s] = Append(served[s], e)
       /\ \A q \in Server : q # s => requests'[q] = requests[q] /\ served'[q] = served[q]
  BY <1>1, <1>2, <1>10, <1>11
<1>13. \A q \in Server : Covers(requests'[q], served'[q], Stamp, One, now - QuotaWindow)
  BY <1>9, <1>12 DEF QuotaInv, Windows, from
<1>14. Windows'
  BY <1>1, <1>12, <1>13 DEF QuotaInv, Windows
<1> QED BY <1>8, <1>14 DEF QuotaInv

\* Completing counts what was used in both.
LEMMA FinishStep ==
    ASSUME QuotaInv, NEW r \in Request, NEW a \in Nat, AuditFinish(r, a)
    PROVE  QuotaInv'
<1> DEFINE s == call[r].srv
           h == call[r].held
           e == [at |-> now, n |-> a]
           from == now - QuotaWindow
<1>1. /\ call[r].st \in Out /\ call' = [call EXCEPT ![r] = Idle] /\ backed' = [backed EXCEPT ![r] = 0]
      /\ UNCHANGED <<now, requests, tpm, rpm, served>>
      /\ reserved' = [reserved EXCEPT ![s] = IF @ < h THEN 0 ELSE @ - h]
      /\ tokens' = [tokens EXCEPT ![s] = IF a > 0 THEN Append(Pruned(@), e) ELSE @]
      /\ spent' = [spent EXCEPT ![s] = IF a > 0 THEN Append(@, e) ELSE @]
  BY DEF AuditFinish, Finish, Complete, Out
<1>2. call[r] \in Call /\ s \in Server /\ h \in Nat /\ now \in Nat /\ reserved \in [Server -> Nat]
  BY <1>1 DEF QuotaInv, Shape, Out, Call
<1>3. e \in Later(Event, from) /\ from \in Int
  BY <1>2, QuotaAssumption DEF Later, Event
<1> HIDE DEF s, h, e, from
<1>4. reserved' \in [Server -> Nat]
  <2>1. (IF reserved[s] < h THEN 0 ELSE reserved[s] - h) \in Nat
    BY <1>2
  <2> QED BY <1>1, <1>2, <2>1
<1>5. Shape /\ now' \in Nat /\ tpm' \in [Server -> TPMs] /\ rpm' \in [Server -> RPMs] /\ 0 \in Nat
  BY <1>1 DEF QuotaInv, Shape
<1>6. Shape'
  BY <1>1, <1>4, <1>5, IdleCall, ShapeMoves
<1>7. Covers(tokens[s], spent[s], Event, Tokens, from) /\ Covers(Append(Pruned(tokens[s]), e), Append(spent[s], e), Event, Tokens, from)
  <2>1. Covers(tokens[s], spent[s], Event, Tokens, now - QuotaWindow)
    BY <1>2 DEF QuotaInv, Windows
  <2>2. Covers(Pruned(tokens[s]), spent[s], Event, Tokens, from)
    BY <1>2, <2>1, AreTimed, PrunedCovers DEF from
  <2>3. Covers(Append(Pruned(tokens[s]), e), Append(spent[s], e), Event, Tokens, from)
    BY <1>3, <2>2, AreTimed, CoverAppend
  <2> QED BY <2>1, <2>3 DEF from
<1>8. tokens \in [Server -> Seq(Event)] /\ spent \in [Server -> Seq(Event)]
  BY DEF QuotaInv, Windows
<1>9. Append(Pruned(tokens[s]), e) \in Seq(Event) /\ Append(spent[s], e) \in Seq(Event)
  BY <1>7, LaterSeq DEF Covers
<1>10. /\ tokens' \in [Server -> Seq(Event)] /\ spent' \in [Server -> Seq(Event)]
       /\ \/ tokens'[s] = Append(Pruned(tokens[s]), e) /\ spent'[s] = Append(spent[s], e)
          \/ tokens'[s] = tokens[s] /\ spent'[s] = spent[s]
       /\ \A q \in Server : q # s => tokens'[q] = tokens[q] /\ spent'[q] = spent[q]
  BY <1>1, <1>2, <1>8, <1>9
<1>11. \A q \in Server : Covers(tokens'[q], spent'[q], Event, Tokens, now - QuotaWindow)
  BY <1>7, <1>10 DEF QuotaInv, Windows, from
<1>12. Windows'
  BY <1>1, <1>10, <1>11 DEF QuotaInv, Windows
<1> QED BY <1>6, <1>12 DEF QuotaInv

\* Time passes.
LEMMA TickStep ==
    ASSUME QuotaInv, AuditTick
    PROVE  QuotaInv'
<1>1. /\ now' = now + 1 /\ spent' = Recent(spent, now + 1) /\ served' = Recent(served, now + 1)
      /\ UNCHANGED <<tokens, requests, reserved, tpm, rpm, call, backed>>
  BY DEF AuditTick, Tick, quotaVars
<1>2. Shape'
  BY <1>1 DEF QuotaInv, Shape
<1> DEFINE from == now - QuotaWindow
           to == now + 1 - QuotaWindow
<1>3. from \in Int /\ to \in Int /\ to >= from /\ now + 1 \in Int /\ now' - QuotaWindow = to
  BY <1>1, QuotaAssumption DEF QuotaInv, Shape
<1>4. ASSUME NEW s \in Server
      PROVE  /\ Covers(tokens[s], Recent(spent, now + 1)[s], Event, Tokens, to)
             /\ Covers(requests[s], Recent(served, now + 1)[s], Stamp, One, to)
  <2>1. Covers(tokens[s], spent[s], Event, Tokens, from) /\ Covers(requests[s], served[s], Stamp, One, from)
    BY DEF QuotaInv, Windows
  <2>2. spent[s] \in Seq(Event) /\ served[s] \in Seq(Stamp)
    BY DEF QuotaInv, Windows
  <2>3. (\A e \in Event : e.at \in Nat) /\ (\A e \in Stamp : e.at \in Nat)
    BY DEF Event, Stamp
  <2>4. /\ Recent(spent, now + 1)[s] = Filter(spent[s], Event, Later(Event, to))
        /\ Recent(served, now + 1)[s] = Filter(served[s], Stamp, Later(Stamp, to))
    <3> DEFINE t == now + 1
    <3>1. t \in Int /\ t - QuotaWindow = to
      BY QuotaAssumption DEF QuotaInv, Shape
    <3> HIDE DEF t, to, from
    <3>2. Recent(spent, t)[s] = Filter(spent[s], Event, Later(Event, t - QuotaWindow))
      BY <2>2, <2>3, <3>1, RecentIs
    <3>3. Recent(served, t)[s] = Filter(served[s], Stamp, Later(Stamp, t - QuotaWindow))
      BY <2>2, <2>3, <3>1, RecentIs
    <3> QED BY <3>1, <3>2, <3>3 DEF t
  <2> HIDE DEF from, to
  <2> QED BY <1>3, <2>1, <2>4, AreTimed, CoverTick
<1>5. \A s \in Server : Recent(spent, now + 1)[s] \in Seq(Event) /\ Recent(served, now + 1)[s] \in Seq(Stamp)
  BY <1>4, LaterSeq DEF Covers
<1>6. spent' \in [Server -> Seq(Event)] /\ served' \in [Server -> Seq(Stamp)]
  BY <1>1, <1>5 DEF Recent
<1> HIDE DEF from, to
<1>7. Windows'
  BY <1>1, <1>3, <1>4, <1>6 DEF QuotaInv, Windows
<1> QED BY <1>2, <1>7 DEF QuotaInv

\* The state stays well-formed and the windows covered.
LEMMA QuotaStep ==
    ASSUME QuotaInv, [AuditNext]_auditVars
    PROVE  QuotaInv'
<1>1. CASE UNCHANGED auditVars
  BY <1>1 DEF auditVars, useVars, quotaVars, history, QuotaInv, Shape, Windows
<1>2. CASE \E r \in Request, s \in Server, last \in BOOLEAN : AuditAllow(r, s, last)
  BY <1>2, AllowStep
<1>3. CASE \E r \in Request : (LogUsage(r) \/ Refuse(r)) /\ UNCHANGED history
  BY <1>3, EndStep
<1>4. CASE \E r \in Request, e \in Estimates : AuditSend(r, e)
  BY <1>4, SendStep
<1>5. CASE \E r \in Request : AuditCount(r)
  BY <1>5, CountStep
<1>6. CASE \E r \in Request : \E a \in Actuals(r) : AuditFinish(r, a)
  <2>1. PICK r \in Request, a \in Nat : AuditFinish(r, a)
    BY <1>6, QuotaUseAssumption DEF Actuals
  <2> QED BY <2>1, FinishStep
<1>7. CASE \E s \in Server, limits \in Edits : AuditEdit(s, limits)
  <2>1. PICK s \in Server, limits \in TPMs \X RPMs : AuditEdit(s, limits)
    BY <1>7, QuotaUseAssumption
  <2>2. /\ tpm' = [tpm EXCEPT ![s] = limits[1]] /\ rpm' = [rpm EXCEPT ![s] = limits[2]]
        /\ UNCHANGED <<now, tokens, requests, reserved, call, spent, served, backed>>
    BY <2>1 DEF AuditEdit, Edit, EditLimits
  <2>3. limits[1] \in TPMs /\ limits[2] \in RPMs
    OBVIOUS
  <2> QED BY <2>2, <2>3 DEF QuotaInv, Shape, Windows
<1>8. CASE AuditTick
  BY <1>8, TickStep
<1> QED BY <1>1, <1>2, <1>3, <1>4, <1>5, <1>6, <1>7, <1>8 DEF AuditNext

\* The windows are empty at first.
LEMMA QuotaStarts == AuditInit => QuotaInv
<1> SUFFICES ASSUME AuditInit PROVE QuotaInv
  OBVIOUS
<1>1. Shape
  BY IdleCall DEF AuditInit, UseInit, QuotaInit, Shape
<1>2. \A E : <<>> \in Seq(E)
  BY EmptySeq
<1>3. ASSUME NEW E, NEW f, Timed(E, f), NEW from PROVE Covers(<<>>, <<>>, E, f, from)
  <2>1. ASSUME NEW t \in Int PROVE WeightAfter(<<>>, E, f, t) = 0
    <3>1. Filter(<<>>, E, Later(E, t)) = <<>>
      BY <1>2, FilterSteps, ZenonT(60)
    <3>2. Weight(<<>>, E, f) = 0
      BY <1>2, <1>3, WeightSteps DEF Timed
    <3> QED BY <3>1, <3>2 DEF WeightAfter
  <2> QED BY <1>2, <2>1 DEF Covers
<1>4. Windows
  BY <1>2, <1>3, AreTimed DEF AuditInit, UseInit, QuotaInit, Windows
<1> QED BY <1>1, <1>4 DEF QuotaInv

\* The invariant of the windows.
THEOREM QuotaInvariant == AuditSpec => []QuotaInv
<1>1. QuotaInv /\ [AuditNext]_auditVars => QuotaInv'
  BY QuotaStep
<1> QED BY <1>1, QuotaStarts, PTL DEF AuditSpec

\* The tracker's windows, counters and calls keep their types; no reservation is
\* given back twice, which would make the count negative (Complete).
THEOREM TypeCorrect == AuditSpec => []UseTypeOK
<1>1. QuotaInv => UseTypeOK
  BY DEF QuotaInv, Shape, Windows, UseTypeOK, QuotaTypeOK, Event, Stamp
<1> QED BY <1>1, QuotaInvariant, PTL

\* The tracker never counts less than was spent and served: whichever of its
\* methods pruned a window in place, stored or not, nothing inside it is lost.
THEOREM CountsEverything == AuditSpec => []NeverUndercounts
<1>1. ASSUME QuotaInv PROVE NeverUndercounts
  <2> SUFFICES ASSUME NEW s \in Server PROVE Used(s) >= Total(spent[s]) /\ Sent(s) >= Len(served[s])
    BY DEF NeverUndercounts
  <2>1. /\ now \in Nat /\ spent[s] \in Seq(Event) /\ served[s] \in Seq(Stamp)
        /\ Covers(tokens[s], spent[s], Event, Tokens, now - QuotaWindow)
        /\ Covers(requests[s], served[s], Stamp, One, now - QuotaWindow)
    BY <1>1 DEF QuotaInv, Shape, Windows
  <2>2. Weight(Pruned(tokens[s]), Event, Tokens) >= Weight(spent[s], Event, Tokens) /\ Pruned(tokens[s]) \in Seq(Event)
    BY <2>1, AreTimed, PrunedCovers
  <2>3. Weight(Pruned(requests[s]), Stamp, One) >= Weight(served[s], Stamp, One) /\ Pruned(requests[s]) \in Seq(Stamp)
    BY <2>1, AreTimed, PrunedCovers
  <2>4. Used(s) = Weight(Pruned(tokens[s]), Event, Tokens) /\ Total(spent[s]) = Weight(spent[s], Event, Tokens)
    BY <2>1, <2>2, TotalIs DEF Used
  <2>5. Sent(s) = Weight(Pruned(requests[s]), Stamp, One) /\ Len(served[s]) = Weight(served[s], Stamp, One)
    BY <2>1, <2>3, WeightOne DEF Sent, One
  <2> QED BY <2>2, <2>3, <2>4, <2>5
<1> QED BY <1>1, QuotaInvariant, PTL

-----------------------------------------------------------------------------
(* The reservations.                                                       *)

\* What is reserved on s is what the attempts out on s reserved; an attempt gives
\* back what Reserve added for it, unless s has no limit and nothing was added.
Exact(s) ==
    /\ reserved[s] = SumOver(Request, Holding(s))
    /\ \A r \in Request : call[r].st \in Out /\ call[r].srv = s => backed[r] = IF tpm[s] = 0 THEN 0 ELSE call[r].held

\* What one attempt holds on s.
Part(q, b, s) == IF q.srv = s THEN b ELSE 0

\* One attempt moves, and the reservation with it.
LEMMA ExactMoves ==
    ASSUME Shape, Shape', NEW r \in Request, NEW s \in Server, Exact(s), tpm[s] = 0 <=> tpm'[s] = 0,
           \A q \in Request : q # r => call'[q] = call[q] /\ backed'[q] = backed[q],
           reserved'[s] = reserved[s] + (Part(call'[r], backed'[r], s) - Part(call[r], backed[r], s)),
           call'[r].st \in Out /\ call'[r].srv = s => backed'[r] = IF tpm[s] = 0 THEN 0 ELSE call'[r].held
    PROVE  Exact(s)'
<1> DEFINE f == Holding(s)
           g == [q \in Request |-> IF call'[q].srv = s THEN backed'[q] ELSE 0]
<1>1. Holding(s)' = g
  BY DEF Holding
<1>2. f \in [Request -> Nat] /\ g \in [Request -> Nat] /\ f[r] = Part(call[r], backed[r], s) /\ g[r] = Part(call'[r], backed'[r], s)
  BY DEF Holding, Shape, Part
<1>3. \A q \in Request : q # r => g[q] = f[q]
  BY DEF Holding
<1> HIDE DEF f, g
<1>4. f \in [Request -> Int] /\ g \in [Request -> Int]
  BY <1>2
<1>5. SumOver(Request, g) = SumOver(Request, f) + g[r] - f[r]
  BY <1>3, <1>4, AuditAssumption, SumUpdate
<1>6. reserved[s] = SumOver(Request, f) /\ reserved[s] \in Nat /\ f[r] \in Nat /\ g[r] \in Nat
  BY <1>2 DEF Exact, f, Shape
<1>7. reserved'[s] = SumOver(Request, g)
  BY <1>2, <1>5, <1>6
<1>8. ASSUME NEW q \in Request, call'[q].st \in Out, call'[q].srv = s
      PROVE  backed'[q] = IF tpm'[s] = 0 THEN 0 ELSE call'[q].held
  BY <1>8 DEF Exact
<1> QED BY <1>1, <1>7, <1>8 DEF Exact

\* A reservation on s is what one attempt holds there at least.
LEMMA ReservedCovers ==
    ASSUME Shape, NEW s \in Server, Exact(s), NEW r \in Request, call[r].st \in Out, call[r].srv = s
    PROVE  /\ backed[r] <= reserved[s]
           /\ tpm[s] = 0 => reserved[s] = 0
<1> DEFINE f == Holding(s)
<1>1. f \in [Request -> Nat] /\ f[r] = backed[r]
  BY DEF Holding, Shape
<1>2. tpm[s] = 0 => \A q \in Request : f[q] = 0
  BY DEF Holding, Exact, Shape
<1>3. reserved[s] = SumOver(Request, f)
  BY DEF Exact
<1> HIDE DEF f
<1> QED BY <1>1, <1>2, <1>3, AuditAssumption, SumBounds

\* Every step keeps the reservation of a server exact unless it turns the limit of
\* the server on or off.
LEMMA ExactStep ==
    ASSUME QuotaInv, QuotaInv', [AuditNext]_auditVars, NEW s \in Server, Exact(s), tpm[s] = 0 <=> tpm'[s] = 0
    PROVE  Exact(s)'
<1> USE DEF QuotaInv
<1>1. ASSUME UNCHANGED <<reserved, call, backed>> PROVE Exact(s)'
  <2>1. Holding(s)' = Holding(s)
    BY <1>1 DEF Holding
  <2> QED BY <1>1, <2>1 DEF Exact
<1>2. CASE UNCHANGED auditVars
  BY <1>1, <1>2 DEF auditVars, useVars, quotaVars, history
<1>3. ASSUME NEW r \in Request, \A q \in Request : q # r => call'[q] = call[q], backed' = backed, reserved' = reserved,
             backed[r] = 0, call'[r].st \notin Out
      PROVE  Exact(s)'
  <2>1. Part(call'[r], backed'[r], s) = 0 /\ Part(call[r], backed[r], s) = 0
    BY <1>3 DEF Part
  <2>2. reserved'[s] = reserved[s] + (0 - 0)
    BY <1>3 DEF Shape
  <2>3. reserved'[s] = reserved[s] + (Part(call'[r], backed'[r], s) - Part(call[r], backed[r], s))
    BY <2>1, <2>2
  <2> QED BY <1>3, <2>3, ExactMoves
<1>4. CASE \E r \in Request, q \in Server, last \in BOOLEAN : AuditAllow(r, q, last)
  <2>1. PICK r \in Request, q \in Server, last \in BOOLEAN : AuditAllow(r, q, last)
    BY <1>4
  <2> DEFINE c == [Idle EXCEPT !.srv = q, !.last = last, !.st = IF Allowed(q) \/ last THEN "allowed" ELSE "blocked"]
  <2>2. call[r].st = "idle" /\ call' = [call EXCEPT ![r] = c] /\ backed' = backed /\ reserved' = reserved
    BY <2>1 DEF AuditAllow, AskAllow, Allow
  <2>3. c.st \notin Out
    BY DEF Idle, Out
  <2> HIDE DEF c
  <2>4. call'[r].st \notin Out /\ backed[r] = 0 /\ \A p \in Request : p # r => call'[p] = call[p]
    BY <2>2, <2>3 DEF Shape, Out
  <2> QED BY <1>3, <2>2, <2>4
<1>5. CASE \E r \in Request : (LogUsage(r) \/ Refuse(r)) /\ UNCHANGED history
  <2>1. PICK r \in Request : (LogUsage(r) \/ Refuse(r)) /\ UNCHANGED history
    BY <1>5
  <2>2. call[r].st \notin Out /\ call' = [call EXCEPT ![r] = Idle] /\ backed' = backed /\ reserved' = reserved
    BY <2>1 DEF LogUsage, Refuse, Usage, quotaVars, history, Out
  <2>3. call'[r].st \notin Out /\ backed[r] = 0 /\ \A p \in Request : p # r => call'[p] = call[p]
    BY <2>2, IdleCall DEF Shape, Out
  <2> QED BY <1>3, <2>2, <2>3
<1>6. CASE \E r \in Request, e \in Estimates : AuditSend(r, e)
  <2>1. PICK r \in Request, e \in Estimates : AuditSend(r, e)
    BY <1>6
  <2> DEFINE q == call[r].srv
             b == IF Holds(q, e) THEN e ELSE 0
             c == IF Admits(q, e) THEN [call[r] EXCEPT !.st = "sent", !.budget = e, !.held = e]
                  ELSE IF call[r].last THEN [call[r] EXCEPT !.st = "sent", !.budget = e] ELSE Idle
  <2>2. Reserving(r, e, q, b)
    BY <2>1, Reserves
  <2>3. call[r] \in Call /\ call[r].held = 0 /\ backed[r] = 0 /\ call[r].srv = q
    BY <2>2 DEF Reserving, Shape, Out
  <2>4. /\ c.st \in Out => c.srv = q /\ c.held = IF Admits(q, e) THEN e ELSE 0
        /\ c.st \notin Out => ~Admits(q, e)
    BY <2>3, IdleCall DEF Call, Out
  <2>5. b = IF Admits(q, e) /\ e # 0 /\ tpm[q] # 0 THEN e ELSE 0
    BY DEF Holds
  <2>6. call' = [call EXCEPT ![r] = c] /\ backed' = [backed EXCEPT ![r] = b] /\ b \in Nat /\ q \in Server
        /\ reserved' = [reserved EXCEPT ![q] = @ + b]
    BY <2>2 DEF Reserving
  <2> HIDE DEF b, c, q
  <2>7. /\ call'[r] = c /\ backed'[r] = b /\ reserved'[s] = reserved[s] + IF s = q THEN b ELSE 0
        /\ \A p \in Request : p # r => call'[p] = call[p] /\ backed'[p] = backed[p]
    BY <2>6 DEF Shape
  <2>8. Part(call[r], backed[r], s) = 0 /\ Part(call'[r], backed'[r], s) = IF s = q THEN b ELSE 0
    <3>1. c.st \notin Out => b = 0
      BY <2>4, <2>5
    <3>2. CASE c.st \in Out
      BY <2>3, <2>4, <2>7, <3>2 DEF Part
    <3>3. CASE c.st \notin Out
      BY <2>3, <2>7, <3>1, <3>3 DEF Part
    <3> QED BY <3>2, <3>3
  <2>9. reserved'[s] = reserved[s] + (Part(call'[r], backed'[r], s) - Part(call[r], backed[r], s))
    <3>1. (IF s = q THEN b ELSE 0) - 0 = IF s = q THEN b ELSE 0
      BY <2>6
    <3> QED BY <2>7, <2>8, <3>1
  <2>10. call'[r].st \in Out /\ call'[r].srv = s => backed'[r] = IF tpm[s] = 0 THEN 0 ELSE call'[r].held
    BY <2>4, <2>5, <2>7
  <2> QED BY <2>7, <2>9, <2>10, ExactMoves
<1>7. CASE \E r \in Request : AuditCount(r)
  <2>1. PICK r \in Request : AuditCount(r)
    BY <1>7
  <2>2. call[r].st = "sent" /\ call' = [call EXCEPT ![r].st = "counted"] /\ backed' = backed /\ reserved' = reserved
    BY <2>1 DEF AuditCount, Count, RecordRequest
  <2>3. /\ call'[r].srv = call[r].srv /\ call'[r].held = call[r].held /\ call[r].st \in Out
        /\ \A p \in Request : p # r => call'[p] = call[p]
    BY <2>2 DEF Shape, Call, Out
  <2>4. Part(call'[r], backed'[r], s) = Part(call[r], backed[r], s) /\ Part(call[r], backed[r], s) \in Nat
    BY <2>2, <2>3 DEF Part, Shape
  <2>5. reserved'[s] = reserved[s] + (Part(call'[r], backed'[r], s) - Part(call[r], backed[r], s))
    BY <2>2, <2>4 DEF Shape
  <2>6. call'[r].srv = s => backed'[r] = IF tpm[s] = 0 THEN 0 ELSE call'[r].held
    BY <2>2, <2>3 DEF Exact
  <2> QED BY <2>2, <2>3, <2>5, <2>6, ExactMoves
<1>8. CASE \E r \in Request : \E a \in Actuals(r) : AuditFinish(r, a)
  <2>1. PICK r \in Request, a \in Nat : AuditFinish(r, a)
    BY <1>8, QuotaUseAssumption DEF Actuals
  <2> DEFINE q == call[r].srv
             h == call[r].held
  <2>2. /\ call[r].st \in Out /\ call' = [call EXCEPT ![r] = Idle] /\ backed' = [backed EXCEPT ![r] = 0]
        /\ reserved' = [reserved EXCEPT ![q] = IF @ < h THEN 0 ELSE @ - h]
    BY <2>1 DEF AuditFinish, Finish, Complete, Out
  <2>3. call[r] \in Call /\ h \in Nat /\ q \in Server /\ reserved[s] \in Nat /\ backed[r] \in Nat
    BY <2>2 DEF Shape, Call, Out
  <2>4. /\ call'[r].st \notin Out /\ backed'[r] = 0
        /\ \A p \in Request : p # r => call'[p] = call[p] /\ backed'[p] = backed[p]
    BY <2>2, IdleCall DEF Shape, Out
  <2>5. Part(call'[r], backed'[r], s) = 0
    BY <2>4 DEF Part
  <2>6. reserved'[s] = reserved[s] - Part(call[r], backed[r], s)
    <3>1. CASE q = s
      <4>1. backed[r] <= reserved[s] /\ (tpm[s] = 0 => reserved[s] = 0) /\ Part(call[r], backed[r], s) = backed[r]
        BY <2>2, <3>1, ReservedCovers DEF Part
      <4>2. backed[r] = IF tpm[s] = 0 THEN 0 ELSE h
        BY <2>2, <3>1 DEF Exact
      <4>3. reserved'[s] = IF reserved[s] < h THEN 0 ELSE reserved[s] - h
        BY <2>2, <3>1 DEF Shape
      <4> HIDE DEF h
      <4> QED BY <2>3, <4>1, <4>2, <4>3
    <3>2. CASE q # s
      <4>1. reserved'[s] = reserved[s] /\ Part(call[r], backed[r], s) = 0
        BY <2>2, <3>2 DEF Part, Shape
      <4> QED BY <2>3, <4>1
    <3> QED BY <3>1, <3>2
  <2>7. Part(call[r], backed[r], s) \in Nat
    BY <2>3 DEF Part
  <2>8. reserved'[s] = reserved[s] + (Part(call'[r], backed'[r], s) - Part(call[r], backed[r], s))
    BY <2>3, <2>5, <2>6, <2>7
  <2> QED BY <2>4, <2>8, ExactMoves
<1>9. CASE \E q \in Server, limits \in Edits : AuditEdit(q, limits)
  BY <1>1, <1>9 DEF AuditEdit, Edit, EditLimits
<1>10. CASE AuditTick
  BY <1>1, <1>10 DEF AuditTick, Tick, quotaVars
<1> QED BY <1>2, <1>4, <1>5, <1>6, <1>7, <1>8, <1>9, <1>10 DEF AuditNext

\* Nothing is reserved at first.
LEMMA ExactStarts ==
    ASSUME AuditInit, NEW s \in Server
    PROVE  Exact(s)
<1> DEFINE f == Holding(s)
<1>1. f \in [Request -> Nat] /\ (\A r \in Request : f[r] = 0) /\ reserved[s] = 0
  BY IdleCall DEF AuditInit, UseInit, QuotaInit, Holding, Idle
<1>2. \A r \in Request : call[r].st \notin Out
  BY IdleCall DEF AuditInit, UseInit, Out
<1> HIDE DEF f
<1>3. SumOver(Request, f) = 0
  BY <1>1, AuditAssumption, SumBounds
<1> QED BY <1>1, <1>2, <1>3 DEF Exact, f

\* No step turns a server's token limit on or off.
LimitsKept == \A s \in Server : tpm[s] = 0 <=> tpm'[s] = 0

\* What is reserved on a server is what the attempts out on it reserved, as long
\* as the administrator turns no token limit on or off: no exit path leaks its
\* reservation and none gives back another's (Reserve, Complete, releaseQuota).
THEOREM ReservationsExact == AuditSpec /\ [][LimitsKept]_auditVars => []ReservedExact
<1> DEFINE Inv == QuotaInv /\ \A s \in Server : Exact(s)
<1>1. AuditInit => Inv
  BY QuotaStarts, ExactStarts
<1>2. Inv /\ [AuditNext]_auditVars /\ [LimitsKept]_auditVars => Inv'
  <2> SUFFICES ASSUME Inv, [AuditNext]_auditVars, [LimitsKept]_auditVars PROVE Inv'
    OBVIOUS
  <2>1. QuotaInv'
    BY QuotaStep
  <2>2. ASSUME NEW s \in Server PROVE Exact(s)'
    <3>1. tpm[s] = 0 <=> tpm'[s] = 0
      BY DEF LimitsKept, auditVars, useVars, quotaVars
    <3> QED BY <2>1, <3>1, ExactStep
  <2> QED BY <2>1, <2>2
<1>3. ASSUME Inv PROVE ReservedExact
  <2>1. ASSUME NEW s \in Server
        PROVE  reserved[s] = MapThenSumSet(LAMBDA r : IF call[r].srv = s THEN backed[r] ELSE 0, Request)
    <3>1. Holding(s) \in [Request -> Int]
      BY <1>3 DEF Holding, QuotaInv, Shape
    <3>2. reserved[s] = SumOver(Request, Holding(s))
      BY <1>3 DEF Exact
    <3> QED BY <3>1, <3>2, AuditAssumption, HeldIs
  <2> QED BY <2>1 DEF ReservedExact
<1> HIDE DEF Inv
<1> QED BY <1>1, <1>2, <1>3, PTL DEF AuditSpec

-----------------------------------------------------------------------------
(* The limit.                                                              *)

SpentOn(s) == Weight(spent[s], Event, Tokens)

\* The attempts out on s hold what their clients declared, and what was spent and
\* what is held stay within the limit.
Protected(s) ==
    /\ Exact(s)
    /\ \A r \in Request : call[r].st \in Out /\ call[r].srv = s => call[r].budget = call[r].held
    /\ tpm[s] > 0 => SpentOn(s) + reserved[s] <= tpm[s]

\* What was spent is a number.
LEMMA SpentNat ==
    ASSUME QuotaInv, NEW s \in Server
    PROVE  SpentOn(s) \in Nat /\ spent[s] \in Seq(Event) /\ Used(s) >= SpentOn(s) /\ Used(s) \in Nat
<1>1. /\ now \in Nat /\ spent[s] \in Seq(Event)
      /\ Covers(tokens[s], spent[s], Event, Tokens, now - QuotaWindow)
  BY DEF QuotaInv, Shape, Windows
<1>2. Weight(Pruned(tokens[s]), Event, Tokens) >= Weight(spent[s], Event, Tokens) /\ Pruned(tokens[s]) \in Seq(Event)
  BY <1>1, AreTimed, PrunedCovers
<1>3. Used(s) = Weight(Pruned(tokens[s]), Event, Tokens)
  BY <1>2, TotalIs DEF Used
<1>4. Weight(spent[s], Event, Tokens) \in Nat /\ Weight(Pruned(tokens[s]), Event, Tokens) \in Nat
  BY <1>1, <1>2, AreTimed, WeightSteps DEF Timed
<1> QED BY <1>1, <1>2, <1>3, <1>4 DEF SpentOn

\* An attempt that is sent keeps its server within the limit, unless it was the
\* last of its chain and Reserve refused it.
LEMMA SendProtects ==
    ASSUME QuotaInv, NEW s \in Server, Protected(s), s \notin forced',
           NEW r \in Request, NEW e \in Estimates, AuditSend(r, e), Exact(s)'
    PROVE  Protected(s)'
<1> DEFINE q == call[r].srv
           b == IF Holds(q, e) THEN e ELSE 0
           c == IF Admits(q, e) THEN [call[r] EXCEPT !.st = "sent", !.budget = e, !.held = e]
                ELSE IF call[r].last THEN [call[r] EXCEPT !.st = "sent", !.budget = e] ELSE Idle
<1>1. Reserving(r, e, q, b)
  BY Reserves
<1>2. call[r] \in Call /\ q \in Server /\ e \in Nat /\ b \in Nat /\ call[r].srv = q
  BY <1>1 DEF Reserving, QuotaInv, Shape
<1>3. q = s => Admits(q, e) \/ ~call[r].last
  BY DEF AuditSend
<1>4. q = s /\ c.st \in Out => c.budget = c.held
  BY <1>2, <1>3, IdleCall DEF Call, Out
<1>5. c.st \in Out => c.srv = q
  BY <1>2, IdleCall DEF Call, Out
<1>6. call' = [call EXCEPT ![r] = c] /\ reserved' = [reserved EXCEPT ![q] = @ + b] /\ tpm' = tpm /\ spent' = spent
  BY <1>1 DEF Reserving
<1>7. b # 0 => e = b /\ tpm[q] # 0 /\ Used(q) + reserved[q] + e <= tpm[q]
  BY DEF Holds, Admits
<1> HIDE DEF b, c, q
<1>8. ASSUME NEW p \in Request, call'[p].st \in Out, call'[p].srv = s PROVE call'[p].budget = call'[p].held
  <2>1. CASE p = r
    BY <1>4, <1>5, <1>6, <1>8, <2>1 DEF QuotaInv, Shape
  <2>2. CASE p # r
    <3>1. call'[p] = call[p]
      BY <1>6, <2>2 DEF QuotaInv, Shape
    <3> QED BY <1>8, <3>1 DEF Protected
  <2> QED BY <2>1, <2>2
<1>9. ASSUME tpm[s] > 0 PROVE SpentOn(s) + reserved'[s] <= tpm[s]
  <2>1. SpentOn(s) + reserved[s] <= tpm[s] /\ reserved[s] \in Nat /\ tpm[s] \in Nat
    BY <1>9, QuotaAssumption DEF Protected, QuotaInv, Shape
  <2>2. SpentOn(s) \in Nat /\ Used(s) \in Nat /\ Used(s) >= SpentOn(s)
    BY SpentNat
  <2>3. reserved'[s] = IF q = s THEN reserved[s] + b ELSE reserved[s]
    BY <1>6 DEF QuotaInv, Shape
  <2> QED BY <1>2, <1>7, <2>1, <2>2, <2>3
<1>10. SpentOn(s)' = SpentOn(s)
  BY <1>6 DEF SpentOn
<1> QED BY <1>6, <1>8, <1>9, <1>10 DEF Protected

\* An attempt that completes spends no more than it held.
LEMMA FinishProtects ==
    ASSUME QuotaInv, NEW s \in Server, Protected(s), NEW r \in Request, NEW a \in Nat, a <= call[r].budget,
           AuditFinish(r, a), Exact(s)'
    PROVE  Protected(s)'
<1> DEFINE q == call[r].srv
           h == call[r].held
           e == [at |-> now, n |-> a]
<1>1. /\ call[r].st \in Out /\ call' = [call EXCEPT ![r] = Idle] /\ tpm' = tpm
      /\ reserved' = [reserved EXCEPT ![q] = IF @ < h THEN 0 ELSE @ - h]
      /\ spent' = [spent EXCEPT ![q] = IF a > 0 THEN Append(@, e) ELSE @]
  BY DEF AuditFinish, Finish, Complete, Out
<1>2. call[r] \in Call /\ h \in Nat /\ q \in Server /\ reserved[s] \in Nat /\ tpm[s] \in Nat /\ e \in Event
  BY <1>1, QuotaAssumption DEF QuotaInv, Shape, Call, Out, Event
<1>3. SpentOn(s) \in Nat /\ spent[s] \in Seq(Event)
  BY SpentNat
<1>4. ASSUME NEW p \in Request, call'[p].st \in Out, call'[p].srv = s PROVE call'[p].budget = call'[p].held
  <2>1. p # r /\ call'[p] = call[p]
    BY <1>1, <1>4, IdleCall DEF QuotaInv, Shape, Out
  <2> QED BY <1>4, <2>1 DEF Protected
<1>5. ASSUME tpm[s] > 0 PROVE SpentOn(s)' + reserved'[s] <= tpm[s]
  <2>1. SpentOn(s) + reserved[s] <= tpm[s]
    BY <1>5 DEF Protected
  <2>2. CASE q = s
    <3>1. a <= h /\ h <= reserved[s]
      <4>1. call[r].budget = h /\ backed[r] = h
        BY <1>1, <1>2, <1>5, <2>2 DEF Protected, Exact
      <4>2. backed[r] <= reserved[s]
        BY <1>1, <2>2, ReservedCovers DEF Protected, QuotaInv
      <4> QED BY <4>1, <4>2
    <3>2. reserved'[s] = reserved[s] - h
      <4>1. reserved'[s] = IF reserved[s] < h THEN 0 ELSE reserved[s] - h
        BY <1>1, <2>2 DEF QuotaInv, Shape
      <4> HIDE DEF h
      <4> QED BY <1>2, <3>1, <4>1
    <3>3. SpentOn(s)' = SpentOn(s) + a
      <4>1. spent'[s] = IF a > 0 THEN Append(spent[s], e) ELSE spent[s]
        BY <1>1, <2>2 DEF QuotaInv, Windows
      <4>2. Weight(Append(spent[s], e), Event, Tokens) = SpentOn(s) + Tokens[e] /\ Tokens[e] = a
        <5>1. Tokens[e] = a
          BY <1>2 DEF Tokens
        <5> HIDE DEF e
        <5>2. Weight(Append(spent[s], e), Event, Tokens) = SpentOn(s) + Tokens[e]
          BY <1>2, <1>3, AreTimed, WeightSteps DEF SpentOn, Timed
        <5> QED BY <5>1, <5>2
      <4> HIDE DEF e
      <4> QED BY <1>3, <4>1, <4>2 DEF SpentOn
    <3> HIDE DEF h
    <3> QED BY <1>2, <1>3, <2>1, <3>1, <3>2, <3>3
  <2>3. CASE q # s
    <3>1. reserved'[s] = reserved[s] /\ spent'[s] = spent[s]
      BY <1>1, <2>3 DEF QuotaInv, Shape, Windows
    <3> QED BY <2>1, <3>1 DEF SpentOn
  <2> QED BY <2>2, <2>3
<1> QED BY <1>1, <1>4, <1>5 DEF Protected

\* Usage that is a full window old no longer counts.
LEMMA TickProtects ==
    ASSUME QuotaInv, NEW s \in Server, Protected(s), AuditTick, Exact(s)'
    PROVE  Protected(s)'
<1>1. spent' = Recent(spent, now + 1) /\ UNCHANGED <<reserved, tpm, call>>
  BY DEF AuditTick, Tick, quotaVars
<1>2. SpentOn(s) \in Nat /\ spent[s] \in Seq(Event) /\ reserved[s] \in Nat /\ tpm[s] \in Nat /\ now + 1 \in Int
  <2>1. SpentOn(s) \in Nat /\ spent[s] \in Seq(Event)
    BY SpentNat
  <2>2. now \in Nat /\ reserved[s] \in Nat /\ tpm[s] \in TPMs
    BY DEF QuotaInv, Shape
  <2>3. tpm[s] \in Nat
    BY <2>2, QuotaAssumption
  <2>4. now + 1 \in Int
    BY <2>2
  <2> QED BY <2>1, <2>2, <2>3, <2>4, Zenon
<1> DEFINE t == now + 1
<1>3. \A e \in Event : e.at \in Nat
  BY DEF Event
<1> HIDE DEF t
<1>4. Recent(spent, t)[s] = Filter(spent[s], Event, Later(Event, t - QuotaWindow))
  BY <1>2, <1>3, RecentIs DEF t
<1>5. /\ Weight(Filter(spent[s], Event, Later(Event, t - QuotaWindow)), Event, Tokens) <= SpentOn(s)
      /\ Weight(Filter(spent[s], Event, Later(Event, t - QuotaWindow)), Event, Tokens) \in Nat
  <2>1. Filter(spent[s], Event, Later(Event, t - QuotaWindow)) \in Seq(Event)
    BY <1>2, FilterSteps
  <2> QED BY <1>2, <2>1, AreTimed, WeightFiltered, WeightSteps DEF SpentOn, Timed
<1>6. SpentOn(s)' <= SpentOn(s) /\ SpentOn(s)' \in Nat
  BY <1>1, <1>4, <1>5 DEF SpentOn, t
<1>7. tpm[s] > 0 => SpentOn(s)' + reserved[s] <= tpm[s]
  BY <1>2, <1>6 DEF Protected
<1> QED BY <1>1, <1>7 DEF Protected

\* Every step keeps the limit of a server, unless it is a last attempt sent over
\* it or an edit of it.
LEMMA ProtectedStep ==
    ASSUME MaxPrompt = 0, QuotaInv, QuotaInv', [AuditNext]_auditVars,
           NEW s \in Server, s \notin forced', s \notin forced => Protected(s)
    PROVE  Protected(s)'
<1>1. s \notin forced /\ tpm'[s] = tpm[s]
  <2>1. forced \subseteq forced'
    BY DEF AuditNext, AuditAllow, AuditSend, AuditCount, AuditFinish, AuditEdit, AuditTick, auditVars, history
  <2>2. CASE \E q \in Server, limits \in Edits : AuditEdit(q, limits)
    <3>1. PICK q \in Server, limits \in Edits : AuditEdit(q, limits)
      BY <2>2
    <3>2. q # s /\ tpm' = [tpm EXCEPT ![q] = limits[1]]
      BY <3>1 DEF AuditEdit, Edit, EditLimits
    <3> QED BY <2>1, <3>2 DEF QuotaInv, Shape
  <2>3. CASE ~\E q \in Server, limits \in Edits : AuditEdit(q, limits)
    <3>1. tpm' = tpm
      BY <2>3 DEF AuditNext, AuditAllow, AskAllow, Allow, LogUsage, Usage, Refuse, AuditSend, Send, Reserve, AuditCount,
         Count, RecordRequest, AuditFinish, Finish, Complete, AuditTick, Tick, auditVars, useVars, quotaVars
    <3> QED BY <2>1, <3>1
  <2> QED BY <2>2, <2>3
<1>2. Protected(s) /\ Exact(s)'
  BY <1>1, ExactStep DEF Protected
<1>3. ASSUME UNCHANGED <<reserved, spent>>, NEW r \in Request, \A p \in Request : p # r => call'[p] = call[p],
             call'[r].st \in Out => /\ call[r].st \in Out /\ call'[r].srv = call[r].srv
                                   /\ call'[r].budget = call[r].budget /\ call'[r].held = call[r].held
      PROVE  Protected(s)'
  <2>1. ASSUME NEW p \in Request, call'[p].st \in Out, call'[p].srv = s PROVE call'[p].budget = call'[p].held
    BY <1>2, <1>3, <2>1 DEF Protected
  <2>2. SpentOn(s)' = SpentOn(s)
    BY <1>3 DEF SpentOn
  <2> QED BY <1>1, <1>2, <1>3, <2>1, <2>2 DEF Protected
<1>4. ASSUME UNCHANGED <<reserved, spent, call>> PROVE Protected(s)'
  <2>1. SpentOn(s)' = SpentOn(s)
    BY <1>4 DEF SpentOn
  <2> QED BY <1>1, <1>2, <1>4, <2>1 DEF Protected
<1>5. CASE UNCHANGED auditVars
  BY <1>4, <1>5 DEF auditVars, useVars, quotaVars, history
<1>6. CASE \E r \in Request, q \in Server, last \in BOOLEAN : AuditAllow(r, q, last)
  <2>1. PICK r \in Request, q \in Server, last \in BOOLEAN : AuditAllow(r, q, last)
    BY <1>6
  <2> DEFINE c == [Idle EXCEPT !.srv = q, !.last = last, !.st = IF Allowed(q) \/ last THEN "allowed" ELSE "blocked"]
  <2>2. call' = [call EXCEPT ![r] = c] /\ UNCHANGED <<reserved, spent>>
    BY <2>1 DEF AuditAllow, AskAllow, Allow
  <2>3. c.st \notin Out
    BY DEF Idle, Out
  <2> HIDE DEF c
  <2>4. call'[r].st \notin Out /\ \A p \in Request : p # r => call'[p] = call[p]
    BY <2>2, <2>3 DEF QuotaInv, Shape
  <2> QED BY <1>3, <2>2, <2>4
<1>7. CASE \E r \in Request : (LogUsage(r) \/ Refuse(r)) /\ UNCHANGED history
  <2>1. PICK r \in Request : (LogUsage(r) \/ Refuse(r)) /\ UNCHANGED history
    BY <1>7
  <2>2. call' = [call EXCEPT ![r] = Idle] /\ UNCHANGED <<reserved, spent>>
    BY <2>1 DEF LogUsage, Refuse, Usage, quotaVars, history
  <2>3. call'[r].st \notin Out /\ \A p \in Request : p # r => call'[p] = call[p]
    BY <2>2, IdleCall DEF QuotaInv, Shape, Out
  <2> QED BY <1>3, <2>2, <2>3
<1>8. CASE \E r \in Request, e \in Estimates : AuditSend(r, e)
  BY <1>2, <1>8, SendProtects
<1>9. CASE \E r \in Request : AuditCount(r)
  <2>1. PICK r \in Request : AuditCount(r)
    BY <1>9
  <2>2. call[r].st = "sent" /\ call' = [call EXCEPT ![r].st = "counted"] /\ UNCHANGED <<reserved, spent>>
    BY <2>1 DEF AuditCount, Count, RecordRequest
  <2>3. /\ call'[r].srv = call[r].srv /\ call'[r].held = call[r].held /\ call'[r].budget = call[r].budget
        /\ call[r].st \in Out /\ \A p \in Request : p # r => call'[p] = call[p]
    BY <2>2 DEF QuotaInv, Shape, Call, Out
  <2> QED BY <1>3, <2>2, <2>3
<1>10. CASE \E r \in Request : \E a \in Actuals(r) : AuditFinish(r, a)
  <2>1. PICK r \in Request : \E a \in Actuals(r) : AuditFinish(r, a)
    BY <1>10
  <2>2. PICK a \in Actuals(r) : AuditFinish(r, a)
    BY <2>1
  <2>3. call[r].budget \in Nat
    BY DEF QuotaInv, Shape, Call
  <2>4. a \in Nat /\ a <= call[r].budget
    BY <2>3, QuotaUseAssumption DEF Actuals
  <2> QED BY <1>2, <2>2, <2>4, FinishProtects
<1>11. CASE \E q \in Server, limits \in Edits : AuditEdit(q, limits)
  BY <1>4, <1>11 DEF AuditEdit, Edit, EditLimits
<1>12. CASE AuditTick
  BY <1>2, <1>12, TickProtects
<1> QED BY <1>5, <1>6, <1>7, <1>8, <1>9, <1>10, <1>11, <1>12 DEF AuditNext

\* Reserve keeps concurrent requests from collectively exceeding a server's token
\* limit: unless a last attempt was sent over it on purpose or the limit was edited,
\* what was spent in the window and what is reserved stay within it, provided that
\* backends use no more than the budget the client declared.
THEOREM LimitProtected == MaxPrompt = 0 => (AuditSpec => []TPMProtected)
<1> SUFFICES ASSUME MaxPrompt = 0 PROVE AuditSpec => []TPMProtected
  OBVIOUS
<1> DEFINE Inv == QuotaInv /\ \A s \in Server : s \notin forced => Protected(s)
<1>1. ASSUME AuditInit PROVE Inv
  <2>1. ASSUME NEW s \in Server PROVE Protected(s)
    <3>1. Exact(s)
      BY <1>1, ExactStarts
    <3>2. \A r \in Request : call[r].st \notin Out
      BY <1>1, IdleCall DEF AuditInit, UseInit, Out
    <3>3. SpentOn(s) = 0
      <4>1. spent[s] = <<>> /\ <<>> \in Seq(Event)
        BY <1>1, EmptySeq DEF AuditInit
      <4> QED BY <4>1, AreTimed, WeightSteps DEF SpentOn, Timed
    <3>4. reserved[s] = 0 /\ tpm[s] \in Nat
      BY <1>1, QuotaAssumption DEF AuditInit, UseInit, QuotaInit
    <3> QED BY <3>1, <3>2, <3>3, <3>4 DEF Protected
  <2> QED BY <1>1, <2>1, QuotaStarts
<1>2. Inv /\ [AuditNext]_auditVars => Inv'
  <2> SUFFICES ASSUME Inv, [AuditNext]_auditVars PROVE Inv'
    OBVIOUS
  <2>1. QuotaInv'
    BY QuotaStep
  <2>2. ASSUME NEW s \in Server, s \notin forced' PROVE Protected(s)'
    BY <2>1, <2>2, ProtectedStep
  <2> QED BY <2>1, <2>2
<1>3. ASSUME Inv PROVE TPMProtected
  <2>1. ASSUME NEW s \in Server, tpm[s] > 0, s \notin forced PROVE Total(spent[s]) + reserved[s] <= tpm[s]
    <3>1. Total(spent[s]) = SpentOn(s)
      BY <1>3, SpentNat, TotalIs DEF SpentOn
    <3> QED BY <1>3, <2>1, <3>1 DEF Protected
  <2> QED BY <2>1 DEF TPMProtected
<1> HIDE DEF Inv
<1> QED BY <1>1, <1>2, <1>3, PTL DEF AuditSpec

=============================================================================
