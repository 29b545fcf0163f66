---------------------------- MODULE FoldTheorems ----------------------------
(***************************************************************************)
(* Induction over numbers, finite sets and sequences, with the induction   *)
(* hypothesis a set, so that it can be cited for any formula; and what the *)
(* folds of the community modules compute, with the operation they fold a  *)
(* function.                                                               *)
(***************************************************************************)
EXTENDS Integers, Sequences, FiniteSetsExt, SequenceTheorems, FiniteSetTheorems, WellFoundedInduction, TLAPS

-----------------------------------------------------------------------------
(* Induction.                                                              *)

\* A set of naturals that is not empty has a least element.
LEMMA LeastNat ==
    ASSUME NEW I \in SUBSET Nat, I # {}
    PROVE  \E x \in I : \A y \in I : x <= y
<1> DEFINE R == OpToRel(<, Nat)
<1>1. PICK x \in I : \A y \in I : ~(<<y, x>> \in R)
  BY WFMin, NatLessThanWellFounded
<1>2. R = {ss \in Nat \X Nat : ss[1] < ss[2]}
  BY DEF OpToRel
<1> HIDE DEF R
<1>3. \A y \in I : x <= y
  <2> SUFFICES ASSUME NEW y \in I, y < x PROVE FALSE
    OBVIOUS
  <2> DEFINE p == <<y, x>>
  <2>1. p \in Nat \X Nat /\ p[1] = y /\ p[2] = x
    OBVIOUS
  <2>2. p \notin R
    BY <1>1
  <2> HIDE DEF p
  <2> QED BY <1>2, <2>1, <2>2
<1> QED BY <1>3

\* A set with zero and the successor of each of its numbers holds every number.
LEMMA NatInd ==
    ASSUME NEW Q, 0 \in Q, \A n \in Nat : n \in Q => n + 1 \in Q
    PROVE  Nat \subseteq Q
<1> SUFFICES ASSUME Nat \ Q # {} PROVE FALSE
  OBVIOUS
<1>1. PICK x \in Nat \ Q : \A y \in Nat \ Q : x <= y
  BY LeastNat
<1>2. x - 1 \in Nat /\ x - 1 \in Q
  BY <1>1
<1>3. (x - 1) + 1 \in Q
  BY <1>2
<1> QED BY <1>1, <1>3

\* A set of subsets of S, with the empty one and with every subset that has one
\* element more than one it has, has them all.
LEMMA SetInd ==
    ASSUME NEW S, IsFiniteSet(S), NEW Q, {} \in Q,
           \A R \in SUBSET S : R # {} /\ (\A x \in R : R \ {x} \in Q) => R \in Q
    PROVE  SUBSET S \subseteq Q
<1> DEFINE I == {Cardinality(R) : R \in (SUBSET S) \ Q}
<1> SUFFICES ASSUME (SUBSET S) \ Q # {} PROVE FALSE
  OBVIOUS
<1>1. \A R \in SUBSET S : IsFiniteSet(R) /\ Cardinality(R) \in Nat
  BY FS_Subset, FS_CardinalityType
<1>2. I \in SUBSET Nat /\ I # {}
  BY <1>1
<1>7. PICK n \in I : \A m \in I : n <= m
  BY <1>2, LeastNat
<1>3. PICK R \in (SUBSET S) \ Q : \A T \in (SUBSET S) \ Q : Cardinality(R) <= Cardinality(T)
  BY <1>7
<1>4. PICK x \in R : R \ {x} \notin Q
  BY <1>3
<1>5. R \ {x} \in SUBSET S /\ Cardinality(R \ {x}) = Cardinality(R) - 1
  BY <1>1, FS_RemoveElement
<1> QED BY <1>1, <1>3, <1>4, <1>5

\* A set of sequences over E, with the empty one and with each that appends to one
\* it has, has them all.
LEMMA SeqInd ==
    ASSUME NEW E, NEW Q, <<>> \in Q, \A s \in Seq(E), e \in E : s \in Q => Append(s, e) \in Q
    PROVE  Seq(E) \subseteq Q
<1> DEFINE I == {Len(s) : s \in Seq(E) \ Q}
<1> SUFFICES ASSUME Seq(E) \ Q # {} PROVE FALSE
  OBVIOUS
<1>1. I \in SUBSET Nat /\ I # {}
  OBVIOUS
<1>6. PICK n \in I : \A m \in I : n <= m
  BY <1>1, LeastNat
<1>2. PICK s \in Seq(E) \ Q : \A t \in Seq(E) \ Q : Len(s) <= Len(t)
  BY <1>6
<1>3. s # <<>>
  BY <1>2
<1> DEFINE t == SubSeq(s, 1, Len(s) - 1)
           e == s[Len(s)]
<1>4. t \in Seq(E) /\ Len(t) = Len(s) - 1 /\ e \in E /\ s = Append(t, e)
  <2>1. Len(s) \in Nat \ {0} /\ \A i \in 1 .. Len(s) : s[i] \in E
    BY <1>3, EmptySeq, ElementOfSeq
  <2>2. /\ t \in Seq(E) /\ Len(t) = Len(s) - 1
        /\ \A i \in 1 .. Len(s) - 1 : t[i] = s[i]
    <3> DEFINE k == Len(s) - 1
    <3>1. k \in Int /\ \A i \in 1 .. k : s[i] \in E
      BY <2>1
    <3>2. k - 1 + 1 = k /\ \A i \in 1 .. k : 1 + i - 1 = i
      BY <3>1
    <3>3. k >= 0
      BY <2>1
    <3> HIDE DEF k
    <3>4. /\ SubSeq(s, 1, k) \in Seq(E)
          /\ Len(SubSeq(s, 1, k)) = IF 1 <= k THEN k - 1 + 1 ELSE 0
          /\ \A i \in 1 .. k - 1 + 1 : SubSeq(s, 1, k)[i] = s[1 + i - 1]
      BY <3>1, SubSeqProperties
    <3>5. /\ SubSeq(s, 1, k) \in Seq(E) /\ Len(SubSeq(s, 1, k)) = k
          /\ \A i \in 1 .. k : SubSeq(s, 1, k)[i] = s[i]
      BY <3>1, <3>2, <3>3, <3>4
    <3> QED BY <3>5 DEF k
  <2>3. e \in E
    BY <2>1
  <2> HIDE DEF t
  <2>4. /\ Append(t, e) \in Seq(E) /\ Len(Append(t, e)) = Len(s)
        /\ \A i \in 1 .. Len(s) : Append(t, e)[i] = s[i]
    <3>1. /\ Append(t, e) \in Seq(E) /\ Len(Append(t, e)) = Len(t) + 1 /\ Append(t, e)[Len(t) + 1] = e
          /\ \A i \in 1 .. Len(t) : Append(t, e)[i] = t[i]
      BY <2>2, <2>3, AppendProperties
    <3> QED BY <2>1, <2>2, <3>1
  <2>5. s = Append(t, e)
    BY <2>4, SeqEqual
  <2> QED BY <2>2, <2>3, <2>5
<1> HIDE DEF t, e
<1>5. t \in Q
  BY <1>2, <1>4
<1> QED BY <1>2, <1>4, <1>5

-----------------------------------------------------------------------------
(* Folds over finite sets.                                                 *)

\* h folds step over the subsets of S from base on, taking pick[R] last from R.
IsFold(h, S, V, base, step, pick) ==
    /\ h \in [SUBSET S -> V]
    /\ h[{}] = base
    /\ \A R \in SUBSET S : R # {} => h[R] = step[<<h[R \ {pick[R]}], pick[R]>>]

\* g solves the equation of the fold, its values taken to be of the type V.
Solves(g, S, V, base, step, pick) ==
    /\ g[{}] = base
    /\ \A R \in SUBSET S : R # {} /\ g[R \ {pick[R]}] \in V => g[R] = step[<<g[R \ {pick[R]}], pick[R]>>]

\* pick takes an element of every subset of S that has one.
Picks(pick, S) == \A R \in SUBSET S : R # {} => pick[R] \in R

\* There is such a fold.
LEMMA FoldExists ==
    ASSUME NEW S, IsFiniteSet(S), NEW V, NEW base \in V, NEW step \in [V \X S -> V], NEW pick, Picks(pick, S)
    PROVE  \E h : IsFold(h, S, V, base, step, pick)
<1> USE DEF Picks
<1> DEFINE Small(n) == {R \in SUBSET S : Cardinality(R) <= n}
           Upto(h, n) == /\ h \in [Small(n) -> V] /\ h[{}] = base
                         /\ \A R \in Small(n) : R # {} => h[R] = step[<<h[R \ {pick[R]}], pick[R]>>]
           Q == {n \in Nat : \E h : Upto(h, n)}
<1>1. \A R \in SUBSET S : IsFiniteSet(R) /\ Cardinality(R) \in Nat /\ (Cardinality(R) = 0 <=> R = {})
  BY FS_Subset, FS_CardinalityType, FS_EmptySet
<1>2. \A R \in SUBSET S : R # {} => /\ R \ {pick[R]} \in SUBSET S /\ pick[R] \in S
                                     /\ Cardinality(R \ {pick[R]}) = Cardinality(R) - 1
  BY <1>1, FS_RemoveElement
<1>3. 0 \in Q
  <2> DEFINE h == [R \in Small(0) |-> base]
  <2>1. \A R \in Small(0) : R = {}
    BY <1>1
  <2>2. {} \in Small(0)
    BY <1>1
  <2>3. Upto(h, 0)
    BY <2>1, <2>2
  <2> QED BY <2>3
<1>4. ASSUME NEW n \in Nat, n \in Q PROVE n + 1 \in Q
  <2>1. PICK h : Upto(h, n)
    BY <1>4
  <2> DEFINE g == [R \in Small(n + 1) |-> IF R \in Small(n) THEN h[R] ELSE step[<<h[R \ {pick[R]}], pick[R]>>]]
  <2>2. {} \in Small(n) /\ Small(n) \subseteq Small(n + 1)
    BY <1>1
  <2>3. \A R \in Small(n + 1) : R # {} => /\ R \ {pick[R]} \in Small(n) /\ pick[R] \in S
                                           /\ h[R \ {pick[R]}] \in V
                                           /\ g[R \ {pick[R]}] = h[R \ {pick[R]}]
    BY <1>1, <1>2, <2>1, <2>2
  <2>4. \A R \in Small(n + 1) : R # {} => g[R] = step[<<g[R \ {pick[R]}], pick[R]>>] /\ g[R] \in V
    BY <2>1, <2>3
  <2>5. g[{}] = base /\ {} \in Small(n + 1)
    BY <2>1, <2>2
  <2>6. g \in [Small(n + 1) -> V]
    BY <2>4, <2>5
  <2> HIDE DEF g, Small
  <2>7. Upto(g, n + 1)
    BY <2>4, <2>5, <2>6
  <2> QED BY <2>7
<1>5. Nat \subseteq Q
  <2> HIDE DEF Q
  <2> QED BY <1>3, <1>4, NatInd
<1>6. Cardinality(S) \in Nat /\ Small(Cardinality(S)) = SUBSET S
  BY FS_Subset, FS_CardinalityType
<1>7. PICK h : Upto(h, Cardinality(S))
  BY <1>5, <1>6
<1> QED BY <1>6, <1>7 DEF IsFold

\* And it is the only solution of its equation.
LEMMA FoldUnique ==
    ASSUME NEW S, IsFiniteSet(S), NEW V, NEW base, NEW step, NEW pick,
           Picks(pick, S), NEW h, IsFold(h, S, V, base, step, pick), NEW g, Solves(g, S, V, base, step, pick)
    PROVE  \A R \in SUBSET S : g[R] = h[R]
<1> USE DEF Picks, Solves
<1> DEFINE Q == {R \in SUBSET S : g[R] = h[R]}
<1>1. {} \in Q
  BY DEF IsFold
<1>2. ASSUME NEW R \in SUBSET S, R # {}, \A x \in R : R \ {x} \in Q PROVE R \in Q
  <2>1. R \ {pick[R]} \in Q /\ R \ {pick[R]} \in SUBSET S
    BY <1>2
  <2>2. g[R \ {pick[R]}] = h[R \ {pick[R]}] /\ h[R \ {pick[R]}] \in V
    BY <2>1 DEF IsFold
  <2>3. g[R] = step[<<g[R \ {pick[R]}], pick[R]>>]
    BY <1>2, <2>2
  <2>4. h[R] = step[<<h[R \ {pick[R]}], pick[R]>>]
    BY <1>2 DEF IsFold
  <2> QED BY <2>2, <2>3, <2>4
<1> HIDE DEF Q
<1>3. SUBSET S \subseteq Q
  BY <1>1, <1>2, SetInd
<1> QED BY <1>3 DEF Q

-----------------------------------------------------------------------------
(* Folds over sequences, from left to right.                               *)

\* The step at position i of w, and the position that is folded last.
StepAt(step, w, V) == [p \in V \X DOMAIN w |-> step[<<p[1], w[p[2]]>>]]
LastOne(w) == [R \in SUBSET DOMAIN w |-> Max(R)]

PartsFold(w, V, base, step) ==
    CHOOSE h : IsFold(h, DOMAIN w, V, base, StepAt(step, w, V), LastOne(w))
LeftFold(w, V, base, step) == PartsFold(w, V, base, step)[DOMAIN w]

\* A set of positions that is not empty has a greatest, which Max returns.
LEMMA MaxIn ==
    ASSUME NEW n \in Nat, NEW R \in SUBSET (1 .. n), R # {}
    PROVE  Max(R) \in R /\ \A y \in R : Max(R) >= y
<1> DEFINE I == {n - x : x \in R}
<1>5. \A x \in R : x \in Int /\ n - x \in Nat
  OBVIOUS
<1>1. I \in SUBSET Nat /\ I # {}
  BY <1>5
<1>2. PICK m \in I : \A y \in I : m <= y
  BY <1>1, LeastNat
<1>3. PICK x \in R : m = n - x
  BY <1>2
<1>4. ASSUME NEW y \in R PROVE x >= y
  <2>1. m <= n - y
    BY <1>2
  <2>2. x \in Int /\ y \in Int
    BY <1>5
  <2> QED BY <1>3, <2>1, <2>2
<1> QED BY <1>4 DEF Max

\* The fold of step over a sequence w of elements of E.
Foldable(w, E, V, base, step) == w \in Seq(E) /\ base \in V /\ step \in [V \X E -> V]

\* The fold over the positions of w.
LEMMA PartsFolded ==
    ASSUME NEW E, NEW V, NEW base, NEW step, NEW w, Foldable(w, E, V, base, step)
    PROVE  /\ IsFiniteSet(DOMAIN w) /\ Picks(LastOne(w), DOMAIN w)
           /\ \A R \in SUBSET DOMAIN w : R # {} => LastOne(w)[R] = Max(R) /\ Max(R) \in R
           /\ \A v \in V, i \in DOMAIN w : StepAt(step, w, V)[<<v, i>>] = step[<<v, w[i]>>]
           /\ IsFold(PartsFold(w, V, base, step), DOMAIN w, V, base, StepAt(step, w, V), LastOne(w))
<1> USE DEF Foldable
<1>1. DOMAIN w = 1 .. Len(w) /\ Len(w) \in Nat /\ \A i \in DOMAIN w : w[i] \in E
  BY LenProperties, ElementOfSeq
<1>2. IsFiniteSet(DOMAIN w)
  BY <1>1, FS_Interval
<1>3. \A R \in SUBSET DOMAIN w : R # {} => LastOne(w)[R] = Max(R) /\ Max(R) \in R
  BY <1>1, MaxIn DEF LastOne
<1>4. /\ StepAt(step, w, V) \in [V \X DOMAIN w -> V]
      /\ \A v \in V, i \in DOMAIN w : StepAt(step, w, V)[<<v, i>>] = step[<<v, w[i]>>]
  BY <1>1 DEF StepAt
<1>5. Picks(LastOne(w), DOMAIN w)
  BY <1>3 DEF Picks
<1>6. \E h : IsFold(h, DOMAIN w, V, base, StepAt(step, w, V), LastOne(w))
  BY <1>2, <1>4, <1>5, FoldExists
<1> QED BY <1>2, <1>3, <1>4, <1>5, <1>6 DEF PartsFold

\* The equation of a fold over w.
SolvesLeft(g, w, V, base, step) ==
    /\ g[{}] = base
    /\ \A R \in SUBSET DOMAIN w :
           R # {} /\ g[R \ {Max(R)}] \in V => g[R] = step[<<g[R \ {Max(R)}], w[Max(R)]>>]

\* What solves the equation of a fold over w is that fold.
LEMMA LeftFoldIs ==
    ASSUME NEW E, NEW V, NEW base, NEW step, NEW w, Foldable(w, E, V, base, step),
           NEW g, SolvesLeft(g, w, V, base, step)
    PROVE  g[DOMAIN w] = LeftFold(w, V, base, step)
<1> DEFINE h == PartsFold(w, V, base, step)
           pick == LastOne(w)
           at == StepAt(step, w, V)
<1>1. /\ IsFiniteSet(DOMAIN w) /\ IsFold(h, DOMAIN w, V, base, at, pick) /\ Picks(pick, DOMAIN w)
      /\ \A R \in SUBSET DOMAIN w : R # {} => pick[R] = Max(R) /\ Max(R) \in R
      /\ \A v \in V, i \in DOMAIN w : at[<<v, i>>] = step[<<v, w[i]>>]
  BY PartsFolded
<1> HIDE DEF h, pick, at
<1>2. ASSUME NEW R \in SUBSET DOMAIN w, R # {}, g[R \ {pick[R]}] \in V
      PROVE  g[R] = at[<<g[R \ {pick[R]}], pick[R]>>]
  <2>1. pick[R] = Max(R) /\ Max(R) \in DOMAIN w
    BY <1>1, <1>2
  <2>2. g[R] = step[<<g[R \ {Max(R)}], w[Max(R)]>>]
    BY <1>2, <2>1 DEF SolvesLeft
  <2> QED BY <1>1, <1>2, <2>1, <2>2
<1>3. Solves(g, DOMAIN w, V, base, at, pick)
  BY <1>2 DEF Solves, SolvesLeft
<1>4. \A R \in SUBSET DOMAIN w : g[R] = h[R]
  BY <1>1, <1>3, FoldUnique
<1> QED BY <1>4 DEF LeftFold, h

\* h folds step over the positions of w.
IsLeftFold(h, w, V, base, step) ==
    /\ h \in [SUBSET DOMAIN w -> V] /\ h[{}] = base
    /\ \A R \in SUBSET DOMAIN w : R # {} => Max(R) \in R /\ h[R] = step[<<h[R \ {Max(R)}], w[Max(R)]>>]

\* The fold over the positions solves the equation.
LEMMA PartsSolve ==
    ASSUME NEW E, NEW V, NEW base, NEW step, NEW w, Foldable(w, E, V, base, step)
    PROVE  IsLeftFold(PartsFold(w, V, base, step), w, V, base, step)
<1> DEFINE h == PartsFold(w, V, base, step)
           pick == LastOne(w)
           at == StepAt(step, w, V)
<1>1. /\ IsFold(h, DOMAIN w, V, base, at, pick)
      /\ \A R \in SUBSET DOMAIN w : R # {} => pick[R] = Max(R) /\ Max(R) \in R
      /\ \A v \in V, i \in DOMAIN w : at[<<v, i>>] = step[<<v, w[i]>>]
  BY PartsFolded
<1> HIDE DEF h, pick, at
<1>2. h \in [SUBSET DOMAIN w -> V] /\ h[{}] = base
  BY <1>1 DEF IsFold
<1>3. ASSUME NEW R \in SUBSET DOMAIN w, R # {}
      PROVE  Max(R) \in R /\ h[R] = step[<<h[R \ {Max(R)}], w[Max(R)]>>]
  <2>1. pick[R] = Max(R) /\ Max(R) \in R /\ Max(R) \in DOMAIN w /\ R \ {Max(R)} \in SUBSET DOMAIN w
    BY <1>1, <1>3
  <2>2. h[R] = at[<<h[R \ {pick[R]}], pick[R]>>]
    BY <1>1, <1>3 DEF IsFold
  <2>3. h[R \ {Max(R)}] \in V
    BY <1>2, <2>1
  <2> QED BY <1>1, <2>1, <2>2, <2>3
<1>4. IsLeftFold(h, w, V, base, step)
  BY <1>2, <1>3 DEF IsLeftFold
<1> QED BY <1>4 DEF h

\* A fold yields a value of its type; over the empty sequence it is the base.
LEMMA LeftFoldType ==
    ASSUME NEW E, NEW V, NEW base, NEW step, NEW w, Foldable(w, E, V, base, step)
    PROVE  LeftFold(w, V, base, step) \in V /\ (w = <<>> => LeftFold(w, V, base, step) = base)
<1> DEFINE h == PartsFold(w, V, base, step)
<1>4. IsLeftFold(h, w, V, base, step)
  BY PartsSolve
<1> HIDE DEF h
<1>1. h \in [SUBSET DOMAIN w -> V] /\ h[{}] = base
  BY <1>4 DEF IsLeftFold
<1>2. w = <<>> => DOMAIN w = {}
  OBVIOUS
<1>3. h[DOMAIN w] \in V /\ (w = <<>> => h[DOMAIN w] = base)
  BY <1>1, <1>2
<1> QED BY <1>3 DEF LeftFold, h

\* One element more is one step more.
LEMMA LeftFoldAppend ==
    ASSUME NEW E, NEW V, NEW base, NEW step, NEW w, Foldable(w, E, V, base, step), NEW e \in E
    PROVE  LeftFold(Append(w, e), V, base, step) = step[<<LeftFold(w, V, base, step), e>>]
<1> DEFINE z == Append(w, e)
           h == PartsFold(z, V, base, step)
           n == Len(w)
<1>1. /\ n \in Nat /\ DOMAIN w = 1 .. n /\ z \in Seq(E) /\ DOMAIN z = 1 .. (n + 1) /\ z[n + 1] = e
      /\ \A i \in 1 .. n : z[i] = w[i]
  <2>1. w \in Seq(E)
    BY DEF Foldable
  <2>2. z \in Seq(E) /\ Len(z) = n + 1 /\ z[n + 1] = e /\ \A i \in 1 .. n : z[i] = w[i]
    BY <2>1, AppendProperties
  <2>3. n \in Nat /\ DOMAIN w = 1 .. n
    BY <2>1, LenProperties
  <2>4. DOMAIN z = 1 .. Len(z)
    BY <2>2, LenProperties
  <2> QED BY <2>2, <2>3, <2>4
<1> HIDE DEF n, z
<1>2. Foldable(z, E, V, base, step)
  BY <1>1 DEF Foldable
<1>12. IsLeftFold(h, z, V, base, step)
  BY <1>2, PartsSolve
<1> HIDE DEF h
<1>3. /\ h[{}] = base
      /\ \A R \in SUBSET DOMAIN z : R # {} => Max(R) \in R /\ h[R] = step[<<h[R \ {Max(R)}], z[Max(R)]>>]
  BY <1>12 DEF IsLeftFold
<1>4. ASSUME NEW R \in SUBSET DOMAIN w, R # {} PROVE h[R] = step[<<h[R \ {Max(R)}], w[Max(R)]>>]
  <2>1. R \in SUBSET DOMAIN z
    BY <1>1
  <2>2. Max(R) \in 1 .. n /\ h[R] = step[<<h[R \ {Max(R)}], z[Max(R)]>>]
    BY <1>1, <1>3, <1>4, <2>1
  <2> QED BY <1>1, <2>2
<1>5. SolvesLeft(h, w, V, base, step)
  BY <1>3, <1>4 DEF SolvesLeft
<1>6. h[DOMAIN w] = LeftFold(w, V, base, step)
  BY <1>5, LeftFoldIs
<1> DEFINE D == DOMAIN z
<1>7. D \in SUBSET (1 .. (n + 1)) /\ D # {} /\ n + 1 \in D
  <2>1. D = 1 .. (n + 1)
    BY <1>1
  <2>2. n + 1 \in 1 .. (n + 1)
    BY <1>1
  <2> HIDE DEF D
  <2> QED BY <2>1, <2>2
<1>8. Max(D) = n + 1
  <2>1. Max(D) \in D /\ Max(D) >= n + 1
    <3> HIDE DEF D
    <3>1. n + 1 \in Nat
      BY <1>1
    <3> QED BY <1>7, <3>1, MaxIn
  <2> QED BY <1>1, <2>1
<1>9. D \ {n + 1} = DOMAIN w
  BY <1>1
<1>10. h[D] = step[<<h[D \ {Max(D)}], z[Max(D)]>>]
  BY <1>3, <1>7
<1>11. h[D] = step[<<h[DOMAIN w], e>>]
  BY <1>1, <1>8, <1>9, <1>10
<1> QED BY <1>6, <1>11 DEF LeftFold, h, z

-----------------------------------------------------------------------------
(* The elements of a sequence that are in a set.                           *)

KeepStep(E, T) == [p \in Seq(E) \X E |-> IF p[2] \in T THEN Append(p[1], p[2]) ELSE p[1]]
Filter(w, E, T) == LeftFold(w, Seq(E), <<>>, KeepStep(E, T))

\* A filter is a fold, and filters element by element.
LEMMA FilterSteps ==
    ASSUME NEW E, NEW T, NEW w \in Seq(E)
    PROVE  /\ Foldable(w, E, Seq(E), <<>>, KeepStep(E, T))
           /\ Filter(w, E, T) \in Seq(E)
           /\ Filter(<<>>, E, T) = <<>>
           /\ \A e \in E : Filter(Append(w, e), E, T) = IF e \in T THEN Append(Filter(w, E, T), e)
                                                        ELSE Filter(w, E, T)
<1>1. <<>> \in Seq(E) /\ \A s \in Seq(E), e \in E : Append(s, e) \in Seq(E)
  BY EmptySeq, AppendProperties
<1>2. /\ KeepStep(E, T) \in [Seq(E) \X E -> Seq(E)]
      /\ \A s \in Seq(E), e \in E : KeepStep(E, T)[<<s, e>>] = IF e \in T THEN Append(s, e) ELSE s
  BY <1>1 DEF KeepStep
<1>3. Foldable(w, E, Seq(E), <<>>, KeepStep(E, T)) /\ Foldable(<<>>, E, Seq(E), <<>>, KeepStep(E, T))
  BY <1>1, <1>2 DEF Foldable
<1>4. Filter(w, E, T) \in Seq(E) /\ Filter(<<>>, E, T) = <<>>
  BY <1>3, LeftFoldType DEF Filter
<1>5. ASSUME NEW e \in E
      PROVE  Filter(Append(w, e), E, T) = IF e \in T THEN Append(Filter(w, E, T), e) ELSE Filter(w, E, T)
  <2>1. Filter(Append(w, e), E, T) = KeepStep(E, T)[<<Filter(w, E, T), e>>]
    BY <1>3, LeftFoldAppend DEF Filter
  <2> QED BY <1>2, <1>4, <2>1
<1> QED BY <1>3, <1>4, <1>5

\* What is filtered is in the set.
LEMMA FilterIn ==
    ASSUME NEW E, NEW T, NEW w \in Seq(E)
    PROVE  Filter(w, E, T) \in Seq(E \cap T)
<1> DEFINE Q == {s \in Seq(E) : Filter(s, E, T) \in Seq(E \cap T)}
<1>1. <<>> \in Q
  BY FilterSteps, EmptySeq
<1>2. ASSUME NEW s \in Seq(E), NEW e \in E, s \in Q PROVE Append(s, e) \in Q
  <2>1. Append(s, e) \in Seq(E)
    BY AppendProperties
  <2>2. Filter(Append(s, e), E, T) = IF e \in T THEN Append(Filter(s, E, T), e) ELSE Filter(s, E, T)
    BY FilterSteps
  <2>3. e \in T => Append(Filter(s, E, T), e) \in Seq(E \cap T)
    BY <1>2, AppendProperties
  <2> QED BY <1>2, <2>1, <2>2, <2>3
<1> HIDE DEF Q
<1>3. Seq(E) \subseteq Q
  BY <1>1, <1>2, SeqInd
<1> QED BY <1>3 DEF Q

\* A sequence of elements of the set is filtered to itself.
LEMMA FilterAll ==
    ASSUME NEW E, NEW T, NEW w \in Seq(E \cap T)
    PROVE  Filter(w, E, T) = w
<1> DEFINE F == E \cap T
           Q == {s \in Seq(F) : Filter(s, E, T) = s}
<1>1. <<>> \in Q
  BY FilterSteps, EmptySeq
<1>2. ASSUME NEW s \in Seq(F), NEW e \in F, s \in Q PROVE Append(s, e) \in Q
  <2>1. Append(s, e) \in Seq(F) /\ s \in Seq(E) /\ e \in E /\ e \in T
    BY AppendProperties, SeqMonotonic
  <2>2. Filter(Append(s, e), E, T) = Append(Filter(s, E, T), e)
    BY <2>1, FilterSteps
  <2> QED BY <1>2, <2>1, <2>2
<1> HIDE DEF Q
<1>3. Seq(F) \subseteq Q
  <2> HIDE DEF F
  <2> QED BY <1>1, <1>2, SeqInd
<1> QED BY <1>3 DEF Q

\* Filtering twice is filtering with the smaller set.
LEMMA FilterTwice ==
    ASSUME NEW E, NEW T, NEW U \in SUBSET T, NEW w \in Seq(E)
    PROVE  Filter(Filter(w, E, T), E, U) = Filter(w, E, U)
<1> DEFINE Q == {s \in Seq(E) : Filter(Filter(s, E, T), E, U) = Filter(s, E, U)}
<1>1. <<>> \in Q
  BY FilterSteps, EmptySeq
<1>2. ASSUME NEW s \in Seq(E), NEW e \in E, s \in Q PROVE Append(s, e) \in Q
  <2> DEFINE f == Filter(s, E, T)
  <2>1. Append(s, e) \in Seq(E) /\ f \in Seq(E) /\ Filter(f, E, U) = Filter(s, E, U)
    BY <1>2, AppendProperties, FilterSteps
  <2>2. /\ Filter(Append(s, e), E, T) = IF e \in T THEN Append(f, e) ELSE f
        /\ Filter(Append(s, e), E, U) = IF e \in U THEN Append(Filter(s, E, U), e) ELSE Filter(s, E, U)
    BY FilterSteps
  <2> HIDE DEF f
  <2>3. Filter(Append(f, e), E, U) = IF e \in U THEN Append(Filter(f, E, U), e) ELSE Filter(f, E, U)
    BY <2>1, FilterSteps
  <2>4. e \in U => e \in T
    OBVIOUS
  <2> QED BY <2>1, <2>2, <2>3, <2>4
<1> HIDE DEF Q
<1>3. Seq(E) \subseteq Q
  BY <1>1, <1>2, SeqInd
<1> QED BY <1>3 DEF Q

\* Appending to the second part is appending to the whole.
LEMMA ConcatAppend ==
    ASSUME NEW E, NEW u \in Seq(E), NEW w \in Seq(E), NEW e \in E
    PROVE  u \o Append(w, e) = Append(u \o w, e)
<1>1. <<e>> \in Seq(E)
  OBVIOUS
<1>2. Append(w, e) = w \o <<e>> /\ Append(u \o w, e) = (u \o w) \o <<e>>
  BY AppendIsConcat, ConcatProperties
<1>3. (u \o w) \o <<e>> = u \o (w \o <<e>>)
  BY <1>1, ConcatAssociative
<1> QED BY <1>2, <1>3

\* The parts of a sequence are filtered one by one.
LEMMA FilterConcat ==
    ASSUME NEW E, NEW T, NEW u \in Seq(E), NEW w \in Seq(E)
    PROVE  Filter(u \o w, E, T) = Filter(u, E, T) \o Filter(w, E, T)
<1> DEFINE Q == {s \in Seq(E) : Filter(u \o s, E, T) = Filter(u, E, T) \o Filter(s, E, T)}
<1>1. <<>> \in Q
  <2>1. Filter(u, E, T) \in Seq(E) /\ Filter(<<>>, E, T) = <<>>
    BY FilterSteps
  <2>2. u \o <<>> = u /\ Filter(u, E, T) \o <<>> = Filter(u, E, T)
    BY <2>1, ConcatEmptySeq
  <2>3. <<>> \in Seq(E)
    BY EmptySeq
  <2> QED BY <2>1, <2>2, <2>3
<1>2. ASSUME NEW s \in Seq(E), NEW e \in E, s \in Q PROVE Append(s, e) \in Q
  <2> DEFINE a == Filter(u, E, T)
             b == Filter(s, E, T)
             us == u \o s
  <2>1. Append(s, e) \in Seq(E) /\ a \in Seq(E) /\ b \in Seq(E) /\ us \in Seq(E) /\ Filter(us, E, T) = a \o b
    BY <1>2, AppendProperties, FilterSteps, ConcatProperties
  <2>2. Filter(Append(s, e), E, T) = IF e \in T THEN Append(b, e) ELSE b
    BY FilterSteps
  <2>3. u \o Append(s, e) = Append(us, e)
    BY ConcatAppend
  <2>7. us \in Seq(E)
    BY <2>1
  <2> HIDE DEF us
  <2>4. Filter(Append(us, e), E, T) = IF e \in T THEN Append(Filter(us, E, T), e) ELSE Filter(us, E, T)
    BY <2>7, FilterSteps
  <2> HIDE DEF a, b
  <2>5. a \o Append(b, e) = Append(a \o b, e)
    BY <2>1, ConcatAppend
  <2>6. Filter(u \o Append(s, e), E, T) = a \o Filter(Append(s, e), E, T)
    BY <2>1, <2>2, <2>3, <2>4, <2>5
  <2> QED BY <2>1, <2>6 DEF a
<1> HIDE DEF Q
<1>3. Seq(E) \subseteq Q
  BY <1>1, <1>2, SeqInd
<1> QED BY <1>3 DEF Q

-----------------------------------------------------------------------------
(* The weight of a sequence: the sum of the weights of its elements.       *)

AddStep(E, f) == [p \in Nat \X E |-> p[1] + f[p[2]]]
Weight(w, E, f) == LeftFold(w, Nat, 0, AddStep(E, f))

\* Weights add up element by element.
LEMMA WeightSteps ==
    ASSUME NEW E, NEW f \in [E -> Nat], NEW w \in Seq(E)
    PROVE  /\ Foldable(w, E, Nat, 0, AddStep(E, f))
           /\ Weight(w, E, f) \in Nat
           /\ Weight(<<>>, E, f) = 0
           /\ \A e \in E : Weight(Append(w, e), E, f) = Weight(w, E, f) + f[e]
<1>1. <<>> \in Seq(E)
  BY EmptySeq
<1>2. /\ AddStep(E, f) \in [Nat \X E -> Nat]
      /\ \A n \in Nat, e \in E : AddStep(E, f)[<<n, e>>] = n + f[e]
  BY DEF AddStep
<1>3. Foldable(w, E, Nat, 0, AddStep(E, f)) /\ Foldable(<<>>, E, Nat, 0, AddStep(E, f))
  BY <1>1, <1>2 DEF Foldable
<1>4. Weight(w, E, f) \in Nat /\ Weight(<<>>, E, f) = 0
  BY <1>3, LeftFoldType DEF Weight
<1>5. ASSUME NEW e \in E PROVE Weight(Append(w, e), E, f) = Weight(w, E, f) + f[e]
  <2>1. Weight(Append(w, e), E, f) = AddStep(E, f)[<<Weight(w, E, f), e>>]
    BY <1>3, LeftFoldAppend DEF Weight
  <2> QED BY <1>2, <1>4, <2>1
<1> QED BY <1>3, <1>4, <1>5

\* The weight of a sequence is the sum of those of its parts.
LEMMA WeightConcat ==
    ASSUME NEW E, NEW f \in [E -> Nat], NEW u \in Seq(E), NEW w \in Seq(E)
    PROVE  Weight(u \o w, E, f) = Weight(u, E, f) + Weight(w, E, f)
<1> DEFINE Q == {s \in Seq(E) : Weight(u \o s, E, f) = Weight(u, E, f) + Weight(s, E, f)}
<1>1. <<>> \in Q
  <2>1. Weight(u, E, f) \in Nat /\ Weight(<<>>, E, f) = 0
    BY WeightSteps
  <2>2. u \o <<>> = u /\ <<>> \in Seq(E)
    BY ConcatEmptySeq, EmptySeq
  <2> QED BY <2>1, <2>2
<1>2. ASSUME NEW s \in Seq(E), NEW e \in E, s \in Q PROVE Append(s, e) \in Q
  <2> DEFINE us == u \o s
  <2>1. Append(s, e) \in Seq(E) /\ us \in Seq(E) /\ Weight(us, E, f) = Weight(u, E, f) + Weight(s, E, f)
    BY <1>2, AppendProperties, ConcatProperties
  <2>2. us \in Seq(E)
    BY <2>1
  <2>3. u \o Append(s, e) = Append(us, e)
    BY ConcatAppend
  <2> HIDE DEF us
  <2>4. Weight(Append(us, e), E, f) = Weight(us, E, f) + f[e]
    BY <2>2, WeightSteps
  <2>5. /\ Weight(Append(s, e), E, f) = Weight(s, E, f) + f[e]
        /\ Weight(s, E, f) \in Nat /\ Weight(u, E, f) \in Nat /\ f[e] \in Nat
    BY WeightSteps
  <2>6. Weight(u \o Append(s, e), E, f) = Weight(u, E, f) + Weight(Append(s, e), E, f)
    BY <2>1, <2>3, <2>4, <2>5
  <2> QED BY <2>1, <2>6
<1> HIDE DEF Q
<1>3. Seq(E) \subseteq Q
  BY <1>1, <1>2, SeqInd
<1> QED BY <1>3 DEF Q

\* A filter never adds weight.
LEMMA WeightFiltered ==
    ASSUME NEW E, NEW T, NEW f \in [E -> Nat], NEW w \in Seq(E)
    PROVE  Weight(Filter(w, E, T), E, f) <= Weight(w, E, f)
<1> DEFINE Q == {s \in Seq(E) : Weight(Filter(s, E, T), E, f) <= Weight(s, E, f)}
<1>1. <<>> \in Q
  <2>1. Filter(<<>>, E, T) = <<>> /\ <<>> \in Seq(E)
    BY FilterSteps, EmptySeq
  <2>2. Weight(<<>>, E, f) = 0
    BY <2>1, WeightSteps
  <2> QED BY <2>1, <2>2
<1>2. ASSUME NEW s \in Seq(E), NEW e \in E, s \in Q PROVE Append(s, e) \in Q
  <2> DEFINE t == Filter(s, E, T)
  <2>1. Append(s, e) \in Seq(E) /\ t \in Seq(E) /\ Weight(t, E, f) <= Weight(s, E, f)
    BY <1>2, AppendProperties, FilterSteps
  <2>2. Filter(Append(s, e), E, T) = IF e \in T THEN Append(t, e) ELSE t
    BY FilterSteps
  <2>3. t \in Seq(E)
    BY <2>1
  <2> HIDE DEF t
  <2>4. /\ Weight(Append(s, e), E, f) = Weight(s, E, f) + f[e] /\ Weight(Append(t, e), E, f) = Weight(t, E, f) + f[e]
        /\ Weight(s, E, f) \in Nat /\ Weight(t, E, f) \in Nat /\ f[e] \in Nat
    BY <2>3, WeightSteps
  <2>5. Weight(Filter(Append(s, e), E, T), E, f) <= Weight(Append(s, e), E, f)
    <3>1. CASE e \in T
      BY <2>1, <2>2, <2>4, <3>1
    <3>2. CASE e \notin T
      BY <2>1, <2>2, <2>4, <3>2
    <3> QED BY <3>1, <3>2
  <2> QED BY <2>1, <2>5
<1> HIDE DEF Q
<1>3. Seq(E) \subseteq Q
  BY <1>1, <1>2, SeqInd
<1> QED BY <1>3 DEF Q

\* Where every element weighs one, the weight is the length.
LEMMA WeightOne ==
    ASSUME NEW E, NEW w \in Seq(E)
    PROVE  Weight(w, E, [e \in E |-> 1]) = Len(w)
<1> DEFINE f == [e \in E |-> 1]
           Q == {s \in Seq(E) : Weight(s, E, f) = Len(s)}
<1>4. f \in [E -> Nat] /\ \A e \in E : f[e] = 1
  OBVIOUS
<1> HIDE DEF f
<1>1. <<>> \in Q
  BY <1>4, WeightSteps, EmptySeq
<1>2. ASSUME NEW s \in Seq(E), NEW e \in E, s \in Q PROVE Append(s, e) \in Q
  <2>1. Weight(Append(s, e), E, f) = Weight(s, E, f) + f[e]
    BY <1>4, WeightSteps
  <2>2. Append(s, e) \in Seq(E) /\ Len(Append(s, e)) = Len(s) + 1
    BY AppendProperties
  <2> QED BY <1>2, <1>4, <2>1, <2>2
<1> HIDE DEF Q
<1>3. Seq(E) \subseteq Q
  BY <1>1, <1>2, SeqInd
<1> QED BY <1>3 DEF Q, f

-----------------------------------------------------------------------------
(* The sum of a function over a finite set.                                *)

SumStep(S, f) == [p \in Int \X S |-> f[p[2]] + p[1]]
AnyOne(S) == [R \in SUBSET S |-> CHOOSE x \in R : TRUE]
PartsSum(S, f) == CHOOSE h : IsFold(h, S, Int, 0, SumStep(S, f), AnyOne(S))
SumOver(S, f) == PartsSum(S, f)[S]

\* The sums over the subsets.
IsSum(h, S, f) ==
    /\ h \in [SUBSET S -> Int] /\ h[{}] = 0
    /\ \A R \in SUBSET S : R # {} => /\ (CHOOSE x \in R : TRUE) \in R
                                     /\ h[R] = f[CHOOSE x \in R : TRUE] + h[R \ {CHOOSE x \in R : TRUE}]

\* There are such sums.
LEMMA PartsSummed ==
    ASSUME NEW S, IsFiniteSet(S), NEW f \in [S -> Int]
    PROVE  IsSum(PartsSum(S, f), S, f)
<1> DEFINE h == PartsSum(S, f)
           pick == AnyOne(S)
           step == SumStep(S, f)
<1>1. /\ step \in [Int \X S -> Int]
      /\ \A n \in Int, x \in S : step[<<n, x>>] = f[x] + n
  BY DEF SumStep
<1>2. \A R \in SUBSET S : R # {} => pick[R] = (CHOOSE x \in R : TRUE) /\ pick[R] \in R
  BY DEF AnyOne
<1>3. Picks(pick, S)
  BY <1>2 DEF Picks
<1> HIDE DEF step, pick
<1>9. 0 \in Int
  OBVIOUS
<1>4. \E g : IsFold(g, S, Int, 0, step, pick)
  BY <1>1, <1>3, <1>9, FoldExists, Zenon
<1>5. IsFold(h, S, Int, 0, step, pick)
  BY <1>4 DEF PartsSum, step, pick
<1> HIDE DEF h
<1>6. h \in [SUBSET S -> Int] /\ h[{}] = 0
  BY <1>5 DEF IsFold
<1>7. ASSUME NEW R \in SUBSET S, R # {}
      PROVE  pick[R] \in R /\ h[R] = f[pick[R]] + h[R \ {pick[R]}]
  <2>1. h[R] = step[<<h[R \ {pick[R]}], pick[R]>>]
    BY <1>5, <1>7 DEF IsFold
  <2>2. pick[R] \in R /\ pick[R] \in S /\ h[R \ {pick[R]}] \in Int
    BY <1>2, <1>6, <1>7
  <2> QED BY <1>1, <2>1, <2>2
<1>8. IsSum(h, S, f)
  BY <1>2, <1>6, <1>7 DEF IsSum
<1> QED BY <1>8 DEF h

\* What solves the equation of the sums is the sum.
LEMMA SumIs ==
    ASSUME NEW S, IsFiniteSet(S), NEW f \in [S -> Int], NEW c, c[{}] = 0,
           \A R \in SUBSET S : R # {} => c[R] = f[CHOOSE x \in R : TRUE] + c[R \ {CHOOSE x \in R : TRUE}]
    PROVE  c[S] = SumOver(S, f)
<1> DEFINE h == PartsSum(S, f)
           Q == {R \in SUBSET S : c[R] = h[R]}
<1>1. IsSum(h, S, f)
  BY PartsSummed
<1> HIDE DEF h
<1>2. {} \in Q
  BY <1>1 DEF IsSum
<1>3. ASSUME NEW R \in SUBSET S, R # {}, \A x \in R : R \ {x} \in Q PROVE R \in Q
  <2> DEFINE x == CHOOSE x \in R : TRUE
  <2>1. x \in R /\ h[R] = f[x] + h[R \ {x}]
    BY <1>1, <1>3 DEF IsSum
  <2>2. c[R] = f[x] + c[R \ {x}]
    BY <1>3
  <2> HIDE DEF x
  <2> QED BY <1>3, <2>1, <2>2
<1> HIDE DEF Q
<1>4. S \in Q
  BY <1>2, <1>3, SetInd
<1> QED BY <1>4 DEF Q, SumOver, h

\* Changing the function at one element changes the sum by as much.
LEMMA SumUpdate ==
    ASSUME NEW S, IsFiniteSet(S), NEW f \in [S -> Int], NEW g \in [S -> Int], NEW z \in S,
           \A y \in S : y # z => g[y] = f[y]
    PROVE  SumOver(S, g) = SumOver(S, f) + g[z] - f[z]
<1> DEFINE hf == PartsSum(S, f)
           hg == PartsSum(S, g)
           d == g[z] - f[z]
           Q == {R \in SUBSET S : hg[R] = hf[R] + IF z \in R THEN d ELSE 0}
<1>1. IsSum(hf, S, f) /\ IsSum(hg, S, g)
  BY PartsSummed
<1>2. d \in Int
  OBVIOUS
<1> HIDE DEF hf, hg
<1>3. {} \in Q
  BY <1>1 DEF IsSum
<1>4. ASSUME NEW R \in SUBSET S, R # {}, \A x \in R : R \ {x} \in Q PROVE R \in Q
  <2> DEFINE x == CHOOSE x \in R : TRUE
  <2>1. x \in R /\ hf[R] = f[x] + hf[R \ {x}] /\ hg[R] = g[x] + hg[R \ {x}]
    BY <1>1, <1>4 DEF IsSum
  <2> HIDE DEF x
  <2>2. hg[R \ {x}] = hf[R \ {x}] + IF z \in R \ {x} THEN d ELSE 0
    BY <1>4, <2>1
  <2>3. hf[R \ {x}] \in Int /\ f[x] \in Int /\ g[x] \in Int
    BY <1>1, <2>1 DEF IsSum
  <2>4. CASE x = z
    BY <2>1, <2>2, <2>3, <2>4
  <2>5. CASE x # z
    <3>1. g[x] = f[x] /\ (z \in R \ {x} <=> z \in R)
      BY <2>1, <2>5
    <3> QED BY <1>2, <2>1, <2>2, <2>3, <3>1
  <2> QED BY <2>4, <2>5
<1> HIDE DEF Q
<1>5. S \in Q
  BY <1>3, <1>4, SetInd
<1>6. hg[S] = hf[S] + d /\ hf[S] \in Int
  BY <1>1, <1>5 DEF Q, IsSum
<1> QED BY <1>6 DEF SumOver, hf, hg

\* A sum of naturals is at least each of them, and zero where they all are.
LEMMA SumBounds ==
    ASSUME NEW S, IsFiniteSet(S), NEW f \in [S -> Nat]
    PROVE  /\ SumOver(S, f) \in Nat
           /\ \A z \in S : f[z] <= SumOver(S, f)
           /\ (\A z \in S : f[z] = 0) => SumOver(S, f) = 0
<1> DEFINE h == PartsSum(S, f)
           Q == {R \in SUBSET S : /\ h[R] \in Nat /\ \A z \in R : f[z] <= h[R]
                                  /\ (\A z \in R : f[z] = 0) => h[R] = 0}
<1>1. IsSum(h, S, f)
  BY PartsSummed
<1> HIDE DEF h
<1>2. {} \in Q
  BY <1>1 DEF IsSum
<1>3. ASSUME NEW R \in SUBSET S, R # {}, \A x \in R : R \ {x} \in Q PROVE R \in Q
  <2> DEFINE x == CHOOSE x \in R : TRUE
  <2>1. x \in R /\ h[R] = f[x] + h[R \ {x}]
    BY <1>1, <1>3 DEF IsSum
  <2> HIDE DEF x
  <2>2. /\ h[R \ {x}] \in Nat /\ \A z \in R \ {x} : f[z] <= h[R \ {x}]
        /\ (\A z \in R \ {x} : f[z] = 0) => h[R \ {x}] = 0
    BY <1>3, <2>1
  <2>3. \A z \in R : f[z] \in Nat
    OBVIOUS
  <2>4. h[R] \in Nat /\ (\A z \in R : f[z] = 0) => h[R] = 0
    BY <2>1, <2>2, <2>3
  <2>5. ASSUME NEW z \in R PROVE f[z] <= h[R]
    BY <2>1, <2>2, <2>3
  <2>6. h[R] \in Nat
    BY <2>1, <2>2, <2>3
  <2> QED BY <2>4, <2>5, <2>6
<1> HIDE DEF Q
<1>4. S \in Q
  BY <1>2, <1>3, SetInd
<1> QED BY <1>4 DEF Q, SumOver, h

\* A sum may be taken in any order.
LEMMA SumRemove ==
    ASSUME NEW S, IsFiniteSet(S), NEW f \in [S -> Int], NEW h, IsSum(h, S, f), NEW T \in SUBSET S, NEW z \in T
    PROVE  h[T] = f[z] + h[T \ {z}]
<1> DEFINE Q == {R \in SUBSET S : \A x \in R : h[R] = f[x] + h[R \ {x}]}
<1>1. {} \in Q
  OBVIOUS
<1>2. ASSUME NEW R \in SUBSET S, R # {}, \A x \in R : R \ {x} \in Q PROVE R \in Q
  <2> DEFINE y == CHOOSE x \in R : TRUE
  <2>1. y \in R /\ h[R] = f[y] + h[R \ {y}]
    BY <1>2 DEF IsSum
  <2> HIDE DEF y
  <2>2. ASSUME NEW x \in R, x # y PROVE h[R] = f[x] + h[R \ {x}]
    <3>1. h[R \ {y}] = f[x] + h[(R \ {y}) \ {x}] /\ h[R \ {x}] = f[y] + h[(R \ {x}) \ {y}]
      BY <1>2, <2>1, <2>2
    <3>2. (R \ {y}) \ {x} = (R \ {x}) \ {y} /\ (R \ {x}) \ {y} \in SUBSET S
      OBVIOUS
    <3>3. h[(R \ {x}) \ {y}] \in Int /\ f[x] \in Int /\ f[y] \in Int
      BY <2>1, <3>2 DEF IsSum
    <3> DEFINE w == h[(R \ {x}) \ {y}]
               a == f[x]
               b == f[y]
               p == h[R \ {x}]
               q == h[R \ {y}]
    <3>4. w \in Int /\ a \in Int /\ b \in Int /\ q = a + w /\ p = b + w /\ h[R] = b + q
      BY <2>1, <3>1, <3>2, <3>3
    <3> HIDE DEF w, a, b, p, q
    <3>5. h[R] = a + p
      BY <3>4
    <3> QED BY <3>5 DEF a, p
  <2> QED BY <2>1, <2>2
<1> HIDE DEF Q
<1>3. T \in Q
  BY <1>1, <1>2, SetInd
<1> QED BY <1>3 DEF Q

\* One element more adds its own.
LEMMA SumExtend ==
    ASSUME NEW S, IsFiniteSet(S), NEW f \in [S -> Int], NEW z, z \notin S, NEW g \in [S \cup {z} -> Int],
           \A y \in S : g[y] = f[y]
    PROVE  SumOver(S \cup {z}, g) = SumOver(S, f) + g[z]
<1> DEFINE T == S \cup {z}
           hf == PartsSum(S, f)
           hg == PartsSum(T, g)
           Q == {R \in SUBSET S : hg[R] = hf[R]}
<1>1. IsFiniteSet(T) /\ g \in [T -> Int]
  BY FS_AddElement
<1> HIDE DEF T
<1>2. IsSum(hf, S, f) /\ IsSum(hg, T, g)
  BY <1>1, PartsSummed
<1> HIDE DEF hf, hg
<1>3. {} \in Q
  BY <1>2 DEF IsSum
<1>4. ASSUME NEW R \in SUBSET S, R # {}, \A x \in R : R \ {x} \in Q PROVE R \in Q
  <2> DEFINE x == CHOOSE x \in R : TRUE
  <2>1. R \in SUBSET T
    BY DEF T
  <2>2. x \in R /\ hf[R] = f[x] + hf[R \ {x}] /\ hg[R] = g[x] + hg[R \ {x}]
    BY <1>2, <1>4, <2>1 DEF IsSum
  <2> HIDE DEF x
  <2> QED BY <1>4, <2>2
<1> HIDE DEF Q
<1>5. S \in Q
  BY <1>3, <1>4, SetInd
<1>6. T \in SUBSET T /\ z \in T /\ T \ {z} = S
  BY DEF T
<1>7. hg[T] = g[z] + hg[T \ {z}]
  BY <1>1, <1>2, <1>6, SumRemove
<1>8. hg[T] = g[z] + hf[S] /\ hf[S] \in Int /\ g[z] \in Int
  BY <1>1, <1>2, <1>5, <1>6, <1>7 DEF Q, IsSum
<1>9. hg[T] = hf[S] + g[z]
  BY <1>8
<1> QED BY <1>9 DEF SumOver, hf, hg, T

-----------------------------------------------------------------------------
(* Sequences that replace each element of another.                         *)

JoinStep(E, V, f) == [p \in Seq(V) \X E |-> p[1] \o f[p[2]]]
Joined(w, E, V, f) == LeftFold(w, Seq(V), <<>>, JoinStep(E, V, f))

\* One element more adds its sequence.
JoinsOn(w, E, V, f, e) == Joined(Append(w, e), E, V, f) = Joined(w, E, V, f) \o f[e]

\* They are joined one after the other.
LEMMA JoinSteps ==
    ASSUME NEW E, NEW V, NEW f \in [E -> Seq(V)], NEW w \in Seq(E)
    PROVE  /\ Foldable(w, E, Seq(V), <<>>, JoinStep(E, V, f))
           /\ Joined(w, E, V, f) \in Seq(V)
           /\ Joined(<<>>, E, V, f) = <<>>
           /\ \A e \in E : JoinsOn(w, E, V, f, e)
<1>1. <<>> \in Seq(E) /\ <<>> \in Seq(V)
  BY EmptySeq
<1>2. /\ JoinStep(E, V, f) \in [Seq(V) \X E -> Seq(V)]
      /\ \A n \in Seq(V), e \in E : JoinStep(E, V, f)[<<n, e>>] = n \o f[e]
  <2>1. \A n \in Seq(V), e \in E : n \o f[e] \in Seq(V)
    BY ConcatProperties
  <2> QED BY <2>1 DEF JoinStep
<1>3. Foldable(w, E, Seq(V), <<>>, JoinStep(E, V, f)) /\ Foldable(<<>>, E, Seq(V), <<>>, JoinStep(E, V, f))
  BY <1>1, <1>2 DEF Foldable
<1>4. Joined(w, E, V, f) \in Seq(V) /\ Joined(<<>>, E, V, f) = <<>>
  BY <1>3, LeftFoldType DEF Joined
<1>5. ASSUME NEW e \in E PROVE JoinsOn(w, E, V, f, e)
  <2>1. Joined(Append(w, e), E, V, f) = JoinStep(E, V, f)[<<Joined(w, E, V, f), e>>]
    BY <1>3, LeftFoldAppend DEF Joined
  <2> QED BY <1>2, <1>4, <2>1 DEF JoinsOn
<1> QED BY <1>3, <1>4, <1>5

\* One element is replaced by its sequence.
LEMMA JoinOne ==
    ASSUME NEW E, NEW V, NEW f \in [E -> Seq(V)], NEW e \in E
    PROVE  Joined(<<e>>, E, V, f) = f[e]
<1> DEFINE z == <<>>
<1>1. z \in Seq(E) /\ <<e>> = Append(z, e)
  OBVIOUS
<1>2. Joined(z, E, V, f) = <<>>
  BY <1>1, JoinSteps
<1> HIDE DEF z
<1>3. Joined(Append(z, e), E, V, f) = Joined(z, E, V, f) \o f[e]
  <2>1. JoinsOn(z, E, V, f, e)
    BY <1>1, JoinSteps
  <2> QED BY <2>1 DEF JoinsOn
<1>4. f[e] \in Seq(V)
  OBVIOUS
<1> QED BY <1>1, <1>2, <1>3, <1>4, ConcatEmptySeq

\* Two sequences, one after the other, are joined one after the other.
JoinsBoth(u, w, E, V, f) == Joined(u \o w, E, V, f) = Joined(u, E, V, f) \o Joined(w, E, V, f)

\* So they are.
LEMMA JoinConcat ==
    ASSUME NEW E, NEW V, NEW f \in [E -> Seq(V)], NEW u \in Seq(E), NEW w \in Seq(E)
    PROVE  JoinsBoth(u, w, E, V, f)
<1> DEFINE J(s) == Joined(s, E, V, f)
           Q == {s \in Seq(E) : J(u \o s) = J(u) \o J(s)}
<1>1. <<>> \in Q
  <2>1. J(u) \in Seq(V) /\ J(<<>>) = <<>>
    BY JoinSteps
  <2>2. u \o <<>> = u /\ <<>> \in Seq(E)
    BY ConcatEmptySeq, EmptySeq
  <2> HIDE DEF J
  <2>3. J(u) \o <<>> = J(u)
    BY <2>1, ConcatEmptySeq
  <2> QED BY <2>1, <2>2, <2>3
<1>2. ASSUME NEW s \in Seq(E), NEW e \in E, s \in Q PROVE Append(s, e) \in Q
  <2> DEFINE us == u \o s
  <2>1. Append(s, e) \in Seq(E) /\ us \in Seq(E) /\ J(us) = J(u) \o J(s)
    BY <1>2, AppendProperties, ConcatProperties
  <2>2. us \in Seq(E)
    BY <2>1
  <2>3. u \o Append(s, e) = Append(us, e)
    BY ConcatAppend
  <2> HIDE DEF us
  <2>4. J(Append(us, e)) = J(us) \o f[e] /\ J(Append(s, e)) = J(s) \o f[e]
    <3>1. JoinsOn(us, E, V, f, e) /\ JoinsOn(s, E, V, f, e)
      BY <2>2, JoinSteps
    <3> QED BY <3>1 DEF JoinsOn
  <2>5. J(s) \in Seq(V) /\ J(u) \in Seq(V) /\ f[e] \in Seq(V)
    BY JoinSteps
  <2> HIDE DEF J
  <2>6. (J(u) \o J(s)) \o f[e] = J(u) \o (J(s) \o f[e])
    BY <2>5, ConcatAssociative
  <2>7. J(u \o Append(s, e)) = J(u) \o J(Append(s, e))
    BY <2>1, <2>3, <2>4, <2>5, <2>6
  <2> QED BY <2>1, <2>7
<1> HIDE DEF Q
<1>3. Seq(E) \subseteq Q
  BY <1>1, <1>2, SeqInd
<1> QED BY <1>3 DEF Q, JoinsBoth

=============================================================================
