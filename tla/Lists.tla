------------------------------- MODULE Lists -------------------------------
(***************************************************************************)
(* The two ways the router makes a list of another one: appending the      *)
(* elements that pass a test, and a stable sort of the indices.            *)
(***************************************************************************)
EXTENDS Integers, FiniteSets

\* The members of DOMAIN before, a finite set, where before[x] are those that
\* sort before x: the k-th member has k - 1 before it.
Sorted(before) ==
    [k \in 1 .. Cardinality(DOMAIN before) |-> CHOOSE x \in DOMAIN before : Cardinality(before[x]) = k - 1]

\* The elements of s in the given order of indices.
Listed(s, order) == [k \in DOMAIN order |-> s[order[k]]]

\* The elements of s at the indices in I, in the order of s.
Keep(s, I) == Listed(s, Sorted([i \in I |-> {j \in I : j < i}]))

=============================================================================
