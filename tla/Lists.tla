------------------------------- MODULE Lists --------------------------------
(***************************************************************************)
(* Sums, ordered lists and prefixes, shared by the web modules.            *)
(***************************************************************************)
EXTENDS Integers, Sequences, FiniteSets, SequencesExt, FiniteSetsExt

Larger(a, b) == IF a > b THEN a ELSE b
Smaller(a, b) == IF a < b THEN a ELSE b
Sum(f(_), S) == FoldSet(LAMBDA x, acc : f(x) + acc, 0, S)
SumSeq(s) == FoldLeft(LAMBDA a, b : a + b, 0, s)

\* The elements of S in a strict total order.
Ordered(S, before(_, _)) ==
  SubSeq([n \in 1 .. Cardinality(S) |-> CHOOSE x \in S : Cardinality({y \in S : before(y, x)}) = n - 1], 1, Cardinality(S))

\* f, evaluated at once.
Memo(f) == f @@ << >>
Ranked(f, S) == Ordered(S, LAMBDA a, b : f[a] > f[b] \/ (f[a] = f[b] /\ a < b))
\* The elements of S by a key of theirs.
Group(S, key(_)) == Memo([k \in {key(x) : x \in S} |-> {x \in S : key(x) = k}])

\* The order of tuples.
Before(a, b) == \E d \in DOMAIN a : a[d] < b[d] /\ \A e \in 1 .. d - 1 : a[e] = b[e]
RankedTuples(f, S) == Ordered(S, LAMBDA a, b : f[a] > f[b] \/ (f[a] = f[b] /\ Before(a, b)))
Take(s, n) == SubSeq(s, 1, Smaller(n, Len(s)))
Rest(s, n) == SubSeq(s, Smaller(n, Len(s)) + 1, Len(s))

=============================================================================
