-------------------------------- MODULE Lists --------------------------------
(***************************************************************************)
(* Python's None, and what it does with lists, for the modules that        *)
(* compute: a comprehension with a condition, the keys of a dictionary in  *)
(* the order in which they came, sorted() and sum().  Each is defined by   *)
(* the places of the list that it takes and the order it takes them in, so *)
(* that its facts follow from those of finite sets; SelectSeq, which is    *)
(* recursive, has none in the prover's library.                            *)
(***************************************************************************)
EXTENDS Integers, Sequences, SequencesExt, FiniteSetsExt

CONSTANT None

\* The k-th member of D in the order R, a set of pairs (reflexive and total on D).
Kth(D, R, k) == CHOOSE d \in D : Cardinality({e \in D : <<e, d>> \in R}) = k

\* The members of s in the places D, in the order R.
Arranged(s, D, R) == [k \in 1 .. Cardinality(D) |-> s[Kth(D, R, k)]]

\* The order of the places.
InPlace(D) == {p \in D \X D : p[1] <= p[2]}

\* [x for x in s if Test(x)]
Kept(s, Test(_)) ==
  LET D == {k \in DOMAIN s : Test(s[k])}
  IN  Arranged(s, D, InPlace(D))

\* list(dict.fromkeys(s)): each member where it comes first.
Firsts(s) ==
  LET D == {k \in DOMAIN s : \A j \in 1 .. k - 1 : s[j] # s[k]}
  IN  Arranged(s, D, InPlace(D))

\* sorted(s, key=...), which is stable: Before(x, y) is that the key of x is the
\* smaller one, or the larger if the sort is descending.
Sorted(s, Before(_, _)) ==
  Arranged(s, DOMAIN s,
           {p \in (DOMAIN s) \X (DOMAIN s) :
              Before(s[p[1]], s[p[2]]) \/ (~Before(s[p[2]], s[p[1]]) /\ p[1] <= p[2])})

\* sum(s)
SumOf(s) == FoldLeft(LAMBDA n, x : n + x, 0, s)

\* s[:n]
Cut(s, n) == SubSeq(s, 1, Min({n, Len(s)}))
=============================================================================
