------------------------------ MODULE Numbers ------------------------------
(***************************************************************************)
(* The arithmetic that the calculations share: rounding as decimal and     *)
(* Python do it, bounds, and stable rankings.  Amounts are integers in a   *)
(* unit that each module names.                                            *)
(***************************************************************************)
EXTENDS Integers, Sequences, FiniteSets, FiniteSetsExt, SequencesExt

None == -1 \* an argument that was not given

Given(x) == x # None

Or(x, default) == IF x \in {None, 0} THEN default ELSE x \* Python's `or'

Least(a, b) == IF a <= b THEN a ELSE b
Greatest(a, b) == IF a >= b THEN a ELSE b
Clamp(x, low, high) == Greatest(low, Least(x, high))

Abs(n) == IF n < 0 THEN -n ELSE n
Sign(n) == IF n < 0 THEN -1 ELSE 1

\* n / d to the nearest integer, ties away from zero: ROUND_HALF_UP.
HalfUp(n, d) == Sign(n) * ((2 * Abs(n) + d) \div (2 * d))

\* n / d to the nearest integer, ties to even: round().
HalfEven(n, d) ==
  LET q == n \div d
      r == n % d
  IN IF 2 * r > d \/ (2 * r = d /\ q % 2 = 1) THEN q + 1 ELSE q

\* round(10000 * n / d), with every product within 32 bits.
Percentage(n, d) == 100 * ((100 * n) \div d) + HalfEven(100 * ((100 * n) % d), d)

\* n / d cut towards zero: int().
Cut(n, d) == Sign(n) * (Abs(n) \div d)

\* The largest r with r * r <= n, for n < 2^30.
Root(n) ==
  FoldLeft(LAMBDA r, bit : IF (r + bit) * (r + bit) <= n THEN r + bit ELSE r, 0, [i \in 1 .. 15 |-> 2 ^ (15 - i)])

SumOf(s) == FoldLeft(LAMBDA total, x : total + x, 0, s)

Mean(s) == IF s = <<>> THEN 0 ELSE SumOf(s) \div Len(s)

Total(S, Value(_)) == FoldSet(LAMBDA x, total : total + Value(x), 0, S)

\* Some places of a sequence in their order, and its elements there.
InOrder(places) == [n \in 1 .. Cardinality(places) |-> CHOOSE i \in places : Cardinality({j \in places : j < i}) = n - 1]
Selected(s, places) == [n \in 1 .. Cardinality(places) |-> s[InOrder(places)[n]]]

\* [x for x in s if Test(x)].
Filter(s, Test(_)) == Selected(s, {i \in DOMAIN s : Test(s[i])})

\* The places of the keys, the highest key first and equal keys in the order they come in.
Better(keys, i) == {j \in DOMAIN keys : keys[j] > keys[i] \/ (keys[j] = keys[i] /\ j < i)}
Placing(keys) == [n \in DOMAIN keys |-> CHOOSE i \in DOMAIN keys : Cardinality(Better(keys, i)) = n - 1]

\* sorted(s, key=Key, reverse=True): descending, equal keys in the order of s.
Ranked(s, Key(_)) ==
  LET order == Placing([i \in 1 .. Len(s) |-> Key(s[i])])
  IN [n \in 1 .. Len(s) |-> s[order[n]]]

\* The level of the first threshold that the value reaches; one more than all when none.
FirstReached(value, thresholds) ==
  LET reached == {i \in DOMAIN thresholds : value >= thresholds[i]}
  IN IF reached = {} THEN Len(thresholds) + 1 ELSE Min(reached)

\* s[:n].
Top(s, n) == SubSeq(s, 1, Least(n, Len(s)))

\* min(s, key=Key): the first with the least key.
FirstLeast(s, Key(_)) == s[Min({i \in DOMAIN s : \A j \in DOMAIN s : Key(s[i]) <= Key(s[j])})]

\* What a ranking promises: the elements of s, none lost, none twice, by descending key.
IsRanking(r, s, Key(_)) ==
  /\ Len(r) = Len(s)
  /\ \A x \in ToSet(s) \cup ToSet(r) :
       Cardinality({i \in DOMAIN s : s[i] = x}) = Cardinality({i \in DOMAIN r : r[i] = x})
  /\ \A i, j \in 1 .. Len(r) : i < j => Key(r[i]) >= Key(r[j])
=============================================================================
