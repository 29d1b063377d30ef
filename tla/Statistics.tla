----------------------------- MODULE Statistics -----------------------------
(***************************************************************************)
(* What the calculations take from Python of a family of numbers: sorting, *)
(* the median, sums. A family is a function with a finite domain; the      *)
(* indexes of a sum are numbers up to n, of which some may be left out.    *)
(***************************************************************************)
EXTENDS Integers, FiniteSets

Below(values, v) == {i \in DOMAIN values : values[i] < v}
UpTo(values, v) == {i \in DOMAIN values : values[i] <= v}

\* The k-th value in ascending order, equal values counted each.
Nth(values, k) ==
    LET i == CHOOSE j \in DOMAIN values :
                /\ Cardinality(Below(values, values[j])) < k
                /\ k <= Cardinality(UpTo(values, values[j]))
    IN values[i]

\* Twice the median: the middle value with itself, or the middle two.
MiddleTwo(values) ==
    LET n == Cardinality(DOMAIN values)
    IN Nth(values, (n + 1) \div 2) + Nth(values, n \div 2 + 1)

Total(values, n) ==
    LET sum[k \in 0 .. n] ==
            IF k = 0 THEN 0
            ELSE sum[k - 1] + (IF k \in DOMAIN values THEN values[k] ELSE 0)
    IN sum[n]
=============================================================================
