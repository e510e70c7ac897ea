------------------------------- MODULE Tallies -------------------------------
(***************************************************************************)
(* Counting over sequences of rows, for the metrics: rates as pairs of a   *)
(* numerator and a denominator, of which 0 in the denominator means that   *)
(* there is no value; changes between neighbours; medians.                 *)
(***************************************************************************)
LOCAL INSTANCE Integers
LOCAL INSTANCE Sequences
LOCAL INSTANCE FiniteSets
LOCAL INSTANCE SequencesExt
LOCAL INSTANCE Functions

NoRate == <<0, 0>>
Rate(n, d) == IF d = 0 THEN NoRate ELSE <<n, d>>
RateOrZero(n, d) == IF d = 0 THEN <<0, 1>> ELSE <<n, d>>
HasRate(r) == r[2] # 0

SameRate(a, b) == HasRate(a) = HasRate(b) /\ a[1] * b[2] = b[1] * a[2]
Above(r, th) == HasRate(r) /\ r[1] * th[2] > th[1] * r[2]
Below(r, th) == HasRate(r) /\ r[1] * th[2] < th[1] * r[2]

OneLess(r) == <<r[2] - r[1], r[2]>>
OneAtLeast(n) == IF n > 1 THEN n ELSE 1
Plus(a, b) == <<a[1] * b[2] + b[1] * a[2], a[2] * b[2]>>

FoldRates(f) == FoldFunction(Plus, <<0, 1>>, f)

\* The mean of a function's values, rates or numbers.
MeanRate(f) ==
  LET total == FoldRates(f)
  IN  Rate(total[1], total[2] * Cardinality(DOMAIN f))
MeanOrZero(f) == IF DOMAIN f = {} THEN <<0, 1>> ELSE MeanRate(f)
Mean(s) == Rate(FoldFunction(+, 0, s), Len(s))

\* The middle of the values, or of the two in the middle.
Median(s) ==
  LET sorted == SortSeq(s, <)
      n == Len(s)
  IN  Rate(IF n % 2 = 1 THEN 2 * sorted[n \div 2 + 1]
           ELSE sorted[n \div 2] + sorted[n \div 2 + 1], IF n = 0 THEN 0 ELSE 2)

HowMany(s, P(_)) == Cardinality({i \in DOMAIN s : P(s[i])})
Times(s, x) == Cardinality({i \in DOMAIN s : s[i] = x})
Distinct(s) == {s[i] : i \in DOMAIN s}

\* Neighbours, and those that differ.
Steps(s) == IF Len(s) > 1 THEN Len(s) - 1 ELSE 0
Flips(s) == Cardinality({i \in 1 .. Len(s) - 1 : s[i] # s[i + 1]})

\* A value per track, summed over the tracks; the largest of them.
Total(f) == FoldFunction(+, 0, f)
Largest(f) == FoldFunction(LAMBDA a, b : IF a > b THEN a ELSE b, 0, f)

\* The severity of a gate: smaller, or larger, is worse.
SmallerWorse(r, warn, alert) ==
  IF Below(r, alert) THEN "alert" ELSE IF Below(r, warn) THEN "warn" ELSE "none"
LargerWorse(r, warn, alert) ==
  IF Above(r, alert) THEN "alert" ELSE IF Above(r, warn) THEN "warn" ELSE "none"
==============================================================================
