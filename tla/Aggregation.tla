---------------------------- MODULE Aggregation ----------------------------
(***************************************************************************)
(* The integer arithmetic every publisher repeats on the same inputs       *)
(* (apps/publisher/src/fixed.ts and aggregate.ts): the median of a feed's  *)
(* observations, the tolerance a signer grants the aggregate, and the      *)
(* moving average. A sample is a function from the publishers that priced  *)
(* the feed to their values.                                               *)
(***************************************************************************)
EXTENDS Integers, FiniteSets

\* The value with k - 1 others before it once the sample is sorted.
Ranked(sample, k) ==
  LET Values == {sample[p] : p \in DOMAIN sample}
      Below(x) == Cardinality({p \in DOMAIN sample : sample[p] < x})
      UpTo(x) == Cardinality({p \in DOMAIN sample : sample[p] <= x})
  IN CHOOSE x \in Values : Below(x) < k /\ k <= UpTo(x)

\* Mutant: the end of an odd sample instead of its middle.
MedianSlipped(sample) ==
  LET n == Cardinality(DOMAIN sample)
      mid == n \div 2
  IN IF n % 2 = 1
     THEN Ranked(sample, n)
     ELSE (Ranked(sample, mid) + Ranked(sample, mid + 1)) \div 2

\* The middle value; for an even count the floor of the mean of the middle two.
Median(sample) ==
  LET n == Cardinality(DOMAIN sample)
      mid == n \div 2
  IN IF n % 2 = 1
     THEN Ranked(sample, mid + 1)
     ELSE (Ranked(sample, mid) + Ranked(sample, mid + 1)) \div 2

Abs(x) == IF x < 0 THEN -x ELSE x

\* The aggregate is within `bps` basis points of the publisher's own price.
WithinTolerance(aggregate, mine, bps) ==
  Abs(aggregate - mine) * 10000 <= bps * Abs(mine)

\* Division as bigint does it, toward zero.
Truncated(a, b) == IF a < 0 THEN -((-a) \div b) ELSE a \div b

\* The moving average dt after `previous`, for a value and a time constant.
NextEma(previous, value, dt, tau) ==
  previous + Truncated((value - previous) * dt, dt + tau)
=============================================================================
