----------------------------- MODULE Reckoning -----------------------------
(***************************************************************************)
(* Fractions, a pair of a numerator and a positive denominator, for what   *)
(* the code computes with floats, and sets put in order.                   *)
(***************************************************************************)
EXTENDS Integers, FiniteSets

Gcd[a \in Nat, b \in Nat] == IF b = 0 THEN a ELSE Gcd[b, a % b]

\* a / b, in lowest terms; that d divides both is tested, so that nothing rests
\* on what Gcd computes.
Frac(a, b) ==
  LET d == Gcd[IF a < 0 THEN -a ELSE a, b]
  IN  IF d \in 1..b /\ a % d = 0 /\ b % d = 0 THEN <<a \div d, b \div d>> ELSE <<a, b>>

AtMost(x, y) == x[1] * y[2] <= y[1] * x[2]
Same(x, y) == x[1] * y[2] = y[1] * x[2]
Plus(x, y) == Frac(x[1] * y[2] + y[1] * x[2], x[2] * y[2])
Times(n, x) == Frac(n * x[1], x[2])
Over(x, n) == Frac(x[1], n * x[2])
Apart(x, y) ==
  LET d == x[1] * y[2] - y[1] * x[2] IN <<IF d < 0 THEN -d ELSE d, x[2] * y[2]>>

Zero == <<0, 1>>
One == <<1, 1>>
\* min(x, 1), max(x, 0).
Capped(x) == IF AtMost(One, x) THEN One ELSE x
Floored(x) == IF x[1] < 0 THEN Zero ELSE x

\* The elements of S by Before, a strict total order.
Sorted(S, Before(_, _)) ==
  [i \in 1..Cardinality(S) |->
     CHOOSE x \in S : Cardinality({y \in S : Before(y, x)}) = i - 1]
=============================================================================
