------------------------------- MODULE Rationals -------------------------------
(***************************************************************************)
(* Rationals <<numerator, denominator>> with a positive denominator, as    *)
(* exact stand-ins for floating-point numbers.                             *)
(***************************************************************************)
EXTENDS Integers

Less(a, b) == a[1] * b[2] < b[1] * a[2]
Magnitude(a) == <<IF a[1] < 0 THEN -a[1] ELSE a[1], a[2]>>
Largest(S) == CHOOSE m \in S : \A a \in S : ~ Less(m, a)

(* torch.round and Python's round: to the nearest, ties to the even neighbour. *)
RoundHalfEven(a) ==
  LET below == a[1] \div a[2]
      twice == 2 * (a[1] % a[2])
  IN  IF twice < a[2] \/ (twice = a[2] /\ below % 2 = 0) THEN below ELSE below + 1
=============================================================================
