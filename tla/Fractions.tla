------------------------------ MODULE Fractions ------------------------------
(***************************************************************************)
(* Exact fractions, for the float arithmetic of the sampler: a numerator   *)
(* and a positive denominator without a common divisor.                    *)
(***************************************************************************)
EXTENDS Integers

Fraction == Int \X (Nat \ {0})

Gcd[p \in Nat \X Nat] == IF p[2] = 0 THEN p[1] ELSE Gcd[<<p[2], p[1] % p[2]>>]

Reduced(n, d) ==
  LET g == Gcd[<<IF n < 0 THEN -n ELSE n, d>>] IN <<n \div g, d \div g>>

\* Reduced before they are multiplied, to stay within TLC's integers
Times(a, b) ==
  LET p == Reduced(a[1], b[2])
      q == Reduced(b[1], a[2])
  IN  <<p[1] * q[1], p[2] * q[2]>>

Plus(a, b) ==
  LET g == Gcd[<<a[2], b[2]>>]
  IN  Reduced(a[1] * (b[2] \div g) + b[1] * (a[2] \div g), a[2] * (b[2] \div g))

Minus(a, b) == Plus(a, <<-b[1], b[2]>>)

Square(a) == Times(a, a)

\* Division by a positive fraction
Over(a, b) == Times(a, <<b[2], b[1]>>)

Less(a, b) == a[1] * b[2] < b[1] * a[2]
=============================================================================
