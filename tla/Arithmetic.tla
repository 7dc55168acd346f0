------------------------------ MODULE Arithmetic ------------------------------
(***************************************************************************)
(* What the proofs need of numbers: induction, Euclid's algorithm and what *)
(* is computed with fractions in lowest terms.                             *)
(***************************************************************************)
EXTENDS Fractions, WellFoundedInduction, TLAPS

-----------------------------------------------------------------------------
(* Induction over the natural numbers, stated for sets: what is to hold of *)
(* every number is that it is in a set.                                    *)

\* A set of natural numbers that is not empty has a smallest one.
LEMMA SmallestNumber ==
  ASSUME NEW T \in SUBSET Nat, T # {}
  PROVE  \E n \in T : \A m \in T : n <= m
PROOF
<1> DEFINE R == {p \in Nat \X Nat : p[1] < p[2]}
<1>1. IsWellFoundedOn(R, Nat)
  BY NatLessThanWellFounded DEF OpToRel
<1> HIDE DEF R
<1>2. PICK n \in T : \A m \in T : <<m, n>> \notin R
  BY <1>1, WFMin
<1>3. ASSUME NEW m \in T PROVE n <= m
  <2>1. n \in Nat /\ m \in Nat
    OBVIOUS
  <2>2. ~(m < n)
    BY <1>2, <2>1 DEF R
  <2> QED
    BY <2>1, <2>2
<1> QED
  BY <1>3

\* From n to n + 1
LEMMA NumberInduction ==
  ASSUME NEW T, 0 \in T, \A n \in Nat : n \in T => n + 1 \in T
  PROVE  Nat \subseteq T
PROOF
<1> SUFFICES ASSUME Nat \ T # {} PROVE FALSE
  OBVIOUS
<1>1. PICK n \in Nat \ T : \A m \in Nat \ T : n <= m
  BY SmallestNumber
<1>2. n - 1 \in Nat
  BY <1>1
<1>3. n - 1 \in T
  BY <1>1, <1>2
<1> QED
  BY <1>1, <1>2, <1>3

\* From all smaller numbers to n
LEMMA StrongInduction ==
  ASSUME NEW T, \A n \in Nat : (\A m \in 0 .. n - 1 : m \in T) => n \in T
  PROVE  Nat \subseteq T
PROOF
<1> SUFFICES ASSUME Nat \ T # {} PROVE FALSE
  OBVIOUS
<1>1. PICK n \in Nat \ T : \A m \in Nat \ T : n <= m
  BY SmallestNumber
<1>2. \A m \in 0 .. n - 1 : m \in T
  BY <1>1
<1> QED
  BY <1>1, <1>2

-----------------------------------------------------------------------------
(* Euclid's algorithm                                                      *)

Divides(d, n) == \E k \in Int : n = d * k

CommonDivisors(a, b) == {d \in Nat \ {0} : Divides(d, a) /\ Divides(d, b)}

\* The rest has the divisors both numbers have.
LEMMA RestDivides ==
  ASSUME NEW a \in Nat, NEW b \in Nat \ {0}
  PROVE  /\ a % b \in 0 .. b - 1 /\ a \div b \in Nat /\ a = b * (a \div b) + (a % b)
         /\ CommonDivisors(a, b) = CommonDivisors(b, a % b)
PROOF
<1> DEFINE r == a % b
           q == a \div b
<1>1. r \in 0 .. b - 1 /\ q \in Nat /\ a = b * q + r
  OBVIOUS
<1> HIDE DEF r, q
<1>2. ASSUME NEW d \in Nat \ {0}, Divides(d, b)
      PROVE  Divides(d, a) <=> Divides(d, r)
  <2>1. PICK k \in Int : b = d * k
    BY <1>2 DEF Divides
  <2>2. ASSUME Divides(d, a) PROVE Divides(d, r)
    <3>1. PICK l \in Int : a = d * l
      BY <2>2 DEF Divides
    <3>2. r = d * (l - k * q) /\ l - k * q \in Int
      BY <1>1, <2>1, <3>1
    <3> QED
      BY <3>2 DEF Divides
  <2>3. ASSUME Divides(d, r) PROVE Divides(d, a)
    <3>1. PICK l \in Int : r = d * l
      BY <2>3 DEF Divides
    <3>2. a = d * (k * q + l) /\ k * q + l \in Int
      BY <1>1, <2>1, <3>1
    <3> QED
      BY <3>2 DEF Divides
  <2> QED
    BY <2>2, <2>3
<1>3. CommonDivisors(a, b) = CommonDivisors(b, r)
  BY <1>2 DEF CommonDivisors
<1>4. a % b = r /\ a \div b = q
  BY DEF r, q
<1> QED
  BY <1>1, <1>3, <1>4

\* Euclid's algorithm has a result (Gcd).
LEMMA GcdIs ==
  ASSUME NEW a \in Nat, NEW b \in Nat
  PROVE  Gcd[<<a, b>>] = IF b = 0 THEN a ELSE Gcd[<<b, a % b>>]
PROOF
<1> DEFINE Rec(f) == f = [p \in Nat \X Nat |-> IF p[2] = 0 THEN p[1] ELSE f[<<p[2], p[1] % p[2]>>]]
           Largest(x, y) == CHOOSE d \in CommonDivisors(x, y) : \A e \in CommonDivisors(x, y) : e <= d
           g == [p \in Nat \X Nat |-> IF p[2] = 0 THEN p[1] ELSE Largest(p[1], p[2])]
<1>1. ASSUME NEW y \in Nat \ {0} PROVE Largest(y, 0) = y
  <2>1. y \in CommonDivisors(y, 0)
    <3>1. y = y * 1 /\ 0 = y * 0
      OBVIOUS
    <3> QED
      BY <3>1 DEF CommonDivisors, Divides
  <2>2. \A d \in CommonDivisors(y, 0) : d <= y /\ d \in Nat
    <3> TAKE d \in CommonDivisors(y, 0)
    <3>1. PICK k \in Int : y = d * k /\ d \in Nat \ {0}
      BY DEF CommonDivisors, Divides
    <3>2. k >= 1
      BY <3>1
    <3> QED
      BY <3>1, <3>2
  <2>3. \A d \in CommonDivisors(y, 0) : (\A e \in CommonDivisors(y, 0) : e <= d) => d = y
    BY <2>1, <2>2
  <2> QED
    BY <2>1, <2>2, <2>3
<1>2. ASSUME NEW x \in Nat, NEW y \in Nat \ {0}
      PROVE  x % y \in Nat /\ Largest(x, y) = Largest(y, x % y)
  <2>1. x % y \in Nat /\ CommonDivisors(x, y) = CommonDivisors(y, x % y)
    <3>1. x % y \in 0 .. y - 1 /\ CommonDivisors(x, y) = CommonDivisors(y, x % y)
      BY RestDivides, Zenon
    <3> QED
      BY <3>1
  <2> QED
    BY <2>1
<1> HIDE DEF Largest
<1>3. ASSUME NEW p \in Nat \X Nat
      PROVE  g[p] = IF p[2] = 0 THEN p[1] ELSE g[<<p[2], p[1] % p[2]>>]
  <2>1. CASE p[2] = 0
    BY <2>1
  <2>2. CASE p[2] # 0
    <3>1. p[1] \in Nat /\ p[2] \in Nat \ {0} /\ p[1] % p[2] \in Nat
          /\ Largest(p[1], p[2]) = Largest(p[2], p[1] % p[2])
      BY <1>2, <2>2
    <3> DEFINE r == p[1] % p[2]
               q == <<p[2], r>>
    <3> HIDE DEF r
    <3>2. q \in Nat \X Nat /\ q[1] = p[2] /\ q[2] = r
      BY <3>1 DEF r
    <3>3. g[q] = IF r = 0 THEN p[2] ELSE Largest(p[2], r)
      BY <3>2
    <3>4. g[q] = Largest(p[2], r)
      BY <1>1, <3>1, <3>3
    <3>5. g[p] = Largest(p[1], p[2])
      BY <2>2
    <3> QED
      BY <2>2, <3>1, <3>4, <3>5 DEF r
  <2> QED
    BY <2>1, <2>2
<1>4. Rec(g)
  BY <1>3
<1>5. Gcd = CHOOSE f : Rec(f)
  BY DEF Gcd
<1>6. Rec(Gcd)
  <2> HIDE DEF Rec, g
  <2> QED
    BY <1>4, <1>5
<1>7. <<a, b>> \in Nat \X Nat /\ <<a, b>>[1] = a /\ <<a, b>>[2] = b
  OBVIOUS
<1> QED
  BY <1>6, <1>7

\* g divides both numbers and is a sum of multiples of them.
Bezout(g, a, b) ==
  /\ g \in Nat /\ (a # 0 \/ b # 0 => g # 0)
  /\ Divides(g, a) /\ Divides(g, b)
  /\ \E u, v \in Int : g = u * a + v * b

LEMMA GcdFacts == ASSUME NEW a \in Nat, NEW b \in Nat PROVE Bezout(Gcd[<<a, b>>], a, b)
PROOF
<1> DEFINE T == {y \in Nat : \A x \in Nat : Bezout(Gcd[<<x, y>>], x, y)}
<1>1. ASSUME NEW y \in Nat, \A m \in 0 .. y - 1 : m \in T PROVE y \in T
  <2> SUFFICES ASSUME NEW x \in Nat PROVE Bezout(Gcd[<<x, y>>], x, y)
    OBVIOUS
  <2>1. CASE y = 0
    <3>1. Gcd[<<x, y>>] = x
      BY <2>1, GcdIs
    <3>2. x = x * 1 /\ y = x * 0 /\ x = 1 * x + 0 * y
      BY <2>1
    <3> QED
      BY <2>1, <3>1, <3>2 DEF Bezout, Divides
  <2>2. CASE y # 0
    <3> DEFINE r == x % y
               q == x \div y
               g == Gcd[<<y, r>>]
    <3>1. r \in 0 .. y - 1 /\ q \in Nat /\ x = y * q + r
      BY <2>2, RestDivides
    <3>2. Gcd[<<x, y>>] = g
      BY <2>2, GcdIs
    <3> HIDE DEF r, q
    <3>3. Bezout(g, y, r)
      BY <1>1, <3>1
    <3> HIDE DEF g
    <3>4. PICK k, l, u, v \in Int : y = g * k /\ r = g * l /\ g = u * y + v * r
      BY <3>3 DEF Bezout, Divides
    <3>5. g \in Nat /\ g # 0
      BY <2>2, <3>3 DEF Bezout
    <3>6. x = g * (k * q + l) /\ k * q + l \in Int
      <4>1. (g * k) * q + g * l = g * (k * q + l)
        BY <3>1, <3>5
      <4> QED
        BY <3>1, <3>4, <4>1
    <3>7. g = v * x + (u - v * q) * y /\ u - v * q \in Int
      <4>1. v * x = v * (y * q) + v * r
        BY <3>1, <3>4
      <4>2. (u - v * q) * y = u * y - v * (y * q)
        BY <3>1, <3>4
      <4>3. v * (y * q) \in Int /\ v * r \in Int /\ u * y \in Int
        BY <3>1, <3>4
      <4> QED
        BY <3>1, <3>4, <4>1, <4>2, <4>3
    <3> QED
      BY <3>2, <3>4, <3>5, <3>6, <3>7 DEF Bezout, Divides
  <2> QED
    BY <2>1, <2>2
<1>2. b \in T
  <2> HIDE DEF T
  <2> QED
    BY <1>1, StrongInduction
<1> QED
  BY <1>2

-----------------------------------------------------------------------------
(* Fractions                                                               *)

Coprime(x, y) == \E u, v \in Int : u * x + v * y = 1

\* Fractions in lowest terms
Lowest(f) == f \in Int \X (Nat \ {0}) /\ Coprime(f[1], f[2])

\* f is n / d, in lowest terms.
Is(f, n, d) == Lowest(f) /\ f[1] * d = n * f[2]

\* A number has one form in lowest terms.
LEMMA OneForm ==
  ASSUME NEW f, NEW h, NEW n \in Int, NEW d \in Nat \ {0}, Is(f, n, d), Is(h, n, d)
  PROVE  f = h
PROOF
<1> DEFINE a == f[1]
           b == f[2]
           x == h[1]
           y == h[2]
<1>1. /\ f = <<a, b>> /\ h = <<x, y>> /\ a \in Int /\ x \in Int /\ b \in Nat \ {0} /\ y \in Nat \ {0}
      /\ a * d = n * b /\ x * d = n * y
  BY DEF Is, Lowest
<1>2. PICK u, v \in Int : u * a + v * b = 1
  BY DEF Is, Lowest, Coprime
<1>3. PICK s, t \in Int : s * x + t * y = 1
  BY DEF Is, Lowest, Coprime
<1> HIDE DEF a, b, x, y
<1>4. a * y = x * b
  <2>1. (a * d) * y = (x * d) * b
    <3>1. (a * d) * y = (n * b) * y /\ (x * d) * b = (n * y) * b
      BY <1>1
    <3>2. (n * b) * y = (n * y) * b
      BY <1>1
    <3> QED
      BY <3>1, <3>2
  <2>2. (a * y - x * b) * d = 0
    BY <1>1, <2>1
  <2>3. a * y - x * b \in Int /\ a * y \in Int /\ x * b \in Int
    BY <1>1
  <2>4. a * y - x * b = 0
    BY <2>2, <2>3
  <2> QED
    BY <2>3, <2>4
<1>5. y = b * (u * x + v * y)
  <2>1. (u * a + v * b) * y = u * (a * y) + v * b * y
    BY <1>1, <1>2
  <2>2. u * (x * b) + v * b * y = b * (u * x + v * y)
    BY <1>1, <1>2
  <2>3. (u * a + v * b) * y = y
    BY <1>1, <1>2
  <2>4. u * (a * y) = u * (x * b)
    BY <1>4
  <2> QED
    BY <2>1, <2>2, <2>3, <2>4
<1>6. b = y * (s * a + t * b)
  <2>1. (s * x + t * y) * b = s * (x * b) + t * y * b
    BY <1>1, <1>3
  <2>2. s * (a * y) + t * y * b = y * (s * a + t * b)
    BY <1>1, <1>3
  <2>3. (s * x + t * y) * b = b
    BY <1>1, <1>3
  <2>4. s * (a * y) = s * (x * b)
    BY <1>4
  <2> QED
    BY <2>1, <2>2, <2>3, <2>4
<1>7. b = y
  <2> DEFINE p == u * x + v * y
             q == s * a + t * b
  <2>1. p \in Int /\ q \in Int /\ y = b * p /\ b = y * q
    BY <1>1, <1>2, <1>3, <1>5, <1>6
  <2> HIDE DEF p, q
  <2>2. p >= 1 /\ q >= 1
    BY <1>1, <2>1
  <2>3. y >= b /\ b >= y
    BY <1>1, <2>1, <2>2
  <2> QED
    BY <1>1, <2>3
<1>8. a = x
  BY <1>1, <1>4, <1>7
<1> QED
  BY <1>1, <1>7, <1>8

LEMMA SameForm ==
  ASSUME NEW f, NEW n \in Int, NEW d \in Nat \ {0}, Is(f, n, d),
         NEW m \in Int, NEW e \in Nat \ {0}, n * e = m * d
  PROVE  Is(f, m, e)
PROOF
<1> DEFINE a == f[1]
           b == f[2]
<1>1. a \in Int /\ b \in Nat \ {0} /\ a * d = n * b
  BY DEF Is, Lowest
<1> HIDE DEF a, b
<1>2. (a * e - m * b) * d = 0
  <2>1. (a * e) * d = (a * d) * e /\ (m * b) * d = (m * d) * b /\ (n * b) * e = (n * e) * b
    BY <1>1
  <2>2. (a * e) * d = (m * b) * d
    BY <1>1, <2>1
  <2>3. (a * e - m * b) * d = (a * e) * d - (m * b) * d
    BY <1>1
  <2> QED
    BY <1>1, <2>2, <2>3
<1>3. a * e - m * b \in Int /\ a * e \in Int /\ m * b \in Int
  BY <1>1
<1>4. a * e = m * b
  BY <1>2, <1>3
<1> QED
  BY <1>4 DEF Is, a, b

\* Fractions in lowest terms are what they are.
LEMMA ItIs == ASSUME NEW f, Lowest(f) PROVE Is(f, f[1], f[2])
PROOF
  BY DEF Is

LEMMA DivisionExact ==
  ASSUME NEW g \in Nat \ {0}, NEW k \in Int
  PROVE  (g * k) \div g = k
PROOF
  OBVIOUS

\* Reducing takes a common divisor out.
LEMMA ReducedParts ==
  ASSUME NEW n \in Int, NEW d \in Nat \ {0}
  PROVE  /\ Lowest(Reduced(n, d))
         /\ \E g \in Nat \ {0} : n = g * Reduced(n, d)[1] /\ d = g * Reduced(n, d)[2]
PROOF
<1> DEFINE m == IF n < 0 THEN -n ELSE n
           g == Gcd[<<m, d>>]
<1>1. m \in Nat /\ (m = n \/ m = -n)
  OBVIOUS
<1>2. Reduced(n, d) = <<n \div g, d \div g>>
  BY DEF Reduced
<1> HIDE DEF m
<1>3. Bezout(g, m, d)
  BY <1>1, GcdFacts
<1> HIDE DEF g
<1>4. PICK k, l, u, v \in Int : m = g * k /\ d = g * l /\ g = u * m + v * d
  BY <1>3 DEF Bezout, Divides
<1>5. g \in Nat \ {0}
  BY <1>3 DEF Bezout
<1>6. PICK j \in Int : n = g * j /\ (j = k \/ j = -k)
  <2>1. CASE m = n
    BY <1>4, <2>1
  <2>2. CASE m = -n
    <3>1. n = g * (-k) /\ -k \in Int
      BY <1>4, <1>5, <2>2
    <3> QED
      BY <3>1
  <2> QED
    BY <1>1, <2>1, <2>2
<1>7. Reduced(n, d) = <<j, l>>
  BY <1>2, <1>4, <1>5, <1>6, DivisionExact
<1>8. l \in Nat \ {0}
  BY <1>4, <1>5
<1>9. u * k + v * l = 1
  <2>1. g * (u * k + v * l) = u * (g * k) + v * (g * l)
    BY <1>4, <1>5
  <2>2. g * (u * k + v * l - 1) = 0
    BY <1>4, <1>5, <2>1
  <2>3. u * k + v * l - 1 \in Int
    BY <1>4
  <2> QED
    BY <1>4, <1>5, <2>2, <2>3
<1>10. Coprime(j, l)
  <2>1. CASE j = k
    BY <1>4, <1>9, <2>1 DEF Coprime
  <2>2. CASE j = -k
    <3>1. (-u) * j + v * l = 1 /\ -u \in Int
      BY <1>4, <1>9, <2>2
    <3> QED
      BY <1>4, <3>1 DEF Coprime
  <2> QED
    BY <1>6, <2>1, <2>2
<1>11. Lowest(<<j, l>>)
  BY <1>6, <1>8, <1>10 DEF Lowest
<1>12. n = g * <<j, l>>[1] /\ d = g * <<j, l>>[2]
  BY <1>4, <1>6
<1> QED
  BY <1>5, <1>7, <1>11, <1>12

LEMMA ReducedIs ==
  ASSUME NEW n \in Int, NEW d \in Nat \ {0}
  PROVE  Is(Reduced(n, d), n, d)
PROOF
<1> DEFINE f == Reduced(n, d)
<1>1. Lowest(f)
  BY ReducedParts
<1>2. PICK g \in Nat \ {0} : n = g * f[1] /\ d = g * f[2]
  BY ReducedParts
<1>3. f[1] \in Int /\ f[2] \in Int
  BY <1>1 DEF Lowest
<1> HIDE DEF f
<1>4. f[1] * (g * f[2]) = (g * f[1]) * f[2]
  BY <1>3
<1>5. Is(f, n, d)
  BY <1>1, <1>2, <1>4 DEF Is
<1> QED
  BY <1>5 DEF f

LEMMA CoprimeProduct ==
  ASSUME NEW x \in Int, NEW y \in Int, NEW z \in Int, Coprime(x, z), Coprime(y, z)
  PROVE  Coprime(x * y, z)
PROOF
<1>1. PICK u, v \in Int : u * x + v * z = 1
  BY DEF Coprime
<1>2. PICK s, t \in Int : s * y + t * z = 1
  BY DEF Coprime
<1>3. (u * s) * (x * y) + (u * x * t + v * s * y + v * t * z) * z = (u * x + v * z) * (s * y + t * z)
  BY <1>1, <1>2
<1>4. u * s \in Int /\ u * x * t + v * s * y + v * t * z \in Int
  BY <1>1, <1>2
<1>5. (u * s) * (x * y) + (u * x * t + v * s * y + v * t * z) * z = 1
  BY <1>1, <1>2, <1>3
<1> QED
  BY <1>4, <1>5 DEF Coprime

LEMMA CoprimeTurned ==
  ASSUME NEW x \in Int, NEW y \in Int, Coprime(x, y)
  PROVE  Coprime(y, x)
PROOF
<1>1. PICK u, v \in Int : u * x + v * y = 1
  BY DEF Coprime
<1>2. v * y + u * x = 1
  BY <1>1
<1> QED
  BY <1>2 DEF Coprime

LEMMA CoprimeParts ==
  ASSUME NEW x \in Int, NEW y \in Int, NEW k \in Int, NEW l \in Int, Coprime(k * x, l * y)
  PROVE  Coprime(x, y)
PROOF
<1>1. PICK u, v \in Int : u * (k * x) + v * (l * y) = 1
  BY DEF Coprime
<1>2. (u * k) * x + (v * l) * y = 1 /\ u * k \in Int /\ v * l \in Int
  BY <1>1
<1> QED
  BY <1>2 DEF Coprime

LEMMA CancelFactor ==
  ASSUME NEW g \in Nat \ {0}, NEW y \in Int, NEW z \in Int, g * y = g * z
  PROVE  y = z
PROOF
<1>1. g * (y - z) = 0 /\ y - z \in Int
  OBVIOUS
<1>2. y - z = 0
  BY <1>1
<1> QED
  BY <1>2

LEMMA TimesIs ==
  ASSUME NEW a, NEW b, NEW n \in Int, NEW d \in Nat \ {0}, NEW m \in Int, NEW e \in Nat \ {0},
         Is(a, n, d), Is(b, m, e)
  PROVE  Is(Times(a, b), n * m, d * e)
PROOF
<1> DEFINE p == Reduced(a[1], b[2])
           q == Reduced(b[1], a[2])
           p1 == p[1]
           p2 == p[2]
           q1 == q[1]
           q2 == q[2]
           a1 == a[1]
           a2 == a[2]
           b1 == b[1]
           b2 == b[2]
<1>1. Times(a, b) = <<p1 * q1, p2 * q2>>
  BY DEF Times
<1>2. /\ a1 \in Int /\ a2 \in Nat \ {0} /\ b1 \in Int /\ b2 \in Nat \ {0}
      /\ a1 * d = n * a2 /\ b1 * e = m * b2
      /\ Coprime(a1, a2) /\ Coprime(b1, b2)
  BY DEF Is, Lowest
<1>3. PICK g \in Nat \ {0} : a1 = g * p1 /\ b2 = g * p2
  BY <1>2, ReducedParts
<1>4. PICK h \in Nat \ {0} : b1 = h * q1 /\ a2 = h * q2
  BY <1>2, ReducedParts
<1>5. /\ p1 \in Int /\ p2 \in Nat \ {0} /\ Coprime(p1, p2)
      /\ q1 \in Int /\ q2 \in Nat \ {0} /\ Coprime(q1, q2)
  BY <1>2, ReducedParts DEF Lowest
<1> HIDE DEF p, q, p1, p2, q1, q2, a1, a2, b1, b2
<1>. p1 \in Int /\ p2 \in Int /\ q1 \in Int /\ q2 \in Int /\ g \in Int /\ h \in Int
  BY <1>5
<1>6. Coprime(p1, q2)
  <2>1. Coprime(g * p1, h * q2)
    BY <1>2, <1>3, <1>4
  <2> QED
    BY <2>1, CoprimeParts, Zenon
<1>7. Coprime(q1, p2)
  <2>1. Coprime(h * q1, g * p2)
    BY <1>2, <1>3, <1>4
  <2> QED
    BY <2>1, CoprimeParts, Zenon
<1>8. Coprime(p1 * q1, p2 * q2)
  <2>1. Coprime(p1 * q1, p2) /\ Coprime(p1 * q1, q2)
    BY <1>5, <1>6, <1>7, CoprimeProduct
  <2>2. Coprime(p2, p1 * q1) /\ Coprime(q2, p1 * q1) /\ p1 * q1 \in Int
    BY <1>5, <2>1, CoprimeTurned
  <2>3. Coprime(p2 * q2, p1 * q1) /\ p2 * q2 \in Int
    BY <1>5, <2>2, CoprimeProduct
  <2> QED
    BY <2>2, <2>3, CoprimeTurned
<1>9. (p1 * q1) * (d * e) = (n * m) * (p2 * q2)
  <2>1. (g * p1) * d = n * (h * q2) /\ (h * q1) * e = m * (g * p2)
    BY <1>2, <1>3, <1>4
  <2>2. ((g * p1) * d) * ((h * q1) * e) = (n * (h * q2)) * (m * (g * p2))
    BY <2>1
  <2>3. ((g * p1) * d) * ((h * q1) * e) = g * (h * ((p1 * q1) * (d * e)))
    BY <1>3, <1>4, <1>5
  <2>4. (n * (h * q2)) * (m * (g * p2)) = g * (h * ((n * m) * (p2 * q2)))
    BY <1>3, <1>4, <1>5
  <2>5. /\ (p1 * q1) * (d * e) \in Int /\ (n * m) * (p2 * q2) \in Int
    BY <1>5
  <2>6. /\ h * ((p1 * q1) * (d * e)) \in Int /\ h * ((n * m) * (p2 * q2)) \in Int
    BY <2>5
  <2>7. h * ((p1 * q1) * (d * e)) = h * ((n * m) * (p2 * q2))
    BY <2>2, <2>3, <2>4, <2>6, CancelFactor
  <2> QED
    BY <2>5, <2>7, CancelFactor
<1>10. p1 * q1 \in Int /\ p2 * q2 \in Nat \ {0}
  BY <1>5
<1> QED
  BY <1>1, <1>8, <1>9, <1>10 DEF Is, Lowest

LEMMA SquareIs ==
  ASSUME NEW a, NEW n \in Int, NEW d \in Nat \ {0}, Is(a, n, d)
  PROVE  Is(Square(a), n * n, d * d)
PROOF
  BY TimesIs DEF Square

LEMMA PlusIs ==
  ASSUME NEW a, NEW b, NEW n \in Int, NEW d \in Nat \ {0}, NEW m \in Int, NEW e \in Nat \ {0},
         Is(a, n, d), b \in Int \X (Nat \ {0}), b[1] * e = m * b[2]
  PROVE  Is(Plus(a, b), n * e + m * d, d * e)
PROOF
<1> DEFINE a1 == a[1]
           a2 == a[2]
           b1 == b[1]
           b2 == b[2]
           g == Gcd[<<a2, b2>>]
<1>1. /\ a1 \in Int /\ a2 \in Nat \ {0} /\ b1 \in Int /\ b2 \in Nat \ {0}
      /\ a1 * d = n * a2 /\ b1 * e = m * b2
  BY DEF Is, Lowest
<1>2. Plus(a, b) = Reduced(a1 * (b2 \div g) + b1 * (a2 \div g), a2 * (b2 \div g))
  BY DEF Plus
<1>3. Bezout(g, a2, b2)
  BY <1>1, GcdFacts
<1> HIDE DEF a1, a2, b1, b2, g
<1>4. PICK k, l \in Int : a2 = g * k /\ b2 = g * l
  BY <1>3 DEF Bezout, Divides
<1>5. g \in Nat \ {0}
  BY <1>1, <1>3 DEF Bezout
<1>6. a2 \div g = k /\ b2 \div g = l
  BY <1>4, <1>5, DivisionExact
<1>7. k \in Nat \ {0} /\ l \in Nat \ {0}
  BY <1>1, <1>4, <1>5
<1> DEFINE f == Reduced(a1 * l + b1 * k, a2 * l)
<1>8. a1 * l + b1 * k \in Int /\ a2 * l \in Nat \ {0}
  BY <1>1, <1>7
<1>9. Is(f, a1 * l + b1 * k, a2 * l)
  BY <1>8, ReducedIs
<1>10. (a1 * l + b1 * k) * (d * e) = (n * e + m * d) * (a2 * l)
  <2>1. (a1 * l + b1 * k) * (d * e) = (a1 * d) * (l * e) + (b1 * e) * (k * d)
    BY <1>1, <1>7
  <2>2. (a1 * d) * (l * e) = (n * a2) * (l * e) /\ (b1 * e) * (k * d) = (m * b2) * (k * d)
    BY <1>1
  <2>3. (m * b2) * (k * d) = (m * d) * (a2 * l)
    <3>1. b2 * k = a2 * l
      BY <1>4, <1>5
    <3>2. (m * b2) * (k * d) = (m * d) * (b2 * k)
      BY <1>1, <1>7
    <3> QED
      BY <3>1, <3>2
  <2>4. (n * a2) * (l * e) = (n * e) * (a2 * l)
    BY <1>1, <1>7
  <2>5. (n * e) * (a2 * l) + (m * d) * (a2 * l) = (n * e + m * d) * (a2 * l)
    BY <1>1, <1>7
  <2> QED
    BY <2>1, <2>2, <2>3, <2>4, <2>5
<1>11. n * e + m * d \in Int /\ d * e \in Nat \ {0}
  OBVIOUS
<1> HIDE DEF f
<1>12. Is(f, n * e + m * d, d * e)
  BY <1>8, <1>9, <1>10, <1>11, SameForm
<1> QED
  BY <1>2, <1>6, <1>12 DEF f

LEMMA MinusIs ==
  ASSUME NEW a, NEW b, NEW n \in Int, NEW d \in Nat \ {0}, NEW m \in Int, NEW e \in Nat \ {0},
         Is(a, n, d), Is(b, m, e)
  PROVE  Is(Minus(a, b), n * e - m * d, d * e)
PROOF
<1>1. b[1] \in Int /\ b[2] \in Nat \ {0} /\ b[1] * e = m * b[2]
  BY DEF Is, Lowest
<1> DEFINE c == <<-b[1], b[2]>>
<1>2. c \in Int \X (Nat \ {0}) /\ -m \in Int
  BY <1>1
<1>3. c[1] * e = (-m) * c[2]
  BY <1>1
<1>4. Minus(a, b) = Plus(a, c)
  BY DEF Minus
<1> HIDE DEF c
<1>5. Is(Plus(a, c), n * e + (-m) * d, d * e)
  BY <1>2, <1>3, PlusIs
<1>6. n * e + (-m) * d = n * e - m * d
  OBVIOUS
<1> QED
  BY <1>4, <1>5, <1>6

LEMMA OverIs ==
  ASSUME NEW a, NEW b, NEW n \in Int, NEW d \in Nat \ {0}, NEW m \in Nat \ {0}, NEW e \in Nat \ {0},
         Is(a, n, d), Is(b, m, e)
  PROVE  Is(Over(a, b), n * e, d * m)
PROOF
<1>1. /\ b[1] \in Int /\ b[2] \in Nat \ {0} /\ b[1] * e = m * b[2] /\ Coprime(b[1], b[2])
  BY DEF Is, Lowest
<1>2. b[1] \in Nat \ {0}
  <2>1. m * b[2] > 0
    BY <1>1
  <2> QED
    BY <1>1, <2>1
<1> DEFINE c == <<b[2], b[1]>>
<1>3. Is(c, e, m)
  <2>1. Coprime(b[2], b[1])
    BY <1>1, CoprimeTurned
  <2>2. b[2] * m = e * b[1]
    BY <1>1
  <2> QED
    BY <1>1, <1>2, <2>1, <2>2 DEF Is, Lowest
<1>4. Over(a, b) = Times(a, c)
  BY DEF Over
<1> HIDE DEF c
<1> QED
  BY <1>3, <1>4, TimesIs
=============================================================================
