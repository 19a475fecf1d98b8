---------------------------- MODULE NumberFacts ----------------------------
(***************************************************************************)
(* Facts about numbers: \div and %, which stand for the shifts and masks of *)
(* address arithmetic in Paging and LinearMemory, and the least and the     *)
(* greatest element of a set, which take the place of induction over lists  *)
(* of memory regions and lists of registers.                                *)
(***************************************************************************)
EXTENDS Integers, WellFoundedInduction, TLAPS

\* Division with remainder.
LEMMA Division ==
    ASSUME NEW p \in Nat \ {0}, NEW a \in Int
    PROVE  /\ a \div p \in Int /\ a % p \in 0 .. p - 1
           /\ a = (a \div p) * p + (a % p)
PROOF BY Z3

\* Multiples of p are equal only if the factors are.
LEMMA SameMultiple ==
    ASSUME NEW p \in Nat \ {0}, NEW j \in Int, NEW k \in Int, j * p = k * p
    PROVE  j = k
PROOF
  <1>1. j * p \in Int /\ k * p \in Int /\ (j - k) * p = j * p - k * p /\ (k - j) * p = k * p - j * p
    OBVIOUS
  <1>2. CASE j - k >= 1
    <2>1. (j - k) * p >= p
      BY <1>2
    <2>2. QED
      BY <1>1, <2>1
  <1>3. CASE k - j >= 1
    <2>1. (k - j) * p >= p
      BY <1>3
    <2>2. QED
      BY <1>1, <2>1
  <1>4. QED
    BY <1>2, <1>3

\* The remainder of a multiple of p and a remainder is that remainder.
LEMMA RemainderUnique ==
    ASSUME NEW p \in Nat \ {0}, NEW k \in Int, NEW r \in 0 .. p - 1
    PROVE  (k * p + r) % p = r
PROOF
  <1> DEFINE x == k * p + r
  <1> DEFINE q == x \div p
  <1> DEFINE s == x % p
  <1>1. k * p \in Int /\ x \in Int
    OBVIOUS
  <1>2. q \in Int /\ s \in 0 .. p - 1 /\ x = q * p + s
    BY <1>1, Division
  <1>3. q * p \in Int /\ (k - q) * p = k * p - q * p
    BY <1>2
  <1>4. (k - q) * p = s - r
    BY <1>1, <1>2, <1>3
  <1>5. s - r < p /\ s - r > -p
    BY <1>2
  <1>6. k - q = 0
    <2> DEFINE d == k - q
    <2>1. d \in Int /\ d * p < p /\ d * p > -p
      BY <1>2, <1>4, <1>5
    <2>2. CASE d >= 1
      <3>1. d * p >= p
        BY <2>1, <2>2
      <3>2. QED
        BY <3>1, <2>1
    <2>3. CASE d <= -1
      <3>1. d * p <= -p
        BY <2>1, <2>3
      <3>2. QED
        BY <3>1, <2>1
    <2>4. QED
      BY <2>1, <2>2, <2>3
  <1>7. QED
    BY <1>2, <1>4, <1>6

\* Adding a multiple of p does not change the remainder.
LEMMA RemainderShift ==
    ASSUME NEW p \in Nat \ {0}, NEW k \in Int, NEW a \in Int
    PROVE  (a + k * p) % p = a % p
PROOF
  <1> DEFINE q == a \div p
  <1> DEFINE r == a % p
  <1>1. q \in Int /\ r \in 0 .. p - 1 /\ a = q * p + r
    BY Division
  <1>2. q * p \in Int /\ k * p \in Int /\ (q + k) * p = q * p + k * p
    BY <1>1
  <1>3. a + k * p = (q + k) * p + r
    BY <1>1, <1>2
  <1>4. q + k \in Int
    BY <1>1
  <1>5. ((q + k) * p + r) % p = r
    BY <1>1, <1>4, RemainderUnique
  <1>6. QED
    BY <1>3, <1>5

\* The remainder by p of a remainder by a multiple of p.
LEMMA RemainderTwice ==
    ASSUME NEW p \in Nat \ {0}, NEW n \in Nat \ {0}, NEW m \in Nat \ {0}, m = p * n,
           NEW a \in Int
    PROVE  (a % m) % p = a % p
PROOF
  <1> DEFINE q == a \div m
  <1> DEFINE r == a % m
  <1>0. q \in Int /\ r \in 0 .. m - 1 /\ a = q * m + r
    BY Division, Zenon
  <1> HIDE DEF q, r
  <1>1. q \in Int /\ r \in Int /\ a = q * m + r
    BY <1>0
  <1>2. q * m = (q * n) * p
    BY <1>1
  <1>3. q * n \in Int /\ -(q * n) \in Int
    BY <1>1
  <1>4. (-(q * n)) * p = -((q * n) * p) /\ (q * n) * p \in Int
    BY <1>3
  <1>5. r = a + (-(q * n)) * p
    BY <1>1, <1>2, <1>4
  <1>6. r % p = a % p
    BY <1>3, <1>5, RemainderShift
  <1>7. QED
    BY <1>6 DEF r

\* A quotient is known from any division with remainder.
LEMMA QuotientUnique ==
    ASSUME NEW p \in Nat \ {0}, NEW k \in Int, NEW r \in 0 .. p - 1
    PROVE  (k * p + r) \div p = k
PROOF
  <1> DEFINE x == k * p + r
             q == x \div p
  <1>1. x \in Int /\ k * p \in Int /\ r \in Int
    OBVIOUS
  <1>2. q \in Int /\ x = q * p + (x % p)
    BY <1>1, Division
  <1>3. x % p = r
    BY RemainderUnique
  <1>4. q * p = k * p
    <2>1. q * p \in Int
      BY <1>2
    <2>2. QED
      BY <1>1, <1>2, <1>3, <2>1
  <1>5. QED
    BY <1>2, <1>4, SameMultiple

\* Adding a multiple of p adds the factor to the quotient.
LEMMA QuotientShift ==
    ASSUME NEW p \in Nat \ {0}, NEW k \in Int, NEW a \in Int
    PROVE  (k * p + a) \div p = k + (a \div p)
PROOF
  <1> DEFINE q == a \div p
             r == a % p
  <1>1. q \in Int /\ r \in 0 .. p - 1 /\ a = q * p + r
    BY Division, Zenon
  <1>2. k * p \in Int /\ q * p \in Int /\ (k + q) * p = k * p + q * p /\ k + q \in Int
    BY <1>1
  <1>3. k * p + a = (k + q) * p + r
    BY <1>1, <1>2
  <1>4. ((k + q) * p + r) \div p = k + q
    BY <1>1, <1>2, QuotientUnique
  <1>5. QED
    BY <1>3, <1>4

\* Scaling a number and the modulus scales the remainder.
LEMMA RemainderScaled ==
    ASSUME NEW k \in Nat \ {0}, NEW n \in Nat \ {0}, NEW a \in Int
    PROVE  (a * k) % (k * n) = (a % n) * k
PROOF
  <1> DEFINE m == k * n
             q == a \div n
             r == a % n
  <1>1. q \in Int /\ r \in 0 .. n - 1 /\ a = q * n + r
    BY Division, Zenon
  <1> HIDE DEF q, r
  <1>2. m \in Nat \ {0} /\ r * k \in Int /\ q * m \in Int
    BY <1>1
  <1>3. r * k \in 0 .. m - 1
    <2>1. r >= 0 /\ n - 1 - r >= 0 /\ r \in Int
      BY <1>1
    <2>2. r * k >= 0 /\ (n - 1 - r) * k >= 0
      BY <2>1
    <2>3. (n - 1 - r) * k = m - k - r * k
      BY <2>1
    <2>4. QED
      BY <1>2, <2>2, <2>3
  <1>4. a * k = q * m + r * k
    BY <1>1
  <1>5. (q * m + r * k) % m = r * k
    BY <1>1, <1>2, <1>3, RemainderUnique
  <1>6. QED
    BY <1>4, <1>5 DEF r

\* A multiple of k rounded down to a multiple of k * n.
LEMMA RoundedDown ==
    ASSUME NEW k \in Nat \ {0}, NEW n \in Nat \ {0}, NEW a \in Int
    PROVE  (a * k) - ((a * k) % (k * n)) = (a \div n) * (k * n)
PROOF
  <1> DEFINE m == k * n
             q == a \div n
             r == a % n
  <1>1. q \in Int /\ r \in 0 .. n - 1 /\ a = q * n + r
    BY Division, Zenon
  <1>2. (a * k) % m = r * k
    BY RemainderScaled
  <1> HIDE DEF q, r
  <1>3. a * k = q * m + r * k /\ r * k \in Int /\ q * m \in Int
    BY <1>1
  <1>4. QED
    BY <1>2, <1>3 DEF q

\* The digit of a at x, of base n, is known from the remainder by a multiple of x * n.
LEMMA DigitOfRemainder ==
    ASSUME NEW x \in Nat \ {0}, NEW n \in Nat \ {0}, NEW c \in Nat \ {0},
           NEW a \in Int
    PROVE  ((a % ((c * n) * x)) \div x) % n = (a \div x) % n
PROOF
  <1> DEFINE m == (c * n) * x
             q == a \div m
             r == a % m
  <1>0. c * n \in Nat \ {0} /\ m \in Nat \ {0}
    <2>1. c * n \in Nat \ {0}
      OBVIOUS
    <2> DEFINE d == c * n
    <2>2. d \in Nat \ {0} /\ m = d * x
      BY <2>1
    <2> HIDE DEF d
    <2>3. m \in Nat \ {0}
      BY <2>2
    <2>4. QED
      BY <2>1, <2>3
  <1> HIDE DEF m
  <1>1. q \in Int /\ r \in 0 .. m - 1 /\ a = q * m + r
    BY <1>0, Division, Zenon
  <1> HIDE DEF q, r
  <1>2. r \in Int
    BY <1>0, <1>1
  <1>3. q * m = (q * (c * n)) * x /\ q * (c * n) \in Int /\ q * (c * n) = (q * c) * n
        /\ q * c \in Int
    BY <1>1 DEF m
  <1>4. a \div x = q * (c * n) + (r \div x)
    <2> DEFINE k == q * (c * n)
    <2>1. k \in Int /\ a = k * x + r
      BY <1>1, <1>3
    <2> HIDE DEF k
    <2>2. (k * x + r) \div x = k + (r \div x)
      BY <1>2, <2>1, QuotientShift
    <2>3. QED
      BY <2>1, <2>2 DEF k
  <1>5. r \div x \in Int
    BY <1>2, Division
  <1>6. ((r \div x) + (q * c) * n) % n = (r \div x) % n
    BY <1>3, <1>5, RemainderShift
  <1>7. QED
    <2>1. q * (c * n) + (r \div x) = (r \div x) + (q * c) * n
      BY <1>3, <1>5
    <2>2. QED
      BY <1>4, <1>6, <2>1 DEF r, m

\* A number below the modulus is its own remainder.
LEMMA RemainderBelow ==
    ASSUME NEW p \in Nat \ {0}, NEW a \in 0 .. p - 1
    PROVE  a % p = a
PROOF
  <1>1. 0 * p + a = a
    OBVIOUS
  <1>2. (0 * p + a) % p = a
    BY RemainderUnique
  <1>3. QED
    BY <1>1, <1>2

\* The quotient of a number below a multiple of p is below the factor.
LEMMA QuotientBelow ==
    ASSUME NEW p \in Nat \ {0}, NEW n \in Nat \ {0}, NEW a \in Nat, a < n * p
    PROVE  a \div p \in 0 .. n - 1
PROOF
  <1> DEFINE q == a \div p
             r == a % p
  <1>0. a \in Int
    OBVIOUS
  <1>1. q \in Int /\ r \in 0 .. p - 1 /\ a = q * p + r
    BY <1>0, Division, Zenon
  <1> HIDE DEF q, r
  <1>2. q * p \in Int /\ n * p \in Int
    BY <1>1
  <1>3. CASE q >= n
    <2>1. (q - n) * p >= 0 /\ (q - n) * p = q * p - n * p
      BY <1>1, <1>3
    <2>2. QED
      BY <1>1, <1>2, <2>1
  <1>4. CASE q <= -1
    <2>1. (-1 - q) * p >= 0 /\ (-1 - q) * p = -p - q * p
      BY <1>1, <1>4
    <2>2. QED
      BY <1>1, <1>2, <2>1
  <1>5. QED
    BY <1>1, <1>3, <1>4 DEF q

-----------------------------------------------------------------------------
(* Least and greatest elements *)

\* A set of natural numbers that is not empty has a least element.
LEMMA LeastNumber ==
    ASSUME NEW T, T \subseteq Nat, T # {}
    PROVE  \E x \in T : \A y \in T : x <= y
PROOF
  <1> DEFINE R == {ss \in Nat \X Nat : ss[1] < ss[2]}
  <1>1. OpToRel(<, Nat) = R
    BY DEF OpToRel
  <1>2. IsWellFoundedOn(R, Nat)
    BY <1>1, NatLessThanWellFounded
  <1>3. \A x, y \in Nat : y < x => <<y, x>> \in R
    OBVIOUS
  <1> HIDE DEF R
  <1>4. PICK x \in T : \A y \in T : ~(<<y, x>> \in R)
    BY <1>2, WFMin
  <1>5. ASSUME NEW y \in T PROVE x <= y
    <2>1. x \in Nat /\ y \in Nat
      OBVIOUS
    <2>2. ~(y < x)
      BY <1>3, <1>4, <2>1, Zenon
    <2>3. QED
      BY <2>1, <2>2
  <1>6. QED
    BY <1>5

\* A set of natural numbers below a bound has a greatest element.
LEMMA GreatestNumber ==
    ASSUME NEW n \in Nat, NEW T, T \subseteq 0 .. n, T # {}
    PROVE  \E x \in T : \A y \in T : y <= x
PROOF
  <1> DEFINE U == {k \in Nat : k <= n /\ n - k \in T}
  <1>1. U \subseteq Nat /\ U # {}
    <2>1. PICK y \in T : y \in 0 .. n
      OBVIOUS
    <2>2. n - y \in U
      BY <2>1
    <2>3. QED
      BY <2>2
  <1>2. PICK k \in U : \A j \in U : k <= j
    BY <1>1, LeastNumber
  <1>3. ASSUME NEW y \in T PROVE y <= n - k
    <2>1. y \in Nat /\ y <= n /\ n - y \in U
      OBVIOUS
    <2>2. k <= n - y
      BY <1>2, <2>1
    <2>3. QED
      BY <2>1, <2>2
  <1>4. QED
    BY <1>3

=============================================================================
