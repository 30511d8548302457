--------------------------- MODULE IntervalProofs ---------------------------
(***************************************************************************)
(* ISO 8601 durations, for every width of the integers and every unit that *)
(* satisfy UnitsAssumption: what is written is read back, and what is read *)
(* is the sum of the components.                                           *)
(***************************************************************************)
EXTENDS Interval, WellFoundedInduction, TLAPS

-----------------------------------------------------------------------------
(* Induction over the naturals, with a set for the predicate.              *)

\* The order of the naturals is well-founded.
LEMMA NatOrder == \E R : IsWellFoundedOn(R, Nat) /\ \A k, m \in Nat : k < m => <<k, m>> \in R
  <1>1. IsWellFoundedOn(OpToRel(<, Nat), Nat)
    BY NatLessThanWellFounded
  <1>2. \A k, m \in Nat : k < m => <<k, m>> \in OpToRel(<, Nat)
    BY DEF OpToRel
  <1> QED
    BY <1>1, <1>2

\* A set of naturals has a least element.
LEMMA NatMin ==
    ASSUME NEW T, T \subseteq Nat, T # {}
    PROVE  \E x \in T : \A y \in T : x <= y
  <1>1. PICK R : IsWellFoundedOn(R, Nat) /\ \A k, m \in Nat : k < m => <<k, m>> \in R
    BY NatOrder
  <1>2. IsWellFoundedOn(R, Nat)
    BY <1>1
  <1>3. \E x \in T : \A y \in T : ~(<<y, x>> \in R)
    BY <1>2, WFMin, Zenon
  <1>4. PICK x \in T : \A y \in T : ~(<<y, x>> \in R)
    BY <1>3
  <1>5. x \in Nat
    OBVIOUS
  <1>6. ASSUME NEW y \in T PROVE x <= y
    <2>1. y \in Nat
      OBVIOUS
    <2>2. ~(y < x)
      BY <1>1, <1>4, <1>5, <2>1
    <2> QED
      BY <1>5, <2>1, <2>2
  <1> QED
    BY <1>6

\* Induction.
LEMMA Induction ==
    ASSUME NEW T, 0 \in T, \A k \in Nat : k \in T => k + 1 \in T
    PROVE  \A k \in Nat : k \in T
  <1> SUFFICES ASSUME Nat \ T # {} PROVE FALSE
    OBVIOUS
  <1>1. PICK x \in Nat \ T : \A y \in Nat \ T : x <= y
    BY NatMin
  <1>2. x # 0 /\ x - 1 \in Nat
    BY <1>1
  <1>3. x - 1 \notin Nat \ T
    BY <1>1, <1>2
  <1> QED
    BY <1>1, <1>2, <1>3

-----------------------------------------------------------------------------
(* Functions defined by recursion: sums and powers.                        *)

\* The powers of ten up to n.
Powers(n, p) ==
    /\ p \in [0 .. n -> Nat \ {0}] /\ p[0] = 1
    /\ \A k \in 1 .. n : p[k] = 10 * p[k - 1]

\* The powers of ten up to any n exist.
LEMMA PowersExist == \A n \in Nat : \E p : Powers(n, p)
  <1> DEFINE T == {n \in Nat : \E p : Powers(n, p)}
  <1>1. 0 \in T
    <2>1. Powers(0, [k \in 0 .. 0 |-> 1])
      BY DEF Powers
    <2> QED
      BY <2>1
  <1>2. ASSUME NEW n \in Nat, n \in T PROVE n + 1 \in T
    <2>1. PICK p : Powers(n, p)
      BY <1>2
    <2> DEFINE s == [k \in 0 .. n + 1 |-> IF k = n + 1 THEN 10 * p[n] ELSE p[k]]
    <2>2. \A k \in 0 .. n : p[k] \in Nat \ {0}
      BY <2>1 DEF Powers
    <2>3. s \in [0 .. n + 1 -> Nat \ {0}] /\ s[0] = 1
      BY <2>1, <2>2 DEF Powers
    <2>4. \A k \in 1 .. n + 1 : s[k] = 10 * s[k - 1]
      BY <2>1, <2>2 DEF Powers
    <2>5. Powers(n + 1, s)
      BY <2>3, <2>4 DEF Powers
    <2> QED
      BY <2>5
  <1> HIDE DEF T
  <1>3. \A n \in Nat : n \in T
    BY <1>1, <1>2, Induction
  <1> QED
    BY <1>3 DEF T

\* There is one choice of them.
LEMMA PowersAgree ==
    ASSUME NEW n \in Nat, NEW m \in Nat, NEW p, NEW s, Powers(n, p), Powers(m, s), NEW k \in Nat,
           k <= n, k <= m
    PROVE  p[k] = s[k]
  <1> DEFINE T == {j \in Nat : j <= n /\ j <= m => p[j] = s[j]}
  <1>1. 0 \in T
    BY DEF Powers
  <1>2. ASSUME NEW j \in Nat, j \in T PROVE j + 1 \in T
    <2> SUFFICES ASSUME j + 1 <= n, j + 1 <= m PROVE p[j + 1] = s[j + 1]
      OBVIOUS
    <2>1. p[j] = s[j] /\ j + 1 \in 1 .. n /\ j + 1 \in 1 .. m /\ (j + 1) - 1 = j
      BY <1>2
    <2> QED
      BY <2>1 DEF Powers
  <1> HIDE DEF T
  <1>3. \A j \in Nat : j \in T
    BY <1>1, <1>2, Induction
  <1> QED
    BY <1>3 DEF T

\* Pow10 is a function on the naturals, and positive.
LEMMA PowerFacts ==
    /\ Pow10[0] = 1
    /\ \A k \in Nat : Pow10[k] \in Nat \ {0}
  <1> DEFINE P(n) == CHOOSE p : Powers(n, p)
             G == [k \in Nat |-> P(k)[k]]
             E(g) == g = [k \in Nat |-> IF k = 0 THEN 1 ELSE 10 * g[k - 1]]
  <1>1. \A n \in Nat : Powers(n, P(n))
    BY PowersExist
  <1> HIDE DEF P
  <1>2. ASSUME NEW k \in Nat PROVE G[k] = IF k = 0 THEN 1 ELSE 10 * G[k - 1]
    <2>1. CASE k = 0
      BY <1>1, <2>1 DEF Powers
    <2>2. CASE k # 0
      <3>1. k - 1 \in Nat /\ k \in 1 .. k /\ k - 1 <= k /\ k - 1 <= k - 1
        BY <2>2
      <3>2. P(k)[k] = 10 * P(k)[k - 1]
        BY <1>1, <3>1 DEF Powers
      <3>3. P(k)[k - 1] = P(k - 1)[k - 1]
        BY <1>1, <3>1, PowersAgree
      <3> QED
        BY <2>2, <3>1, <3>2, <3>3
    <2> QED
      BY <2>1, <2>2
  <1>3. E(G)
    BY <1>2
  <1>4. Pow10 = CHOOSE g : E(g)
    BY DEF Pow10
  <1> HIDE DEF E, G
  <1>5. E(Pow10)
    BY <1>3, <1>4
  <1>6. \A k \in Nat : Pow10[k] = IF k = 0 THEN 1 ELSE 10 * Pow10[k - 1]
    <2>1. Pow10 = [k \in Nat |-> IF k = 0 THEN 1 ELSE 10 * Pow10[k - 1]]
      BY <1>5 DEF E
    <2> QED
      BY <2>1
  <1> DEFINE T == {k \in Nat : Pow10[k] \in Nat \ {0}}
  <1>7. 0 \in T
    BY <1>6
  <1>8. ASSUME NEW k \in Nat, k \in T PROVE k + 1 \in T
    <2>1. Pow10[k + 1] = 10 * Pow10[k]
      BY <1>6
    <2> QED
      BY <1>8, <2>1
  <1> HIDE DEF T
  <1>9. \A k \in Nat : k \in T
    BY <1>7, <1>8, Induction
  <1> QED
    BY <1>6, <1>9 DEF T

-----------------------------------------------------------------------------
(* Go's integers.                                                          *)

\* The constants.
LEMMA Units ==
    /\ W32 \in Nat \ {0} /\ W64 \in Nat \ {0} /\ Digits \in Nat \ {0}
    /\ Second \in Nat \ {0} /\ Minute \in Nat \ {0} /\ Hour \in Nat \ {0}
    /\ Hour <= W64 /\ Second = Pow10[Digits]
  BY UnitsAssumption

\* A number in range is itself.
LEMMA WrapId ==
    ASSUME NEW w \in Nat \ {0}, NEW x \in -w .. w - 1
    PROVE  Wrap(x, w) = x
  BY DEF Wrap

\* A wrapped number is in range.
LEMMA WrapRange ==
    ASSUME NEW w \in Nat \ {0}, NEW x \in Int
    PROVE  Wrap(x, w) \in -w .. w - 1
  <1>1. 2 * w \in Nat \ {0}
    OBVIOUS
  <1>2. (x + w) % (2 * w) \in 0 .. (2 * w) - 1
    BY <1>1
  <1> QED
    BY <1>2 DEF Wrap

\* A product with a factor that is not zero.
LEMMA Multiple ==
    ASSUME NEW m \in Nat \ {0}, NEW e \in Int, m * e < m, -m < m * e
    PROVE  e = 0
  <1>1. ASSUME e >= 1 PROVE m * e >= m
    BY <1>1
  <1>2. ASSUME e <= -1 PROVE m * e <= -m
    BY <1>2
  <1> QED
    BY <1>1, <1>2

\* Division with a remainder.
LEMMA DivMod ==
    ASSUME NEW y \in Int, NEW m \in Nat \ {0}
    PROVE  \E d \in Int, b \in 0 .. m - 1 : d = y \div m /\ b = y % m /\ y = (m * d) + b
  <1>1. y \div m \in Int /\ y % m \in 0 .. m - 1 /\ y = (m * (y \div m)) + (y % m)
    OBVIOUS
  <1> QED
    BY <1>1

\* The remainder is the only one.
LEMMA ModIs ==
    \A m \in Nat \ {0} : \A q \in Int, b \in 0 .. m - 1, a \in Int : a = (m * q) + b => a % m = b
  <1> SUFFICES ASSUME NEW m \in Nat \ {0}, NEW q \in Int, NEW b \in 0 .. m - 1, NEW a \in Int,
                      a = (m * q) + b
               PROVE  a % m = b
    OBVIOUS
  <1>1. PICK d \in Int, e \in 0 .. m - 1 : e = a % m /\ a = (m * d) + e
    BY DivMod
  <1>2. m * (q - d) = (m * q) - (m * d)
    OBVIOUS
  <1>3. m * (q - d) = e - b
    BY <1>1, <1>2
  <1>4. e - b < m /\ -m < e - b
    OBVIOUS
  <1>5. PICK h \in Int : h = q - d
    OBVIOUS
  <1>6. h = 0
    BY <1>3, <1>4, <1>5, Multiple
  <1>7. q = d
    BY <1>5, <1>6
  <1> QED
    BY <1>1, <1>7

\* Congruence, and wrapping as its normal form.
Cong(a, b, w) == \E k \in Int : a = b + ((2 * w) * k)

\* Wrapping adds a multiple of the range.
LEMMA WrapCong ==
    ASSUME NEW w \in Nat \ {0}, NEW x \in Int
    PROVE  Cong(Wrap(x, w), x, w)
  <1>1. PICK m \in Nat \ {0}, y \in Int : m = 2 * w /\ y = x + w
    OBVIOUS
  <1>2. PICK d \in Int, b \in 0 .. m - 1 : b = y % m /\ y = (m * d) + b
    BY DivMod
  <1>3. m * (-d) = -(m * d)
    OBVIOUS
  <1>4. Wrap(x, w) = b - w
    BY <1>1, <1>2 DEF Wrap
  <1>5. Wrap(x, w) = x + (m * (-d)) /\ -d \in Int
    BY <1>1, <1>2, <1>3, <1>4
  <1> QED
    BY <1>1, <1>5 DEF Cong

\* Multiplication distributes.
LEMMA Distribute ==
    ASSUME NEW m \in Int, NEW j \in Int, NEW k \in Int
    PROVE  m * (j + k) = (m * j) + (m * k) /\ m * j \in Int /\ m * k \in Int
  OBVIOUS

\* A multiple of the modulus does not change the remainder.
LEMMA ModAdd ==
    ASSUME NEW m \in Nat \ {0}, NEW y \in Int, NEW k \in Int
    PROVE  \A z \in Int : z = y + (m * k) => z % m = y % m
  <1>1. PICK d \in Int, e \in 0 .. m - 1 : d = y \div m /\ e = y % m /\ y = (m * d) + e
    BY DivMod
  <1>2. PICK q \in Int : q = d + k
    OBVIOUS
  <1>3. \A z \in Int : z = (m * q) + e => z % m = e
    BY ModIs
  <1>4. m * q = (m * d) + (m * k)
    BY <1>2, Distribute
  <1>5. PICK u1 \in Int, u2 \in Int, u3 \in Int : u1 = m * d /\ u2 = m * k /\ u3 = m * q
    OBVIOUS
  <1>6. u3 = u1 + u2 /\ y = u1 + e
    BY <1>1, <1>4, <1>5
  <1>7. \A z \in Int : z = y + u2 => z = u3 + e
    BY <1>6
  <1> QED
    BY <1>1, <1>3, <1>5, <1>7, Zenon

\* Congruent numbers wrap to the same number.
LEMMA WrapSame ==
    ASSUME NEW w \in Nat \ {0}, NEW a \in Int, NEW b \in Int, Cong(a, b, w)
    PROVE  Wrap(a, w) = Wrap(b, w)
  <1>1. PICK k \in Int : a = b + ((2 * w) * k)
    BY DEF Cong
  <1>2. PICK m \in Nat \ {0} : m = 2 * w
    OBVIOUS
  <1>3. PICK e \in Int : e = m * k
    OBVIOUS
  <1>4. a = b + e
    BY <1>1, <1>2, <1>3
  <1>5. a + w = (b + w) + e
    BY <1>4
  <1>6. (a + w) % m = (b + w) % m
    <2>1. PICK y \in Int, z \in Int : y = b + w /\ z = a + w
      OBVIOUS
    <2>2. z = y + (m * k)
      BY <1>3, <1>5, <2>1
    <2>3. z % m = y % m
      BY <2>2, ModAdd
    <2> QED
      BY <2>1, <2>3
  <1> QED
    BY <1>2, <1>6 DEF Wrap

\* Congruences add.
LEMMA CongAdd ==
    ASSUME NEW w \in Nat \ {0}, NEW a \in Int, NEW b \in Int, NEW c1 \in Int, NEW d \in Int,
           Cong(a, b, w), Cong(c1, d, w)
    PROVE  Cong(a + c1, b + d, w)
  <1> DEFINE m == 2 * w
  <1>1. PICK j \in Int, k \in Int : a = b + (m * j) /\ c1 = d + (m * k)
    BY DEF Cong
  <1>2. m * (j + k) = (m * j) + (m * k) /\ m \in Int
    OBVIOUS
  <1>3. a + c1 = (b + d) + (m * (j + k)) /\ j + k \in Int
    BY <1>1, <1>2
  <1> QED
    BY <1>3 DEF Cong

\* Congruences can be negated.
LEMMA CongNeg ==
    ASSUME NEW w \in Nat \ {0}, NEW a \in Int, NEW b \in Int, Cong(a, b, w)
    PROVE  Cong(-a, -b, w)
  <1> DEFINE m == 2 * w
  <1>1. PICK k \in Int : a = b + (m * k)
    BY DEF Cong
  <1>2. m * (-k) = -(m * k) /\ m \in Int /\ -k \in Int
    OBVIOUS
  <1>3. -a = (-b) + (m * (-k))
    BY <1>1, <1>2
  <1> QED
    BY <1>2, <1>3 DEF Cong

\* Congruence is reflexive.
LEMMA CongId == ASSUME NEW w \in Nat \ {0}, NEW a \in Int PROVE Cong(a, a, w)
  <1>1. a = a + ((2 * w) * 0)
    OBVIOUS
  <1> QED
    BY <1>1 DEF Cong

\* Go's division: the parts of a number recompose it and are no larger.
LEMMA QuotFacts ==
    ASSUME NEW a \in Int, NEW b \in Nat \ {0}
    PROVE  /\ Quot(a, b) \in Int /\ Rem(a, b) \in Int
           /\ a = (b * Quot(a, b)) + Rem(a, b)
           /\ a >= 0 => Quot(a, b) >= 0 /\ Rem(a, b) \in 0 .. b - 1 /\ b * Quot(a, b) >= 0
           /\ a <= 0 => Quot(a, b) <= 0 /\ Rem(a, b) \in -(b - 1) .. 0 /\ b * Quot(a, b) <= 0
  <1>1. CASE a >= 0
    <2>1. PICK d \in Int, r \in 0 .. b - 1 : d = a \div b /\ a = (b * d) + r
      <3>1. a \div b \in Int /\ a % b \in 0 .. b - 1 /\ a = (b * (a \div b)) + (a % b)
        OBVIOUS
      <3> QED
        BY <3>1
    <2>2. d >= 0
      <3>1. ASSUME d <= -1 PROVE b * d <= -b
        BY <3>1
      <3> QED
        BY <1>1, <2>1, <3>1
    <2>3. b * d >= 0
      BY <2>2
    <2>4. Quot(a, b) = d /\ Rem(a, b) = r
      BY <1>1, <2>1 DEF Quot, Rem
    <2>5. a <= 0 => a = 0 /\ d <= 0 /\ r = 0
      <3>1. ASSUME d >= 1 PROVE b * d >= b
        BY <3>1
      <3> QED
        BY <1>1, <2>1, <2>2, <2>3, <3>1
    <2> QED
      BY <2>1, <2>2, <2>3, <2>4, <2>5
  <1>2. CASE a < 0
    <2>1. PICK d \in Int, r \in 0 .. b - 1 : d = (-a) \div b /\ -a = (b * d) + r
      <3>1. /\ (-a) \div b \in Int /\ (-a) % b \in 0 .. b - 1
            /\ -a = (b * ((-a) \div b)) + ((-a) % b)
        OBVIOUS
      <3> QED
        BY <3>1
    <2>2. d >= 0
      <3>1. ASSUME d <= -1 PROVE b * d <= -b
        BY <3>1
      <3> QED
        BY <1>2, <2>1, <3>1
    <2>3. b * d >= 0 /\ b * (-d) = -(b * d)
      BY <2>2
    <2>4. Quot(a, b) = -d /\ Rem(a, b) = -r
      BY <1>2, <2>1, <2>3 DEF Quot, Rem
    <2> QED
      BY <1>2, <2>1, <2>2, <2>3, <2>4
  <1> QED
    BY <1>1, <1>2

-----------------------------------------------------------------------------
(* Writing.                                                                *)

\* A number that is smaller than the divisor is its own remainder.
LEMMA SmallMod ==
    ASSUME NEW m \in Nat \ {0}, NEW x \in 0 .. m - 1
    PROVE  x % m = x
  OBVIOUS

\* The trailing zeros of a fraction come back when it is read.
LEMMA FracFacts ==
    ASSUME NEW x \in 0 .. Second - 1
    PROVE  /\ formatIntervalFrac(x).digits \in 0 .. Digits /\ formatIntervalFrac(x).num \in Nat
           /\ formatIntervalFrac(x).num * Pow10[Digits - formatIntervalFrac(x).digits] = x
           /\ formatIntervalFrac(x).digits = 0 => x = 0 /\ formatIntervalFrac(x).num = 0
  <1> USE Units
  <1>1. CASE x = 0
    <2>1. formatIntervalFrac(x).digits = 0 /\ formatIntervalFrac(x).num = 0 /\ Pow10[Digits] \in Nat
      BY <1>1, PowerFacts DEF formatIntervalFrac
    <2>2. Digits - 0 = Digits
      OBVIOUS
    <2> QED
      BY <1>1, <2>1, <2>2
  <1>2. CASE x # 0
    <2> DEFINE Cut(k) == x % Pow10[k] = 0 /\ \A j \in k + 1 .. Digits : x % Pow10[j] # 0
               T == {Digits - k : k \in {j \in 0 .. Digits : x % Pow10[j] = 0}}
    <2>1. Digits \in T
      <3>1. x % Pow10[0] = 0 /\ 0 \in 0 .. Digits /\ Digits - 0 = Digits
        BY PowerFacts
      <3> QED
        BY <3>1
    <2>2. T \subseteq Nat
      OBVIOUS
    <2> HIDE DEF T
    <2>3. PICK t \in T : \A y \in T : t <= y
      <3>1. T # {}
        BY <2>1
      <3> QED
        BY <2>2, <3>1, NatMin, Zenon
    <2>4. PICK k \in 0 .. Digits : t = Digits - k /\ x % Pow10[k] = 0
      BY <2>3 DEF T
    <2>5. \A j \in k + 1 .. Digits : x % Pow10[j] # 0
      <3> SUFFICES ASSUME NEW j \in k + 1 .. Digits, x % Pow10[j] = 0 PROVE FALSE
        OBVIOUS
      <3>1. Digits - j \in T
        BY DEF T
      <3>2. Digits - k <= Digits - j
        BY <2>3, <2>4, <3>1
      <3> QED
        BY <3>2
    <2>6. \E h \in 0 .. Digits : Cut(h)
      BY <2>4, <2>5
    <2>7. PICK cut \in 0 .. Digits : cut = (CHOOSE h \in 0 .. Digits : Cut(h)) /\ Cut(cut)
      BY <2>6
    <2>8. formatIntervalFrac(x) = [digits |-> Digits - cut, num |-> x \div Pow10[cut]]
      BY <1>2, <2>7 DEF formatIntervalFrac
    <2>9. PICK P \in Nat \ {0} : P = Pow10[cut]
      BY PowerFacts
    <2>10. x % P = 0
      BY <2>7, <2>9
    <2>11. PICK d \in Int, b \in 0 .. P - 1 : d = x \div P /\ b = x % P /\ x = (P * d) + b
      <3>1. x \in Int
        OBVIOUS
      <3> QED
        BY <3>1, DivMod, Zenon
    <2>12. x = P * d /\ d >= 0
      <3>1. x = P * d
        BY <2>10, <2>11
      <3>2. ASSUME d <= -1 PROVE P * d <= -P
        BY <3>2
      <3> QED
        BY <2>11, <3>1, <3>2
    <2>13. Digits - (Digits - cut) = cut
      OBVIOUS
    <2>14. d * P = x
      BY <2>12
    <2>15. Digits - cut = 0 => x = 0
      <3> SUFFICES ASSUME cut = Digits PROVE FALSE
        BY <1>2
      <3>1. P = Second
        BY <2>9
      <3>2. x % P = x
        BY <3>1, SmallMod
      <3> QED
        BY <1>2, <2>10, <3>2
    <2> QED
      BY <2>8, <2>9, <2>11, <2>12, <2>13, <2>14, <2>15
  <1> QED
    BY <1>1, <1>2

-----------------------------------------------------------------------------
(* Sums.                                                                   *)

\* The sums of the first elements of q, up to the nth.
Sums(n, q, p) ==
    /\ p \in [0 .. n -> Int] /\ p[0] = 0
    /\ \A k \in 1 .. n : p[k] = p[k - 1] + q[k]

\* Every sequence of integers has its sums.
LEMMA SumsExist ==
    ASSUME NEW n \in Nat, NEW q \in [1 .. n -> Int]
    PROVE  \E p : Sums(n, q, p)
  <1> DEFINE T == {m \in Nat : m <= n => \E p : Sums(m, q, p)}
  <1>1. 0 \in T
    <2>1. Sums(0, q, [k \in 0 .. 0 |-> 0])
      BY DEF Sums
    <2> QED
      BY <2>1
  <1>2. ASSUME NEW m \in Nat, m \in T PROVE m + 1 \in T
    <2> SUFFICES ASSUME m + 1 <= n PROVE \E p : Sums(m + 1, q, p)
      OBVIOUS
    <2>1. PICK p : Sums(m, q, p)
      BY <1>2
    <2> DEFINE s == [k \in 0 .. m + 1 |-> IF k = m + 1 THEN p[m] + q[m + 1] ELSE p[k]]
    <2>2. (\A k \in 0 .. m : p[k] \in Int) /\ q[m + 1] \in Int
      BY <2>1 DEF Sums
    <2>3. s \in [0 .. m + 1 -> Int] /\ s[0] = 0
      BY <2>1, <2>2 DEF Sums
    <2>4. ASSUME NEW k \in 1 .. m + 1 PROVE s[k] = s[k - 1] + q[k]
      <3>1. k - 1 \in 0 .. m + 1 /\ k - 1 # m + 1 /\ k \in 0 .. m + 1
        OBVIOUS
      <3>2. s[k - 1] = p[k - 1] /\ s[k] = IF k = m + 1 THEN p[m] + q[m + 1] ELSE p[k]
        BY <3>1
      <3>3. CASE k = m + 1
        <4>1. k - 1 = m
          BY <3>3
        <4> QED
          BY <3>2, <3>3, <4>1
      <3>4. CASE k # m + 1
        <4>1. k \in 1 .. m
          BY <3>4
        <4>2. p[k] = p[k - 1] + q[k]
          BY <2>1, <4>1 DEF Sums
        <4> QED
          BY <3>2, <3>4, <4>2
      <3> QED
        BY <3>3, <3>4
    <2>5. Sums(m + 1, q, s)
      BY <2>3, <2>4 DEF Sums
    <2> QED
      BY <2>5
  <1> HIDE DEF T
  <1>3. \A m \in Nat : m \in T
    BY <1>1, <1>2, Induction
  <1> QED
    BY <1>3 DEF T

\* Total is the last of them.
LEMMA TotalFacts ==
    ASSUME NEW n \in Nat, NEW q \in [1 .. n -> Int]
    PROVE  \E p : Sums(n, q, p) /\ Total(q) = p[n]
  <1>1. PICK p : Sums(n, q, p)
    BY SumsExist
  <1>2. q \in Seq(Int) /\ Len(q) = n
    OBVIOUS
  <1> DEFINE E(g) == g = [k \in 0 .. Len(q) |-> IF k = 0 THEN 0 ELSE g[k - 1] + q[k]]
  <1>3. E(p)
    <2>1. \A k \in 0 .. n : p[k] = IF k = 0 THEN 0 ELSE p[k - 1] + q[k]
      BY <1>1 DEF Sums
    <2>2. p = [k \in 0 .. n |-> p[k]]
      BY <1>1 DEF Sums
    <2>3. p = [k \in 0 .. n |-> IF k = 0 THEN 0 ELSE p[k - 1] + q[k]]
      BY <2>1, <2>2
    <2> QED
      BY <1>2, <2>3
  <1>4. PICK s : s = CHOOSE g : E(g)
    OBVIOUS
  <1>5. Total(q) = s[Len(q)]
    BY <1>4 DEF Total
  <1>6. E(s)
    BY <1>3, <1>4
  <1>7. s = [k \in 0 .. n |-> IF k = 0 THEN 0 ELSE s[k - 1] + q[k]]
    BY <1>2, <1>6
  <1>8. s[0] = 0 /\ \A k \in 1 .. n : s[k] = s[k - 1] + q[k]
    BY <1>7
  <1>9. ASSUME NEW k \in 0 .. n PROVE s[k] \in Int
    <2> DEFINE T == {m \in Nat : m <= n => s[m] \in Int}
    <2>1. 0 \in T
      BY <1>8
    <2>2. ASSUME NEW m \in Nat, m \in T PROVE m + 1 \in T
      <3> SUFFICES ASSUME m + 1 <= n PROVE s[m + 1] \in Int
        OBVIOUS
      <3>1. s[m] \in Int /\ m + 1 \in 1 .. n /\ (m + 1) - 1 = m
        BY <2>2
      <3>2. s[m + 1] = s[m] + q[m + 1] /\ q[m + 1] \in Int
        BY <1>8, <3>1
      <3> QED
        BY <3>1, <3>2
    <2> HIDE DEF T
    <2>3. \A m \in Nat : m \in T
      BY <2>1, <2>2, Induction
    <2> QED
      BY <2>3 DEF T
  <1>10. s \in [0 .. n -> Int]
    BY <1>7, <1>9
  <1> QED
    BY <1>2, <1>5, <1>8, <1>10 DEF Sums

\* The sum of three parts of one element or none.
LEMMA ThreeTotal ==
    ASSUME NEW a \in {0, 1}, NEW b \in {0, 1}, NEW e \in {0, 1}, NEW q, NEW p,
           Sums(a + b + e, q, p),
           NEW x \in Int, NEW y \in Int, NEW z \in Int,
           IF a = 1 THEN q[1] = x ELSE x = 0,
           IF b = 1 THEN q[a + 1] = y ELSE y = 0,
           IF e = 1 THEN q[a + b + 1] = z ELSE z = 0
    PROVE  p[a + b + e] = x + y + z
  <1>1. /\ p[0] = 0
        /\ a = 1 => p[1] = p[0] + x
        /\ b = 1 => p[a + 1] = p[a] + y
        /\ e = 1 => p[a + b + 1] = p[a + b] + z
    <2>1. a = 1 => 1 \in 1 .. a + b + e /\ 1 - 1 = 0
      OBVIOUS
    <2>2. b = 1 => a + 1 \in 1 .. a + b + e /\ (a + 1) - 1 = a
      OBVIOUS
    <2>3. e = 1 => a + b + 1 \in 1 .. a + b + e /\ (a + b + 1) - 1 = a + b
      OBVIOUS
    <2> QED
      BY <2>1, <2>2, <2>3 DEF Sums
  <1>2. p[a] = x
    <2>1. CASE a = 0
      BY <1>1, <2>1
    <2>2. CASE a = 1
      BY <1>1, <2>2
    <2> QED
      BY <2>1, <2>2
  <1>3. p[a + b] = x + y
    <2>1. CASE b = 0
      <3>1. a + b = a /\ x + y = x
        BY <2>1
      <3> QED
        BY <1>2, <3>1
    <2>2. CASE b = 1
      BY <1>1, <1>2, <2>2
    <2> QED
      BY <2>1, <2>2
  <1>4. CASE e = 0
    <2>1. a + b + e = a + b /\ x + y + z = x + y
      BY <1>4
    <2> QED
      BY <1>3, <2>1
  <1>5. CASE e = 1
    BY <1>1, <1>3, <1>5
  <1> QED
    BY <1>4, <1>5

-----------------------------------------------------------------------------
(* Reading a component.                                                    *)

\* What reading a component adds.
MonthsOf(c) ==
    CASE c.unit = "Y" -> Wrap(Signed(c) * 12, W32)
      [] c.unit = "M" -> Signed(c)
      [] c.unit = "D" -> 0
DaysOf(c) == IF c.unit = "D" THEN Signed(c) ELSE 0
MicrosOf(c) ==
    CASE c.unit = "H" -> Wrap(Signed(c) * Hour, W64)
      [] c.unit = "M" -> Wrap(Signed(c) * Minute, W64)
      [] c.unit = "S" -> parseSecondsToMicros(c)

\* The fields of a component.
LEMMA ComponentFacts ==
    ASSUME NEW c \in Component
    PROVE  /\ c.minus \in Nat /\ c.whole \in Int /\ c.digits \in Nat /\ c.num \in Nat
           /\ FracMicros(c) \in Nat
           /\ c.digits = 0 => FracMicros(c) = 0
           /\ Signed(c) \in Int
  <1>1. /\ c.minus \in Nat /\ c.whole \in Int /\ c.digits \in Nat /\ c.num \in Nat
        /\ c.digits = 0 => c.num = 0
    BY DEF Component
  <1>2. CASE c.digits <= Digits
    <2>1. PICK P \in Nat : P = Pow10[Digits - c.digits]
      <3>1. Digits - c.digits \in Nat
        BY <1>1, <1>2, Units
      <3> QED
        BY <3>1, PowerFacts
    <2>2. FracMicros(c) = c.num * P
      BY <1>2, <2>1 DEF FracMicros
    <2>3. c.num * P \in Nat /\ (c.num = 0 => c.num * P = 0)
      BY <1>1
    <2> QED
      BY <1>1, <2>2, <2>3 DEF Signed
  <1>3. CASE ~(c.digits <= Digits)
    <2>1. PICK P \in Nat \ {0} : P = Pow10[c.digits - Digits]
      <3>1. c.digits - Digits \in Nat
        BY <1>1, <1>3, Units
      <3> QED
        BY <3>1, PowerFacts
    <2>2. FracMicros(c) = c.num \div P
      BY <1>3, <2>1 DEF FracMicros
    <2>3. c.num \div P \in Nat
      BY <1>1
    <2> QED
      BY <1>1, <1>3, <2>2, <2>3, Units DEF Signed
  <1> QED
    BY <1>2, <1>3

\* What a component is worth is an integer, and without a fraction its number
\* times the size of its unit.
LEMMA WorthFacts ==
    ASSUME NEW c \in Component, NEW unit, NEW size \in Nat
    PROVE  /\ Worth(c, unit, size) \in Int
           /\ c.unit = unit /\ c.digits = 0 => Worth(c, unit, size) = Signed(c) * size
           /\ c.unit # unit => Worth(c, unit, size) = 0
  <1>1. PICK h \in Int, f \in Nat, g \in Int : h = c.whole /\ f = FracMicros(c) /\ g = h * size
    BY ComponentFacts
  <1>2. c.digits = 0 => f = 0
    BY <1>1, ComponentFacts
  <1>3. Worth(c, unit, size) = IF c.unit # unit THEN 0
                               ELSE (IF c.minus = 1 THEN -1 ELSE 1) * (g + f)
    BY <1>1 DEF Worth
  <1>4. Signed(c) = IF c.minus = 1 THEN -h ELSE h
    BY <1>1 DEF Signed
  <1>5. (-h) * size = -g
    BY <1>1
  <1>6. (-1) * (g + f) = -(g + f) /\ 1 * (g + f) = g + f
    OBVIOUS
  <1> QED
    BY <1>1, <1>2, <1>3, <1>4, <1>5, <1>6

\* Congruence is transitive.
LEMMA CongTrans ==
    ASSUME NEW w \in Nat \ {0}, NEW a \in Int, NEW b \in Int, NEW d \in Int,
           Cong(a, b, w), Cong(b, d, w)
    PROVE  Cong(a, d, w)
  <1> DEFINE m == 2 * w
  <1>1. PICK j \in Int, k \in Int : a = b + (m * j) /\ b = d + (m * k)
    BY DEF Cong
  <1>2. m * (k + j) = (m * k) + (m * j) /\ m \in Int /\ m * k \in Int /\ m * j \in Int
    OBVIOUS
  <1>3. a = d + (m * (k + j)) /\ k + j \in Int
    BY <1>1, <1>2
  <1> QED
    BY <1>3 DEF Cong

\* An accumulator that holds a sum up to overflow still does after what is
\* added to both.
LEMMA Accumulate ==
    ASSUME NEW w \in Nat \ {0}, NEW s \in Int, NEW g \in Int, NEW d \in Int, Cong(g, d, w)
    PROVE  Wrap(Wrap(s, w) + g, w) = Wrap(s + d, w)
  <1>1. PICK a \in Int : a = Wrap(s, w)
    <2>1. Wrap(s, w) \in -w .. w - 1
      BY WrapRange
    <2> QED
      BY <2>1
  <1>2. Cong(a, s, w)
    BY <1>1, WrapCong
  <1>3. Cong(a + g, s + d, w)
    BY <1>2, CongAdd
  <1>4. a + g \in Int /\ s + d \in Int
    OBVIOUS
  <1>5. Wrap(a + g, w) = Wrap(s + d, w)
    BY <1>3, <1>4, WrapSame
  <1> QED
    BY <1>1, <1>5

\* A date component adds what it is worth.
LEMMA DateStep ==
    ASSUME NEW c \in Component, DateOK(c)
    PROVE  /\ MonthsOf(c) \in Int /\ Months(c) \in Int /\ Cong(MonthsOf(c), Months(c), W32)
           /\ DaysOf(c) \in Int /\ Worth(c, "D", 1) = DaysOf(c)
  <1>1. c.digits = 0 /\ c.unit \in {"Y", "M", "D"}
    BY DEF DateOK, ParseInt
  <1>2. PICK n \in Int : n = Signed(c)
    BY ComponentFacts
  <1>3. /\ c.unit = "Y" => Worth(c, "Y", 12) = n * 12 /\ Worth(c, "M", 1) = 0 /\ Worth(c, "D", 1) = 0
        /\ c.unit = "M" => Worth(c, "Y", 12) = 0 /\ Worth(c, "M", 1) = n * 1 /\ Worth(c, "D", 1) = 0
        /\ c.unit = "D" => Worth(c, "Y", 12) = 0 /\ Worth(c, "M", 1) = 0 /\ Worth(c, "D", 1) = n * 1
    BY <1>1, <1>2, WorthFacts
  <1>4. CASE c.unit = "Y"
    <2>1. PICK t \in Int : t = n * 12
      OBVIOUS
    <2>2. MonthsOf(c) = Wrap(t, W32) /\ Months(c) = t + 0 /\ DaysOf(c) = 0 /\ t + 0 = t
      BY <1>2, <1>3, <1>4, <2>1 DEF MonthsOf, Months, DaysOf
    <2>3. Wrap(t, W32) \in Int /\ Cong(Wrap(t, W32), t, W32)
      BY Units, WrapRange, WrapCong
    <2> QED
      BY <1>3, <1>4, <2>2, <2>3
  <1>5. CASE c.unit = "M"
    <2>1. MonthsOf(c) = n /\ Months(c) = n /\ DaysOf(c) = 0
      BY <1>2, <1>3, <1>5 DEF MonthsOf, Months, DaysOf
    <2> QED
      BY <1>3, <1>5, <2>1, Units, CongId
  <1>6. CASE c.unit = "D"
    <2>1. MonthsOf(c) = 0 /\ Months(c) = 0 /\ DaysOf(c) = n /\ n * 1 = n
      BY <1>2, <1>3, <1>6 DEF MonthsOf, Months, DaysOf
    <2> QED
      BY <1>3, <1>6, <2>1, Units, CongId
  <1> QED
    BY <1>1, <1>4, <1>5, <1>6

\* The number of seconds in microseconds, up to overflow.
LEMMA SecondsStep ==
    ASSUME NEW c \in Component, c.unit = "S"
    PROVE  /\ parseSecondsToMicros(c) \in Int
           /\ Cong(parseSecondsToMicros(c), Worth(c, "S", Second), W64)
  <1>1. PICK h \in Int, f \in Int : h = c.whole * Second /\ f = FracMicros(c)
    BY ComponentFacts, Units
  <1>2. PICK g \in Int : g = Wrap(h, W64)
    BY Units, WrapRange
  <1>3. PICK e \in Int : e = Wrap(g + f, W64)
    <2>1. g + f \in Int
      OBVIOUS
    <2>2. Wrap(g + f, W64) \in -W64 .. W64 - 1
      BY <2>1, Units, WrapRange
    <2> QED
      BY <2>2, Units
  <1>4. Cong(e, h + f, W64)
    <2>1. Cong(g, h, W64)
      BY <1>2, Units, WrapCong
    <2>2. Cong(f, f, W64)
      BY Units, CongId
    <2>3. Cong(g + f, h + f, W64)
      BY <2>1, <2>2, Units, CongAdd
    <2>4. g + f \in Int /\ h + f \in Int
      OBVIOUS
    <2>5. Cong(e, g + f, W64)
      BY <1>3, <2>4, Units, WrapCong
    <2> QED
      BY <2>3, <2>4, <2>5, Units, CongTrans
  <1>5. PICK s \in Int : s = h + f
    OBVIOUS
  <1>6. Worth(c, "S", Second) = (IF c.minus = 1 THEN -1 ELSE 1) * s
    BY <1>1, <1>5 DEF Worth
  <1>7. parseSecondsToMicros(c) = IF c.minus = 1 THEN Wrap(-e, W64) ELSE e
    BY <1>1, <1>2, <1>3 DEF parseSecondsToMicros
  <1>8. CASE c.minus = 1
    <2>1. -e \in Int /\ -s \in Int /\ (-1) * s = -s
      OBVIOUS
    <2>2. Cong(-e, -s, W64)
      BY <1>4, <1>5, Units, CongNeg
    <2>3. Wrap(-e, W64) \in Int /\ Cong(Wrap(-e, W64), -e, W64)
      BY <2>1, Units, WrapRange, WrapCong
    <2>4. Cong(Wrap(-e, W64), -s, W64)
      BY <2>1, <2>2, <2>3, Units, CongTrans
    <2> QED
      BY <1>6, <1>7, <1>8, <2>1, <2>3, <2>4
  <1>9. CASE c.minus # 1
    <2>1. 1 * s = s
      OBVIOUS
    <2> QED
      BY <1>4, <1>5, <1>6, <1>7, <1>9, <2>1
  <1> QED
    BY <1>8, <1>9

\* A time component adds what it is worth, up to overflow.
LEMMA TimeStep ==
    ASSUME NEW c \in Component, TimeOK(c)
    PROVE  MicrosOf(c) \in Int /\ Micros(c) \in Int /\ Cong(MicrosOf(c), Micros(c), W64)
  <1>1. c.unit \in {"H", "M", "S"} /\ (c.unit # "S" => c.digits = 0)
    BY DEF TimeOK, ParseInt
  <1>2. PICK n \in Int : n = Signed(c)
    BY ComponentFacts
  <1>3. /\ c.unit = "H" => /\ Worth(c, "H", Hour) = n * Hour /\ Worth(c, "M", Minute) = 0
                           /\ Worth(c, "S", Second) = 0
        /\ c.unit = "M" => /\ Worth(c, "H", Hour) = 0 /\ Worth(c, "M", Minute) = n * Minute
                           /\ Worth(c, "S", Second) = 0
        /\ c.unit = "S" => /\ Worth(c, "H", Hour) = 0 /\ Worth(c, "M", Minute) = 0
                           /\ Worth(c, "S", Second) \in Int
    BY <1>1, <1>2, Units, WorthFacts
  <1>4. CASE c.unit = "H"
    <2>1. PICK t \in Int : t = n * Hour
      BY Units
    <2>2. MicrosOf(c) = Wrap(t, W64) /\ Micros(c) = (t + 0) + 0 /\ (t + 0) + 0 = t
      BY <1>2, <1>3, <1>4, <2>1 DEF MicrosOf, Micros
    <2>3. Wrap(t, W64) \in Int /\ Cong(Wrap(t, W64), t, W64)
      BY Units, WrapRange, WrapCong
    <2> QED
      BY <2>2, <2>3
  <1>5. CASE c.unit = "M"
    <2>1. PICK t \in Int : t = n * Minute
      BY Units
    <2>2. MicrosOf(c) = Wrap(t, W64) /\ Micros(c) = (0 + t) + 0 /\ (0 + t) + 0 = t
      BY <1>2, <1>3, <1>5, <2>1 DEF MicrosOf, Micros
    <2>3. Wrap(t, W64) \in Int /\ Cong(Wrap(t, W64), t, W64)
      BY Units, WrapRange, WrapCong
    <2> QED
      BY <2>2, <2>3
  <1>6. CASE c.unit = "S"
    <2>1. PICK t \in Int : t = Worth(c, "S", Second)
      BY <1>3, <1>6
    <2>2. MicrosOf(c) = parseSecondsToMicros(c) /\ Micros(c) = (0 + 0) + t /\ (0 + 0) + t = t
      BY <1>3, <1>6, <2>1 DEF MicrosOf, Micros
    <2> QED
      BY <1>6, <2>1, <2>2, SecondsStep
  <1> QED
    BY <1>1, <1>4, <1>5, <1>6

-----------------------------------------------------------------------------
(* Reading what was written.                                               *)

\* At most one component, which is read as the months x and the days y.
DatePart(A, x, y) ==
    /\ A \in Seq(Component) /\ Len(A) \in {0, 1} /\ x \in Int /\ y \in Int
    /\ IF Len(A) = 1 THEN DateOK(A[1]) /\ Months(A[1]) = x /\ Worth(A[1], "D", 1) = y
       ELSE x = 0 /\ y = 0

\* At most one component, which is read as x microseconds.
TimePart(A, x) ==
    /\ A \in Seq(Component) /\ Len(A) \in {0, 1} /\ x \in Int
    /\ IF Len(A) = 1 THEN TimeOK(A[1]) /\ Micros(A[1]) = x ELSE x = 0

\* What the components of q are worth.
MonthsSeq(q) == [k \in DOMAIN q |-> Months(q[k])]
DaysSeq(q) == [k \in DOMAIN q |-> Worth(q[k], "D", 1)]
MicrosSeq(q) == [k \in DOMAIN q |-> Micros(q[k])]

\* Components that are all read, as x months and y days, or x microseconds.
DateReads(q, x, y) ==
    /\ q \in Seq(Component) /\ \A k \in 1 .. Len(q) : DateOK(q[k])
    /\ \A p : Sums(Len(q), MonthsSeq(q), p) => p[Len(q)] = x
    /\ \A p : Sums(Len(q), DaysSeq(q), p) => p[Len(q)] = y
TimeReads(q, x) ==
    /\ q \in Seq(Component) /\ \A k \in 1 .. Len(q) : TimeOK(q[k])
    /\ \A p : Sums(Len(q), MicrosSeq(q), p) => p[Len(q)] = x

\* Three parts that are read together.
DateJoined(A, B, C, x, y) ==
    \E q : /\ q = (A \o B) \o C /\ Len(q) = Len(A) + Len(B) + Len(C) /\ DateReads(q, x, y)
TimeJoined(A, B, C, x) ==
    \E q : /\ q = (A \o B) \o C /\ Len(q) = Len(A) + Len(B) + Len(C) /\ TimeReads(q, x)

\* The elements of three parts.
LEMMA Elements ==
    ASSUME NEW A \in Seq(Component), NEW B \in Seq(Component), NEW C \in Seq(Component),
           Len(A) \in {0, 1}, Len(B) \in {0, 1}, Len(C) \in {0, 1}
    PROVE  \E q \in Seq(Component) :
              /\ q = (A \o B) \o C
              /\ Len(q) = Len(A) + Len(B) + Len(C)
              /\ Len(A) = 1 => q[1] = A[1]
              /\ Len(B) = 1 => q[Len(A) + 1] = B[1]
              /\ Len(C) = 1 => q[Len(A) + Len(B) + 1] = C[1]
              /\ \A k \in 1 .. Len(q) :
                    \/ Len(A) = 1 /\ q[k] = A[1]
                    \/ Len(B) = 1 /\ q[k] = B[1]
                    \/ Len(C) = 1 /\ q[k] = C[1]
  <1>1. PICK q \in Seq(Component) :
           /\ q = (A \o B) \o C
           /\ Len(q) = Len(A) + Len(B) + Len(C)
           /\ \A k \in 1 .. Len(A) + Len(B) + Len(C) :
                 \/ Len(A) = 1 /\ k = 1 /\ q[k] = A[1]
                 \/ Len(B) = 1 /\ k = Len(A) + 1 /\ q[k] = B[1]
                 \/ Len(C) = 1 /\ k = Len(A) + Len(B) + 1 /\ q[k] = C[1]
    <2>1. PICK D \in Seq(Component) : D = A \o B
      <3>1. A \o B \in Seq(Component)
        OBVIOUS
      <3> QED
        BY <3>1, Zenon
    <2>2. /\ Len(D) = Len(A) + Len(B)
          /\ \A k \in 1 .. Len(D) : D[k] = IF k <= Len(A) THEN A[k] ELSE B[k - Len(A)]
      BY <2>1
    <2>3. PICK q \in Seq(Component) : q = D \o C
      <3>1. D \o C \in Seq(Component)
        OBVIOUS
      <3> QED
        BY <3>1, Zenon
    <2>4. /\ Len(q) = Len(D) + Len(C)
          /\ \A k \in 1 .. Len(q) : q[k] = IF k <= Len(D) THEN D[k] ELSE C[k - Len(D)]
      BY <2>3
    <2>5. ASSUME NEW k \in 1 .. Len(A) + Len(B) + Len(C)
          PROVE  \/ Len(A) = 1 /\ k = 1 /\ q[k] = A[1]
                 \/ Len(B) = 1 /\ k = Len(A) + 1 /\ q[k] = B[1]
                 \/ Len(C) = 1 /\ k = Len(A) + Len(B) + 1 /\ q[k] = C[1]
      <3>1. CASE Len(A) = 0 /\ Len(B) = 0
        BY <2>2, <2>4, <3>1
      <3>2. CASE Len(A) = 0 /\ Len(B) = 1
        BY <2>2, <2>4, <3>2
      <3>3. CASE Len(A) = 1 /\ Len(B) = 0
        BY <2>2, <2>4, <3>3
      <3>4. CASE Len(A) = 1 /\ Len(B) = 1
        BY <2>2, <2>4, <3>4
      <3> QED
        BY <3>1, <3>2, <3>3, <3>4
    <2>6. q = (A \o B) \o C /\ Len(q) = Len(A) + Len(B) + Len(C)
      <3>1. q = (A \o B) \o C
        BY <2>1, <2>3, Zenon
      <3>2. Len(q) = Len(A) + Len(B) + Len(C)
        BY <2>2, <2>4
      <3> QED
        BY <3>1, <3>2, Zenon
    <2> QED
      BY <2>5, <2>6, Zenon
  <1>2. PICK a \in {0, 1}, b \in {0, 1}, e \in {0, 1} : a = Len(A) /\ b = Len(B) /\ e = Len(C)
    OBVIOUS
  <1>3. \A k \in 1 .. a + b + e :
           \/ a = 1 /\ k = 1 /\ q[k] = A[1]
           \/ b = 1 /\ k = a + 1 /\ q[k] = B[1]
           \/ e = 1 /\ k = a + b + 1 /\ q[k] = C[1]
    BY <1>1, <1>2
  <1>4. a = 1 => q[1] = A[1]
    <2>1. a = 1 => 1 \in 1 .. a + b + e /\ 1 # a + 1 /\ 1 # a + b + 1
      OBVIOUS
    <2> QED
      BY <1>3, <2>1
  <1>5. b = 1 => q[a + 1] = B[1]
    <2>1. b = 1 => a + 1 \in 1 .. a + b + e /\ ~(a = 1 /\ a + 1 = 1) /\ a + 1 # a + b + 1
      OBVIOUS
    <2> QED
      BY <1>3, <2>1
  <1>6. e = 1 => q[a + b + 1] = C[1]
    <2>1. e = 1 => /\ a + b + 1 \in 1 .. a + b + e /\ ~(a = 1 /\ a + b + 1 = 1)
                   /\ ~(b = 1 /\ a + b + 1 = a + 1)
      OBVIOUS
    <2> QED
      BY <1>3, <2>1
  <1>7. \A k \in 1 .. Len(q) : \/ a = 1 /\ q[k] = A[1]
                               \/ b = 1 /\ q[k] = B[1]
                               \/ e = 1 /\ q[k] = C[1]
    BY <1>1, <1>2, <1>3
  <1> QED
    BY <1>1, <1>2, <1>4, <1>5, <1>6, <1>7

\* Three parts of a date.
LEMMA DateParts ==
    ASSUME NEW A, NEW B, NEW C, NEW x1, NEW y1, NEW x2, NEW y2, NEW x3, NEW y3,
           DatePart(A, x1, y1), DatePart(B, x2, y2), DatePart(C, x3, y3)
    PROVE  DateJoined(A, B, C, x1 + x2 + x3, y1 + y2 + y3)
  <1>1. PICK q \in Seq(Component) :
           /\ q = (A \o B) \o C
           /\ Len(q) = Len(A) + Len(B) + Len(C)
           /\ Len(A) = 1 => q[1] = A[1]
           /\ Len(B) = 1 => q[Len(A) + 1] = B[1]
           /\ Len(C) = 1 => q[Len(A) + Len(B) + 1] = C[1]
           /\ \A k \in 1 .. Len(q) :
                 \/ Len(A) = 1 /\ q[k] = A[1]
                 \/ Len(B) = 1 /\ q[k] = B[1]
                 \/ Len(C) = 1 /\ q[k] = C[1]
    <2>1. /\ A \in Seq(Component) /\ B \in Seq(Component) /\ C \in Seq(Component)
          /\ Len(A) \in {0, 1} /\ Len(B) \in {0, 1} /\ Len(C) \in {0, 1}
      BY DEF DatePart
    <2> QED
      BY <2>1, Elements
  <1>2. PICK a \in {0, 1}, b \in {0, 1}, e \in {0, 1} : a = Len(A) /\ b = Len(B) /\ e = Len(C)
    BY DEF DatePart
  <1>3. /\ x1 \in Int /\ x2 \in Int /\ x3 \in Int /\ y1 \in Int /\ y2 \in Int /\ y3 \in Int
        /\ IF a = 1 THEN DateOK(A[1]) /\ Months(A[1]) = x1 /\ Worth(A[1], "D", 1) = y1
           ELSE x1 = 0 /\ y1 = 0
        /\ IF b = 1 THEN DateOK(B[1]) /\ Months(B[1]) = x2 /\ Worth(B[1], "D", 1) = y2
           ELSE x2 = 0 /\ y2 = 0
        /\ IF e = 1 THEN DateOK(C[1]) /\ Months(C[1]) = x3 /\ Worth(C[1], "D", 1) = y3
           ELSE x3 = 0 /\ y3 = 0
    BY <1>2 DEF DatePart
  <1>4. \A k \in 1 .. Len(q) : DateOK(q[k])
    BY <1>1, <1>2, <1>3
  <1>5. /\ a = 1 => 1 \in DOMAIN q /\ q[1] = A[1]
        /\ b = 1 => a + 1 \in DOMAIN q /\ q[a + 1] = B[1]
        /\ e = 1 => a + b + 1 \in DOMAIN q /\ q[a + b + 1] = C[1]
    BY <1>1, <1>2
  <1>6. ASSUME NEW p, Sums(Len(q), MonthsSeq(q), p) PROVE p[Len(q)] = x1 + x2 + x3
    <2>1. PICK f : f = MonthsSeq(q)
      OBVIOUS
    <2>2. /\ IF a = 1 THEN f[1] = x1 ELSE x1 = 0
          /\ IF b = 1 THEN f[a + 1] = x2 ELSE x2 = 0
          /\ IF e = 1 THEN f[a + b + 1] = x3 ELSE x3 = 0
      BY <1>3, <1>5, <2>1 DEF MonthsSeq
    <2>3. Sums(a + b + e, f, p) /\ Len(q) = a + b + e
      BY <1>1, <1>2, <1>6, <2>1
    <2>4. p[a + b + e] = x1 + x2 + x3
      BY <1>3, <2>2, <2>3, ThreeTotal
    <2> QED
      BY <2>3, <2>4
  <1>7. ASSUME NEW p, Sums(Len(q), DaysSeq(q), p) PROVE p[Len(q)] = y1 + y2 + y3
    <2>1. PICK f : f = DaysSeq(q)
      OBVIOUS
    <2>2. /\ IF a = 1 THEN f[1] = y1 ELSE y1 = 0
          /\ IF b = 1 THEN f[a + 1] = y2 ELSE y2 = 0
          /\ IF e = 1 THEN f[a + b + 1] = y3 ELSE y3 = 0
      BY <1>3, <1>5, <2>1 DEF DaysSeq
    <2>3. Sums(a + b + e, f, p) /\ Len(q) = a + b + e
      BY <1>1, <1>2, <1>7, <2>1
    <2>4. p[a + b + e] = y1 + y2 + y3
      BY <1>3, <2>2, <2>3, ThreeTotal
    <2> QED
      BY <2>3, <2>4
  <1>8. DateReads(q, x1 + x2 + x3, y1 + y2 + y3)
    BY <1>4, <1>6, <1>7 DEF DateReads
  <1> QED
    BY <1>1, <1>8, Zenon DEF DateJoined

\* Three parts of a time.
LEMMA TimeParts ==
    ASSUME NEW A, NEW B, NEW C, NEW x1, NEW x2, NEW x3,
           TimePart(A, x1), TimePart(B, x2), TimePart(C, x3)
    PROVE  TimeJoined(A, B, C, x1 + x2 + x3)
  <1>1. PICK q \in Seq(Component) :
           /\ q = (A \o B) \o C
           /\ Len(q) = Len(A) + Len(B) + Len(C)
           /\ Len(A) = 1 => q[1] = A[1]
           /\ Len(B) = 1 => q[Len(A) + 1] = B[1]
           /\ Len(C) = 1 => q[Len(A) + Len(B) + 1] = C[1]
           /\ \A k \in 1 .. Len(q) :
                 \/ Len(A) = 1 /\ q[k] = A[1]
                 \/ Len(B) = 1 /\ q[k] = B[1]
                 \/ Len(C) = 1 /\ q[k] = C[1]
    <2>1. /\ A \in Seq(Component) /\ B \in Seq(Component) /\ C \in Seq(Component)
          /\ Len(A) \in {0, 1} /\ Len(B) \in {0, 1} /\ Len(C) \in {0, 1}
      BY DEF TimePart
    <2> QED
      BY <2>1, Elements
  <1>2. PICK a \in {0, 1}, b \in {0, 1}, e \in {0, 1} : a = Len(A) /\ b = Len(B) /\ e = Len(C)
    BY DEF TimePart
  <1>3. /\ x1 \in Int /\ x2 \in Int /\ x3 \in Int
        /\ IF a = 1 THEN TimeOK(A[1]) /\ Micros(A[1]) = x1 ELSE x1 = 0
        /\ IF b = 1 THEN TimeOK(B[1]) /\ Micros(B[1]) = x2 ELSE x2 = 0
        /\ IF e = 1 THEN TimeOK(C[1]) /\ Micros(C[1]) = x3 ELSE x3 = 0
    BY <1>2 DEF TimePart
  <1>4. \A k \in 1 .. Len(q) : TimeOK(q[k])
    BY <1>1, <1>2, <1>3
  <1>5. /\ a = 1 => 1 \in DOMAIN q /\ q[1] = A[1]
        /\ b = 1 => a + 1 \in DOMAIN q /\ q[a + 1] = B[1]
        /\ e = 1 => a + b + 1 \in DOMAIN q /\ q[a + b + 1] = C[1]
    BY <1>1, <1>2
  <1>6. ASSUME NEW p, Sums(Len(q), MicrosSeq(q), p) PROVE p[Len(q)] = x1 + x2 + x3
    <2>1. PICK f : f = MicrosSeq(q)
      OBVIOUS
    <2>2. /\ IF a = 1 THEN f[1] = x1 ELSE x1 = 0
          /\ IF b = 1 THEN f[a + 1] = x2 ELSE x2 = 0
          /\ IF e = 1 THEN f[a + b + 1] = x3 ELSE x3 = 0
      BY <1>3, <1>5, <2>1 DEF MicrosSeq
    <2>3. Sums(a + b + e, f, p) /\ Len(q) = a + b + e
      BY <1>1, <1>2, <1>6, <2>1
    <2>4. p[a + b + e] = x1 + x2 + x3
      BY <1>3, <2>2, <2>3, ThreeTotal
    <2> QED
      BY <2>3, <2>4
  <1>7. TimeReads(q, x1 + x2 + x3)
    BY <1>4, <1>6 DEF TimeReads
  <1> QED
    BY <1>1, <1>7, Zenon DEF TimeJoined

\* No component for zero, or one that is read as s.
Written(q, n, s, unit) ==
    /\ q \in Seq(Component)
    /\ IF n = 0 THEN Len(q) = 0
       ELSE \E c \in Component : /\ Len(q) = 1 /\ q[1] = c /\ c.unit = unit /\ c.digits = 0
                                 /\ IsNumber(c) /\ Signed(c) = s

\* A number that is not zero is one component, read back.
LEMMA NumberFacts ==
    ASSUME NEW n \in Int, NEW minus \in {0, 1}, minus = 1 => n >= 0,
           NEW unit \in {"Y", "M", "D", "H"}
    PROVE  /\ minus = 0 => Written(Number(minus, n, unit), n, n, unit)
           /\ minus = 1 => Written(Number(minus, n, unit), n, -n, unit)
  <1>1. CASE n = 0
    <2>1. Number(minus, n, unit) = <<>>
      BY <1>1 DEF Number
    <2>2. <<>> \in Seq(Component) /\ Len(<<>>) = 0
      OBVIOUS
    <2>3. Number(minus, n, unit) \in Seq(Component) /\ Len(Number(minus, n, unit)) = 0
      BY <2>1, <2>2, Zenon
    <2> QED
      BY <1>1, <2>3 DEF Written
  <1>2. CASE n # 0
    <2>1. Abs(n) \in Nat /\ (n >= 0 => Abs(n) = n) /\ (n < 0 => Abs(n) = -n)
      BY DEF Abs
    <2>2. PICK i \in Nat : i = minus + (IF n < 0 THEN 1 ELSE 0)
      OBVIOUS
    <2>3. Comp(i, Abs(n), 0, 0, unit) \in Component
      BY <2>1 DEF Comp, Component
    <2>4. PICK c \in Component : c = Comp(i, Abs(n), 0, 0, unit)
      BY <2>3
    <2>5. c.minus = i /\ c.whole = Abs(n) /\ c.digits = 0 /\ c.unit = unit
      BY <2>4 DEF Comp
    <2>6. IsNumber(c)
      BY <2>1, <2>2, <2>5 DEF IsNumber
    <2>7. Signed(c) = IF minus = 1 THEN -n ELSE n
      BY <1>2, <2>1, <2>2, <2>5 DEF Signed
    <2>8. Number(minus, n, unit) = <<c>>
      BY <1>2, <2>2, <2>4 DEF Number
    <2>9. PICK q \in Seq(Component) : q = <<c>> /\ Len(q) = 1 /\ q[1] = c
      <3>1. <<c>> \in Seq(Component) /\ Len(<<c>>) = 1 /\ <<c>>[1] = c
        OBVIOUS
      <3> QED
        BY <3>1, Zenon
    <2> QED
      BY <1>2, <2>5, <2>6, <2>7, <2>8, <2>9 DEF Written
  <1> QED
    BY <1>1, <1>2

\* The years, the months and the days.
LEMMA DateNumber ==
    ASSUME NEW n \in -W32 .. W32 - 1
    PROVE  /\ DatePart(Number(0, n, "Y"), n * 12, 0) /\ (n # 0 => Len(Number(0, n, "Y")) = 1)
           /\ DatePart(Number(0, n, "M"), n, 0) /\ (n # 0 => Len(Number(0, n, "M")) = 1)
           /\ DatePart(Number(0, n, "D"), 0, n) /\ (n # 0 => Len(Number(0, n, "D")) = 1)
  <1>1. n \in Int
    BY Units
  <1>2. ASSUME NEW unit \in {"Y", "M", "D"}
        PROVE  LET x == IF unit = "Y" THEN n * 12 ELSE IF unit = "M" THEN n ELSE 0
                   y == IF unit = "D" THEN n ELSE 0
               IN  DatePart(Number(0, n, unit), x, y) /\ (n # 0 => Len(Number(0, n, unit)) = 1)
    <2> DEFINE x == IF unit = "Y" THEN n * 12 ELSE IF unit = "M" THEN n ELSE 0
               y == IF unit = "D" THEN n ELSE 0
    <2>1. PICK q : q = Number(0, n, unit) /\ Written(q, n, n, unit)
      <3>1. PICK g \in {0, 1} : g = 0
        OBVIOUS
      <3>2. unit \in {"Y", "M", "D", "H"} /\ (g = 1 => n >= 0)
        BY <3>1
      <3>3. g = 0 => Written(Number(g, n, unit), n, n, unit)
        BY <1>1, <3>2, NumberFacts, Zenon
      <3> QED
        BY <3>1, <3>3
    <2>2. x \in Int /\ y \in Int
      BY <1>1
    <2>3. CASE n = 0
      BY <2>1, <2>2, <2>3 DEF DatePart, Written
    <2>4. CASE n # 0
      <3>1. PICK c \in Component :
               /\ Len(q) = 1 /\ q[1] = c /\ c.unit = unit /\ c.digits = 0 /\ IsNumber(c)
               /\ Signed(c) = n
        BY <2>1, <2>4 DEF Written
      <3>2. DateOK(c)
        BY <3>1 DEF DateOK, ParseInt
      <3>3. /\ Worth(c, "Y", 12) = IF unit = "Y" THEN n * 12 ELSE 0
            /\ Worth(c, "M", 1) = IF unit = "M" THEN n * 1 ELSE 0
            /\ Worth(c, "D", 1) = IF unit = "D" THEN n * 1 ELSE 0
        BY <3>1, WorthFacts
      <3>4. Months(c) = x /\ Worth(c, "D", 1) = y
        BY <1>1, <3>3 DEF Months
      <3> QED
        BY <2>1, <2>2, <3>1, <3>2, <3>4 DEF DatePart, Written
    <2> QED
      BY <2>3, <2>4
  <1>3. "Y" # "M" /\ "Y" # "D" /\ "M" # "D"
    OBVIOUS
  <1> QED
    BY <1>2, <1>3

\* The hours and the minutes, with the sign before them.
LEMMA TimeNumber ==
    ASSUME NEW n \in 0 .. W64 - 1, NEW neg \in {0, 1}
    PROVE  /\ TimePart(Number(neg, n, "H"), IF neg = 1 THEN -(n * Hour) ELSE n * Hour)
           /\ n # 0 => Len(Number(neg, n, "H")) = 1
           /\ TimePart(Number(neg, n, "M"), IF neg = 1 THEN -(n * Minute) ELSE n * Minute)
           /\ n # 0 => Len(Number(neg, n, "M")) = 1
  <1>1. n \in Int /\ n >= 0
    BY Units
  <1>2. ASSUME NEW unit \in {"H", "M"}
        PROVE  LET size == IF unit = "H" THEN Hour ELSE Minute
               IN  /\ TimePart(Number(neg, n, unit), IF neg = 1 THEN -(n * size) ELSE n * size)
                   /\ n # 0 => Len(Number(neg, n, unit)) = 1
    <2>0. PICK q : q = Number(neg, n, unit)
      OBVIOUS
    <2>1. PICK s \in Int : /\ s = (IF neg = 1 THEN -n ELSE n)
                          /\ q = Number(neg, n, unit) /\ Written(q, n, s, unit)
      <3>1. unit \in {"Y", "M", "D", "H"} /\ (neg = 1 => n >= 0)
        BY <1>1
      <3>2. /\ neg = 0 => Written(Number(neg, n, unit), n, n, unit)
            /\ neg = 1 => Written(Number(neg, n, unit), n, -n, unit)
        BY <1>1, <3>1, NumberFacts, Zenon
      <3> QED
        BY <1>1, <2>0, <3>2
    <2>2. PICK size \in Nat \ {0} : size = IF unit = "H" THEN Hour ELSE Minute
      BY Units
    <2>3. PICK t \in Int : t = n * size
      BY <1>1
    <2>4. CASE n = 0
      <3>1. t = 0 /\ -t = 0
        BY <2>3, <2>4
      <3> QED
        BY <2>1, <2>2, <2>3, <2>4, <3>1 DEF TimePart, Written
    <2>5. CASE n # 0
      <3>1. PICK c \in Component :
               /\ Len(q) = 1 /\ q[1] = c /\ c.unit = unit /\ c.digits = 0 /\ IsNumber(c)
               /\ Signed(c) = s
        BY <2>1, <2>5 DEF Written
      <3>2. TimeOK(c)
        BY <1>1, <2>1, <3>1, Units DEF TimeOK, ParseInt
      <3>4. s * size = IF neg = 1 THEN -t ELSE t
        <4>1. (-n) * size = -t
          BY <1>1, <2>3
        <4> QED
          BY <2>1, <2>3, <4>1
      <3>5. PICK g \in Int : g = s * size
        OBVIOUS
      <3>6. /\ Worth(c, "H", Hour) = IF unit = "H" THEN g ELSE 0
            /\ Worth(c, "M", Minute) = IF unit = "M" THEN g ELSE 0
            /\ Worth(c, "S", Second) = 0
        BY <2>2, <3>1, <3>5, Units, WorthFacts
      <3>7. Micros(c) = g
        BY <3>6 DEF Micros
      <3> QED
        BY <2>1, <2>2, <2>3, <3>1, <3>2, <3>4, <3>5, <3>7 DEF TimePart, Written
    <2> QED
      BY <2>4, <2>5
  <1>3. "H" # "M"
    OBVIOUS
  <1> QED
    BY <1>2, <1>3

\* The years, months and days of an interval are read back.
LEMMA DateText ==
    ASSUME NEW v \in Intervals
    PROVE  /\ DateReads(formatIntervalISO(v).date, v.months, v.days)
           /\ Len(formatIntervalISO(v).date) = 0 => v.months = 0 /\ v.days = 0
  <1>1. v.months \in -W32 .. W32 - 1 /\ v.days \in -W32 .. W32 - 1
    BY UnitsAssumption
  <1>2. PICK M \in -W32 .. W32 - 1, D \in -W32 .. W32 - 1 : M = v.months /\ D = v.days
    BY <1>1
  <1>3. PICK n12 \in Nat \ {0} : n12 = 12
    OBVIOUS
  <1>4. M \in Int
    BY Units
  <1>5. /\ Quot(M, n12) \in Int /\ Rem(M, n12) \in Int
        /\ M = (n12 * Quot(M, n12)) + Rem(M, n12)
        /\ M >= 0 => /\ Quot(M, n12) >= 0 /\ Rem(M, n12) \in 0 .. n12 - 1
                     /\ n12 * Quot(M, n12) >= 0
        /\ M <= 0 => /\ Quot(M, n12) <= 0 /\ Rem(M, n12) \in -(n12 - 1) .. 0
                     /\ n12 * Quot(M, n12) <= 0
    BY <1>4, QuotFacts, Zenon
  <1>6. PICK y \in Int, r \in Int : y = Quot(M, 12) /\ r = Rem(M, 12)
    BY <1>3, <1>5
  <1>7. /\ M = (12 * y) + r
        /\ M >= 0 => y >= 0 /\ r \in 0 .. 11
        /\ M <= 0 => y <= 0 /\ r \in -11 .. 0
    BY <1>3, <1>5, <1>6
  <1>8. y \in -W32 .. W32 - 1 /\ r \in -W32 .. W32 - 1
    BY <1>4, <1>7, Units
  <1>9. PICK A, B, C : A = Number(0, y, "Y") /\ B = Number(0, r, "M") /\ C = Number(0, D, "D")
    OBVIOUS
  <1>10. PICK x \in Int : x = y * 12
    OBVIOUS
  <1>11. DatePart(A, x, 0) /\ (y # 0 => Len(A) = 1)
    BY <1>8, <1>9, <1>10, DateNumber
  <1>12. DatePart(B, r, 0) /\ (r # 0 => Len(B) = 1)
    BY <1>8, <1>9, DateNumber
  <1>13. DatePart(C, 0, D) /\ (D # 0 => Len(C) = 1)
    BY <1>9, DateNumber
  <1>14. PICK q : /\ q = (A \o B) \o C /\ Len(q) = Len(A) + Len(B) + Len(C)
                  /\ DateReads(q, x + r + 0, 0 + 0 + D)
    <2>1. DatePart(A, x, 0)
      BY <1>11
    <2>2. DatePart(B, r, 0)
      BY <1>12
    <2>3. DatePart(C, 0, D)
      BY <1>13
    <2>4. DateJoined(A, B, C, x + r + 0, 0 + 0 + D)
      BY <2>1, <2>2, <2>3, DateParts
    <2> QED
      BY <2>4, Zenon DEF DateJoined
  <1>15. q = formatIntervalISO(v).date
    BY <1>2, <1>6, <1>9, <1>14 DEF formatIntervalISO
  <1>16. x + r + 0 = v.months /\ 0 + 0 + D = v.days
    BY <1>2, <1>4, <1>7, <1>10, Units
  <1>17. Len(q) = 0 => v.months = 0 /\ v.days = 0
    <2>1. Len(A) \in {0, 1} /\ Len(B) \in {0, 1} /\ Len(C) \in {0, 1}
      BY <1>11, <1>12, <1>13 DEF DatePart
    <2>2. Len(q) = 0 => Len(A) = 0 /\ Len(B) = 0 /\ Len(C) = 0
      BY <1>14, <2>1
    <2>3. Len(q) = 0 => y = 0 /\ r = 0 /\ D = 0
      BY <1>11, <1>12, <1>13, <2>2
    <2> QED
      BY <1>2, <1>7, <2>3
  <1> QED
    BY <1>14, <1>15, <1>16, <1>17

\* The seconds and their fraction, with the sign before them.
LEMMA SecondsPart ==
    ASSUME NEW s \in 0 .. W64 - 1, NEW f \in 0 .. Second - 1, NEW neg \in {0, 1}
    PROVE  \E q : /\ q = <<Comp(neg + (IF s < 0 THEN 1 ELSE 0), Abs(s),
                                formatIntervalFrac(f).digits, formatIntervalFrac(f).num, "S")>>
                  /\ Len(q) = 1
                  /\ TimePart(q, IF neg = 1 THEN -((s * Second) + f) ELSE (s * Second) + f)
  <1>1. PICK d \in 0 .. Digits, n \in Nat :
           /\ d = formatIntervalFrac(f).digits /\ n = formatIntervalFrac(f).num
           /\ n * Pow10[Digits - d] = f
           /\ d = 0 => n = 0
    BY FracFacts
  <1>2. s \in Nat /\ ~(s < 0) /\ Abs(s) = s /\ neg + (IF s < 0 THEN 1 ELSE 0) = neg /\ f \in Nat
    BY Units DEF Abs
  <1>3. Comp(neg, s, d, n, "S") \in Component
    BY <1>1, <1>2, Units DEF Comp, Component
  <1>4. PICK c \in Component : c = Comp(neg, s, d, n, "S")
    BY <1>3
  <1>5. c.minus = neg /\ c.whole = s /\ c.digits = d /\ c.num = n /\ c.unit = "S"
    BY <1>4 DEF Comp
  <1>6. TimeOK(c)
    BY <1>2, <1>5, Units DEF TimeOK, ParseSeconds, IsNumber
  <1>7. FracMicros(c) = f
    BY <1>1, <1>5, Units DEF FracMicros
  <1>8. PICK t \in Int : t = (s * Second) + f
    BY <1>2, Units
  <1>9. /\ Worth(c, "H", Hour) = 0 /\ Worth(c, "M", Minute) = 0
        /\ Worth(c, "S", Second) = IF neg = 1 THEN -t ELSE t
    BY <1>5, <1>7, <1>8 DEF Worth
  <1>10. Micros(c) = IF neg = 1 THEN -t ELSE t
    BY <1>9 DEF Micros
  <1>11. PICK q : q = <<c>>
    OBVIOUS
  <1>12. q \in Seq(Component) /\ Len(q) = 1 /\ q[1] = c
    BY <1>11
  <1>13. TimePart(q, IF neg = 1 THEN -t ELSE t)
    BY <1>6, <1>10, <1>12 DEF TimePart
  <1>14. q = <<Comp(neg + (IF s < 0 THEN 1 ELSE 0), Abs(s),
                    formatIntervalFrac(f).digits, formatIntervalFrac(f).num, "S")>>
    BY <1>1, <1>2, <1>4, <1>11
  <1> QED
    BY <1>8, <1>12, <1>13, <1>14

\* The parts of a number of microseconds.
LEMMA TimeSplit ==
    ASSUME NEW m \in 1 .. W64 - 1
    PROVE  \E h \in 0 .. W64 - 1, i \in 0 .. W64 - 1, s \in 0 .. W64 - 1, f \in 0 .. Second - 1 :
              /\ h = Quot(m, Hour)
              /\ i = Quot(Rem(m, Hour), Minute)
              /\ s = Quot(Rem(Rem(m, Hour), Minute), Second)
              /\ f = Rem(Rem(Rem(m, Hour), Minute), Second)
              /\ m = (h * Hour) + (i * Minute) + ((s * Second) + f)
  <1>1. ASSUME NEW a \in Nat, NEW b \in Nat \ {0}, a <= W64 - 1
        PROVE  \E d \in 0 .. W64 - 1, r \in 0 .. b - 1 :
                  d = Quot(a, b) /\ r = Rem(a, b) /\ a = (d * b) + r /\ r <= W64 - 1
    <2>1. a \in Int
      OBVIOUS
    <2>2. PICK d \in Int, r \in Int : d = Quot(a, b) /\ r = Rem(a, b)
      BY <2>1, QuotFacts
    <2>3. a = (b * d) + r /\ (a >= 0 => d >= 0 /\ r \in 0 .. b - 1 /\ b * d >= 0)
      BY <2>1, <2>2, QuotFacts
    <2>4. b * d = d * b /\ b * d >= d
      <3>1. d >= 0
        BY <2>3
      <3> QED
        BY <3>1
    <2> QED
      BY <1>1, <2>2, <2>3, <2>4, Units
  <1>2. PICK h \in 0 .. W64 - 1, r1 \in 0 .. Hour - 1 :
           h = Quot(m, Hour) /\ r1 = Rem(m, Hour) /\ m = (h * Hour) + r1 /\ r1 <= W64 - 1
    <2>1. m \in Nat /\ m <= W64 - 1
      BY Units
    <2> QED
      BY <1>1, <2>1, Units
  <1>3. PICK i \in 0 .. W64 - 1, r2 \in 0 .. Minute - 1 :
           i = Quot(r1, Minute) /\ r2 = Rem(r1, Minute) /\ r1 = (i * Minute) + r2 /\ r2 <= W64 - 1
    <2>1. r1 \in Nat /\ r1 <= W64 - 1
      BY <1>2, Units
    <2> QED
      BY <1>1, <2>1, Units
  <1>4. PICK s \in 0 .. W64 - 1, f \in 0 .. Second - 1 :
           s = Quot(r2, Second) /\ f = Rem(r2, Second) /\ r2 = (s * Second) + f
    <2>1. r2 \in Nat /\ r2 <= W64 - 1
      BY <1>3, Units
    <2>2. Second \in Nat \ {0}
      BY Units
    <2> QED
      BY <1>1, <2>1, <2>2
  <1>5. m = (h * Hour) + (i * Minute) + ((s * Second) + f)
    <2>1. PICK g \in Int, j \in Int, k \in Int : g = h * Hour /\ j = i * Minute /\ k = s * Second
      BY Units
    <2>2. m = g + r1 /\ r1 = j + r2 /\ r2 = k + f
      BY <1>2, <1>3, <1>4, <2>1
    <2>3. m = g + j + (k + f)
      BY <2>2, Units
    <2> QED
      BY <2>1, <2>3
  <1>6. /\ h = Quot(m, Hour)
        /\ i = Quot(Rem(m, Hour), Minute)
        /\ s = Quot(Rem(Rem(m, Hour), Minute), Second)
        /\ f = Rem(Rem(Rem(m, Hour), Minute), Second)
    <2>1. h = Quot(m, Hour) /\ r1 = Rem(m, Hour)
      BY <1>2
    <2>2. i = Quot(r1, Minute) /\ r2 = Rem(r1, Minute)
      BY <1>3
    <2>3. s = Quot(r2, Second) /\ f = Rem(r2, Second)
      BY <1>4
    <2> QED
      BY <2>1, <2>2, <2>3
  <1> QED
    BY <1>5, <1>6, Zenon

\* The hours, minutes and seconds of every number of microseconds whose sign
\* can be taken off are read back.
LEMMA TimeText ==
    ASSUME NEW u \in -(W64 - 1) .. W64 - 1, u # 0
    PROVE  TimeReads(timeComponents(u), u) /\ Len(timeComponents(u)) # 0
  <1>1. PICK neg \in {0, 1} : neg = IF u < 0 THEN 1 ELSE 0
    OBVIOUS
  <1>2. PICK m \in 1 .. W64 - 1 : m = IF u < 0 THEN -u ELSE u
    BY Units
  <1>3. m = IF u < 0 THEN Wrap(-u, W64) ELSE u
    <2>1. m \in -W64 .. W64 - 1
      BY Units
    <2>2. Wrap(m, W64) = m
      BY <2>1, Units, WrapId
    <2> QED
      BY <1>2, <2>2
  <1>4. PICK h \in 0 .. W64 - 1, i \in 0 .. W64 - 1, s \in 0 .. W64 - 1, f \in 0 .. Second - 1 :
           /\ h = Quot(m, Hour)
           /\ i = Quot(Rem(m, Hour), Minute)
           /\ s = Quot(Rem(Rem(m, Hour), Minute), Second)
           /\ f = Rem(Rem(Rem(m, Hour), Minute), Second)
           /\ m = (h * Hour) + (i * Minute) + ((s * Second) + f)
    BY TimeSplit, Zenon
  <1>5. PICK g \in Int, j \in Int, t \in Int :
           g = h * Hour /\ j = i * Minute /\ t = (s * Second) + f
    BY Units
  <1>6. PICK x1 \in Int, x2 \in Int, x3 \in Int :
           /\ x1 = IF neg = 1 THEN -g ELSE g
           /\ x2 = IF neg = 1 THEN -j ELSE j
           /\ x3 = IF neg = 1 THEN -t ELSE t
    OBVIOUS
  <1>7. PICK A, B : A = Number(neg, h, "H") /\ B = Number(neg, i, "M")
    OBVIOUS
  <1>8. TimePart(A, x1) /\ (h # 0 => Len(A) = 1)
    BY <1>5, <1>6, <1>7, TimeNumber
  <1>9. TimePart(B, x2) /\ (i # 0 => Len(B) = 1)
    BY <1>5, <1>6, <1>7, TimeNumber
  <1>10. PICK C1 : /\ C1 = <<Comp(neg + (IF s < 0 THEN 1 ELSE 0), Abs(s),
                                  formatIntervalFrac(f).digits, formatIntervalFrac(f).num, "S")>>
                   /\ Len(C1) = 1
                   /\ TimePart(C1, IF neg = 1 THEN -((s * Second) + f) ELSE (s * Second) + f)
    BY SecondsPart, Zenon
  <1>11. PICK C : C = IF s = 0 /\ formatIntervalFrac(f).digits = 0 /\ ~(h = 0 /\ i = 0)
                      THEN <<>> ELSE C1
    OBVIOUS
  <1>12. TimePart(C, x3) /\ (h = 0 /\ i = 0 => Len(C) = 1)
    <2>1. CASE s = 0 /\ formatIntervalFrac(f).digits = 0 /\ ~(h = 0 /\ i = 0)
      <3>1. f = 0
        BY <2>1, FracFacts
      <3>2. t = 0
        <4>1. 0 * Second = 0
          BY Units
        <4> QED
          BY <1>5, <2>1, <3>1, <4>1
      <3>3. x3 = 0
        <4>1. x3 = t \/ x3 + t = 0
          BY <1>6
        <4> QED
          BY <3>2, <4>1
      <3>4. <<>> \in Seq(Component) /\ Len(<<>>) = 0
        OBVIOUS
      <3>5. C = <<>>
        BY <1>11, <2>1
      <3> QED
        BY <2>1, <3>3, <3>4, <3>5 DEF TimePart
    <2>2. CASE ~(s = 0 /\ formatIntervalFrac(f).digits = 0 /\ ~(h = 0 /\ i = 0))
      <3>1. C = C1
        BY <1>11, <2>2
      <3>2. x3 = IF neg = 1 THEN -((s * Second) + f) ELSE (s * Second) + f
        BY <1>5, <1>6
      <3> QED
        BY <1>10, <3>1, <3>2
    <2> QED
      BY <2>1, <2>2
  <1>13. PICK q : /\ q = (A \o B) \o C /\ Len(q) = Len(A) + Len(B) + Len(C)
                  /\ TimeReads(q, x1 + x2 + x3)
    <2>1. TimePart(A, x1)
      BY <1>8
    <2>2. TimePart(B, x2)
      BY <1>9
    <2>3. TimePart(C, x3)
      BY <1>12
    <2>4. TimeJoined(A, B, C, x1 + x2 + x3)
      BY <2>1, <2>2, <2>3, TimeParts
    <2> QED
      BY <2>4, Zenon DEF TimeJoined
  <1>14. q = timeComponents(u)
    BY <1>1, <1>3, <1>4, <1>7, <1>10, <1>11, <1>13 DEF timeComponents
  <1>15. x1 + x2 + x3 = u
    <2>1. m = g + j + t
      BY <1>4, <1>5
    <2> QED
      BY <1>1, <1>2, <1>6, <2>1, Units
  <1>16. Len(q) # 0
    <2>1. Len(A) \in {0, 1} /\ Len(B) \in {0, 1} /\ Len(C) \in {0, 1}
      BY <1>8, <1>9, <1>12 DEF TimePart
    <2>2. Len(q) = 0 => Len(A) = 0 /\ Len(B) = 0 /\ Len(C) = 0
      BY <1>13, <2>1
    <2>3. Len(q) = 0 => h = 0 /\ i = 0
      BY <1>8, <1>9, <2>2
    <2> QED
      BY <1>12, <2>2, <2>3
  <1> QED
    BY <1>13, <1>14, <1>15, <1>16

\* The first component of the lowest number of microseconds has two signs.
LEMMA TimeLowest ==
    \E q : q = timeComponents(-W64) /\ Len(q) \in Nat \ {0} /\ ~TimeOK(q[1])
  <1>1. PICK u \in Int : u = -W64 /\ u < 0 /\ u <= -Hour
    BY Units
  <1>2. Wrap(-u, W64) = u
    <2>1. PICK w \in Nat \ {0}, d \in Nat \ {0} : w = W64 /\ d = 2 * w
      BY Units
    <2>2. -u = w /\ w + w = d
      BY <1>1, <2>1
    <2>3. d % d = 0
      OBVIOUS
    <2> QED
      BY <1>1, <2>1, <2>2, <2>3 DEF Wrap
  <1>3. PICK h \in Int : h = Quot(u, Hour)
    BY QuotFacts, Units
  <1>4. h < 0
    <2>1. /\ u = (Hour * h) + Rem(u, Hour)
          /\ u <= 0 => h <= 0 /\ Rem(u, Hour) \in -(Hour - 1) .. 0
      BY <1>3, QuotFacts, Units
    <2>2. Hour * 0 = 0
      BY Units
    <2>3. h = 0 => u = 0 + Rem(u, Hour)
      BY <2>1, <2>2
    <2>4. h <= 0 /\ Rem(u, Hour) \in -(Hour - 1) .. 0
      BY <1>1, <2>1
    <2>5. h # 0
      BY <1>1, <2>3, <2>4, Units
    <2> QED
      BY <2>4, <2>5
  <1>5. PICK c : c = Comp(1 + 1, Abs(h), 0, 0, "H")
    OBVIOUS
  <1>6. Number(1, h, "H") = <<c>>
    BY <1>4, <1>5 DEF Number
  <1>7. ~TimeOK(c)
    <2>1. c.minus = 2 /\ c.unit = "H"
      BY <1>5 DEF Comp
    <2> QED
      BY <2>1 DEF TimeOK, ParseInt, IsNumber
  <1>8. PICK i, e, s, f :
           /\ i = Quot(Rem(u, Hour), Minute)
           /\ s = Quot(Rem(Rem(u, Hour), Minute), Second)
           /\ f = formatIntervalFrac(Rem(Rem(Rem(u, Hour), Minute), Second))
           /\ e = Comp(1 + (IF s < 0 THEN 1 ELSE 0), Abs(s), f.digits, f.num, "S")
    OBVIOUS
  <1>9. PICK B, C : /\ B = Number(1, i, "M")
                    /\ C = IF s = 0 /\ f.digits = 0 /\ ~(h = 0 /\ i = 0) THEN <<>> ELSE <<e>>
    OBVIOUS
  <1>10. timeComponents(u) = (<<c>> \o B) \o C
    BY <1>1, <1>2, <1>3, <1>6, <1>8, <1>9 DEF timeComponents
  <1>11. PICK d : d = Comp(1 + (IF i < 0 THEN 1 ELSE 0), Abs(i), 0, 0, "M")
    OBVIOUS
  <1>12. B \in {<<>>, <<d>>} /\ C \in {<<>>, <<e>>}
    BY <1>9, <1>11 DEF Number
  <1>13. ASSUME NEW X \in {<<>>, <<d>>}, NEW Y \in {<<>>, <<e>>}
         PROVE  Len((<<c>> \o X) \o Y) \in Nat \ {0} /\ ((<<c>> \o X) \o Y)[1] = c
    <2>0. PICK S : c \in S /\ d \in S /\ e \in S
      <3>1. c \in {c, d, e} /\ d \in {c, d, e} /\ e \in {c, d, e}
        OBVIOUS
      <3> QED
        BY <3>1, Zenon
    <2>1. <<c>> \in Seq(S) /\ X \in Seq(S) /\ Y \in Seq(S) /\ Len(<<c>>) = 1 /\ <<c>>[1] = c
      <3>1. <<>> \in Seq(S) /\ <<c>> \in Seq(S) /\ <<d>> \in Seq(S) /\ <<e>> \in Seq(S)
        BY <2>0
      <3>2. X \in Seq(S) /\ Y \in Seq(S)
        BY <3>1, Zenon
      <3>3. Len(<<c>>) = 1 /\ <<c>>[1] = c
        OBVIOUS
      <3> QED
        BY <3>1, <3>2, <3>3, Zenon
    <2>2. PICK D \in Seq(S) : D = <<c>> \o X
      <3>1. <<c>> \o X \in Seq(S)
        BY <2>1
      <3> QED
        BY <3>1, Zenon
    <2>3. Len(D) \in Nat \ {0} /\ D[1] = c
      BY <2>1, <2>2
    <2>4. Len(D \o Y) \in Nat \ {0} /\ (D \o Y)[1] = c
      BY <2>1, <2>3
    <2> QED
      BY <2>2, <2>4
  <1>14. /\ Len((<<c>> \o B) \o C) \in Nat \ {0}
         /\ ((<<c>> \o B) \o C)[1] = c
    BY <1>12, <1>13
  <1> QED
    BY <1>1, <1>7, <1>10, <1>14

\* No component, and the component 0S.
LEMMA ZeroText == TimeReads(<<>>, 0) /\ TimeReads(<<Comp(0, 0, 0, 0, "S")>>, 0)
  <1>1. TimeReads(<<>>, 0)
    <2>1. <<>> \in Seq(Component) /\ Len(<<>>) = 0
      OBVIOUS
    <2>2. \A p : Sums(0, MicrosSeq(<<>>), p) => p[0] = 0
      BY DEF Sums
    <2> QED
      BY <2>1, <2>2 DEF TimeReads
  <1>2. Comp(0, 0, 0, 0, "S") \in Component
    BY DEF Comp, Component
  <1>3. PICK c \in Component : c = Comp(0, 0, 0, 0, "S")
    BY <1>2
  <1>4. c.minus = 0 /\ c.whole = 0 /\ c.digits = 0 /\ c.unit = "S"
    BY <1>3 DEF Comp
  <1>5. TimeOK(c)
    BY <1>4, Units DEF TimeOK, ParseSeconds, IsNumber
  <1>6. Micros(c) = 0
    <2>1. Signed(c) = 0 /\ 0 * Second = 0
      BY <1>4, Units DEF Signed
    <2>2. Worth(c, "H", Hour) = 0 /\ Worth(c, "M", Minute) = 0 /\ Worth(c, "S", Second) = 0
      BY <1>4, <2>1, Units, WorthFacts
    <2> QED
      BY <2>2 DEF Micros
  <1>7. PICK q : q = <<c>>
    OBVIOUS
  <1>8. q \in Seq(Component) /\ Len(q) = 1 /\ q[1] = c /\ 1 \in DOMAIN q
    BY <1>7
  <1>9. ASSUME NEW p, Sums(1, MicrosSeq(q), p) PROVE p[1] = 0
    <2>1. MicrosSeq(q)[1] = 0
      BY <1>6, <1>8 DEF MicrosSeq
    <2>2. 1 \in 1 .. 1 /\ 1 - 1 = 0
      OBVIOUS
    <2>3. p[0] = 0 /\ p[1] = p[0] + MicrosSeq(q)[1]
      BY <1>9, <2>2 DEF Sums
    <2> QED
      BY <2>1, <2>3
  <1>10. TimeReads(q, 0)
    <2>1. \A k \in 1 .. Len(q) : TimeOK(q[k])
      BY <1>5, <1>8
    <2>2. \A p : Sums(Len(q), MicrosSeq(q), p) => p[Len(q)] = 0
      BY <1>8, <1>9
    <2> QED
      BY <1>8, <2>1, <2>2 DEF TimeReads
  <1> QED
    BY <1>1, <1>3, <1>7, <1>10

\* An interval that is written has a part, and but for the lowest number of
\* microseconds all its components are read as what it was.
LEMMA FormatFacts ==
    ASSUME NEW v \in Intervals
    PROVE  /\ formatIntervalISO(v).p
           /\ ~(formatIntervalISO(v).date = <<>> /\ formatIntervalISO(v).time = <<>>)
           /\ DateReads(formatIntervalISO(v).date, v.months, v.days)
           /\ v.us # -W64 => TimeReads(formatIntervalISO(v).time, v.us)
           /\ v.us = -W64 => /\ Len(formatIntervalISO(v).time) \in Nat \ {0}
                             /\ ~TimeOK(formatIntervalISO(v).time[1])
  <1>1. PICK t : t = formatIntervalISO(v)
    OBVIOUS
  <1>2. /\ t.p
        /\ t.time = IF v.us # 0 THEN timeComponents(v.us)
                    ELSE IF v.months = 0 /\ v.days = 0 THEN <<Comp(0, 0, 0, 0, "S")>> ELSE <<>>
    BY <1>1 DEF formatIntervalISO
  <1>3. DateReads(t.date, v.months, v.days) /\ (Len(t.date) = 0 => v.months = 0 /\ v.days = 0)
    BY <1>1, DateText
  <1>4. PICK u \in -W64 .. W64 - 1 : u = v.us
    <2>1. v.us \in -W64 .. W64 - 1
      BY UnitsAssumption
    <2> QED
      BY <2>1
  <1>5. Len(<<>>) = 0 /\ <<Comp(0, 0, 0, 0, "S")>> # <<>>
    OBVIOUS
  <1>6. CASE u = 0
    <2>1. TimeReads(t.time, 0)
      BY <1>2, <1>4, <1>6, ZeroText
    <2>2. ~(t.date = <<>> /\ t.time = <<>>)
      BY <1>2, <1>3, <1>4, <1>5, <1>6
    <2>3. u # -W64
      BY <1>6, Units
    <2> QED
      BY <1>1, <1>2, <1>3, <1>4, <1>6, <2>1, <2>2, <2>3
  <1>7. CASE u # 0 /\ u # -W64
    <2>1. u \in -(W64 - 1) .. W64 - 1
      BY <1>7, Units
    <2>2. TimeReads(timeComponents(u), u) /\ Len(timeComponents(u)) # 0
      BY <1>7, <2>1, TimeText
    <2>3. t.time = timeComponents(u)
      BY <1>2, <1>4, <1>7
    <2>4. t.time # <<>>
      BY <1>5, <2>2, <2>3
    <2> QED
      BY <1>1, <1>2, <1>3, <1>4, <1>7, <2>2, <2>3, <2>4
  <1>8. CASE u = -W64
    <2>1. u # 0
      BY <1>8, Units
    <2>2. t.time = timeComponents(u)
      BY <1>2, <1>4, <2>1
    <2>3. Len(t.time) \in Nat \ {0} /\ ~TimeOK(t.time[1])
      BY <1>8, <2>2, TimeLowest
    <2>4. t.time # <<>>
      BY <1>5, <2>3
    <2> QED
      BY <1>1, <1>2, <1>3, <1>4, <1>8, <2>3, <2>4
  <1> QED
    BY <1>6, <1>7, <1>8

-----------------------------------------------------------------------------
(* The inductive invariant.                                                *)

\* n components of the date q have been read into the months mo and the days
\* da, up to overflow.
DateScanned(q, n, mo, da) ==
    /\ n \in 0 .. Len(q) /\ mo \in -W32 .. W32 - 1 /\ da \in -W32 .. W32 - 1
    /\ \A k \in 1 .. n : DateOK(q[k])
    /\ \A p : Sums(Len(q), MonthsSeq(q), p) => mo = Wrap(p[n], W32)
    /\ \A p : Sums(Len(q), DaysSeq(q), p) => da = Wrap(p[n], W32)

\* n components of the time q have been read into the microseconds mi.
TimeScanned(q, n, mi) ==
    /\ n \in 0 .. Len(q) /\ mi \in -W64 .. W64 - 1
    /\ \A k \in 1 .. n : TimeOK(q[k])
    /\ \A p : Sums(Len(q), MicrosSeq(q), p) => mi = Wrap(p[n], W64)

\* A text that a client sent or Format wrote.  The time of a text is a sequence
\* of components, or its first one is refused.
TextOK ==
    /\ text.date \in Seq(Component)
    /\ text.time \in Seq(Component) \/ (Len(text.time) \in Nat \ {0} /\ ~TimeOK(text.time[1]))
    /\ given = {} \/ \E v \in Intervals : given = {v} /\ text = formatIntervalISO(v)

\* Why a text is refused.
Refused ==
    \/ ~text.p
    \/ text.date = <<>> /\ text.time = <<>>
    \/ \E k \in 1 .. Len(text.date) : ~DateOK(text.date[k])
    \/ \E k \in 1 .. Len(text.time) : ~TimeOK(text.time[k])

IntervalInv ==
    /\ stage \in {"format", "parse", "date", "time", "valid", "invalid"}
    /\ stage = "format" => \E v \in Intervals : given = {v}
    /\ stage # "format" => TextOK
    /\ stage \in {"format", "parse"} => at = 1 /\ months = 0 /\ days = 0 /\ us = 0
    /\ stage = "date" => at \in Nat \ {0} /\ us = 0 /\ DateScanned(text.date, at - 1, months, days)
    /\ stage \in {"time", "valid"} =>
          /\ at \in Nat \ {0}
          /\ DateScanned(text.date, Len(text.date), months, days)
          /\ TimeScanned(text.time, at - 1, us)
    /\ stage = "valid" => at - 1 = Len(text.time)
    /\ stage = "invalid" => Refused

-----------------------------------------------------------------------------
(* What the components are worth, as sequences of integers.                *)

\* They are.
LEMMA WorthSeqs ==
    ASSUME NEW q \in Seq(Component)
    PROVE  /\ MonthsSeq(q) \in [1 .. Len(q) -> Int] /\ DaysSeq(q) \in [1 .. Len(q) -> Int]
           /\ MicrosSeq(q) \in [1 .. Len(q) -> Int]
  <1>1. DOMAIN q = 1 .. Len(q) /\ \A k \in 1 .. Len(q) : q[k] \in Component
    OBVIOUS
  <1>2. ASSUME NEW c \in Component
        PROVE  Months(c) \in Int /\ Worth(c, "D", 1) \in Int /\ Micros(c) \in Int
    <2>1. /\ Worth(c, "Y", 12) \in Int /\ Worth(c, "M", 1) \in Int /\ Worth(c, "D", 1) \in Int
          /\ Worth(c, "H", Hour) \in Int /\ Worth(c, "M", Minute) \in Int
          /\ Worth(c, "S", Second) \in Int
      BY Units, WorthFacts
    <2> QED
      BY <2>1 DEF Months, Micros
  <1> QED
    BY <1>1, <1>2 DEF MonthsSeq, DaysSeq, MicrosSeq

\* Nothing has been read.
LEMMA NothingScanned ==
    ASSUME NEW q, Len(q) \in Nat
    PROVE  DateScanned(q, 0, 0, 0) /\ TimeScanned(q, 0, 0)
  <1>1. 0 \in -W32 .. W32 - 1 /\ 0 \in -W64 .. W64 - 1 /\ 0 \in 0 .. Len(q)
    BY Units
  <1>2. Wrap(0, W32) = 0 /\ Wrap(0, W64) = 0
    <2>1. \A w \in Nat \ {0} : Wrap(0, w) = 0
      <3> SUFFICES ASSUME NEW w \in Nat \ {0} PROVE Wrap(0, w) = 0
        OBVIOUS
      <3>1. 0 \in -w .. w - 1
        OBVIOUS
      <3> QED
        BY <3>1, WrapId
    <2> QED
      BY <2>1, Units
  <1>3. \A f, p : Sums(Len(q), f, p) => p[0] = 0
    BY DEF Sums
  <1> QED
    BY <1>1, <1>2, <1>3 DEF DateScanned, TimeScanned

\* One more component of the date has been read.
LEMMA DateScan ==
    ASSUME NEW q \in Seq(Component), NEW n, NEW mo, NEW da, DateScanned(q, n, mo, da),
           n + 1 <= Len(q), DateOK(q[n + 1])
    PROVE  DateScanned(q, n + 1, Wrap(mo + MonthsOf(q[n + 1]), W32), Wrap(da + DaysOf(q[n + 1]), W32))
  <1>1. n \in 0 .. Len(q) /\ n + 1 \in 1 .. Len(q) /\ n + 1 \in 0 .. Len(q) /\ (n + 1) - 1 = n
        /\ mo \in Int /\ da \in Int
    BY Units DEF DateScanned
  <1>2. PICK c \in Component : c = q[n + 1]
    BY <1>1
  <1>3. /\ MonthsOf(c) \in Int /\ Months(c) \in Int /\ Cong(MonthsOf(c), Months(c), W32)
        /\ DaysOf(c) \in Int /\ Worth(c, "D", 1) = DaysOf(c)
    BY <1>2, DateStep
  <1>4. ASSUME NEW p, Sums(Len(q), MonthsSeq(q), p)
        PROVE  Wrap(mo + MonthsOf(c), W32) = Wrap(p[n + 1], W32)
    <2>1. MonthsSeq(q)[n + 1] = Months(c)
      BY <1>1, <1>2 DEF MonthsSeq
    <2>2. p[n] \in Int /\ p[n + 1] = p[n] + Months(c)
      BY <1>1, <1>4, <2>1 DEF Sums
    <2>3. mo = Wrap(p[n], W32)
      BY <1>4 DEF DateScanned
    <2>4. PICK s \in Int, g \in Int, d \in Int : s = p[n] /\ g = MonthsOf(c) /\ d = Months(c)
      BY <1>3, <2>2
    <2>5. Wrap(Wrap(s, W32) + g, W32) = Wrap(s + d, W32)
      BY <1>3, <2>4, Units, Accumulate
    <2> QED
      BY <2>2, <2>3, <2>4, <2>5
  <1>5. ASSUME NEW p, Sums(Len(q), DaysSeq(q), p)
        PROVE  Wrap(da + DaysOf(c), W32) = Wrap(p[n + 1], W32)
    <2>1. DaysSeq(q)[n + 1] = DaysOf(c)
      BY <1>1, <1>2, <1>3 DEF DaysSeq
    <2>2. p[n] \in Int /\ p[n + 1] = p[n] + DaysOf(c)
      BY <1>1, <1>5, <2>1 DEF Sums
    <2>3. da = Wrap(p[n], W32)
      BY <1>5 DEF DateScanned
    <2>4. PICK s \in Int, g \in Int : s = p[n] /\ g = DaysOf(c)
      BY <1>3, <2>2
    <2>5. Cong(g, g, W32)
      BY Units, CongId
    <2>6. Wrap(Wrap(s, W32) + g, W32) = Wrap(s + g, W32)
      BY <2>5, Units, Accumulate
    <2> QED
      BY <2>2, <2>3, <2>4, <2>6
  <1>6. Wrap(mo + MonthsOf(c), W32) \in -W32 .. W32 - 1 /\ Wrap(da + DaysOf(c), W32) \in -W32 .. W32 - 1
    <2>1. mo + MonthsOf(c) \in Int /\ da + DaysOf(c) \in Int
      BY <1>1, <1>3
    <2> QED
      BY <2>1, Units, WrapRange
  <1>7. \A k \in 1 .. n + 1 : DateOK(q[k])
    <2>1. \A k \in 1 .. n + 1 : k \in 1 .. n \/ k = n + 1
      BY <1>1
    <2> QED
      BY <2>1 DEF DateScanned
  <1>8. PICK a, b : a = Wrap(mo + MonthsOf(c), W32) /\ b = Wrap(da + DaysOf(c), W32)
    OBVIOUS
  <1>9. DateScanned(q, n + 1, a, b)
    BY <1>1, <1>4, <1>5, <1>6, <1>7, <1>8 DEF DateScanned
  <1> QED
    BY <1>2, <1>8, <1>9

\* One more component of the time has been read.
LEMMA TimeScan ==
    ASSUME NEW q \in Seq(Component), NEW n, NEW mi, TimeScanned(q, n, mi),
           n + 1 <= Len(q), TimeOK(q[n + 1])
    PROVE  TimeScanned(q, n + 1, Wrap(mi + MicrosOf(q[n + 1]), W64))
  <1>1. n \in 0 .. Len(q) /\ n + 1 \in 1 .. Len(q) /\ n + 1 \in 0 .. Len(q) /\ (n + 1) - 1 = n
        /\ mi \in Int
    BY Units DEF TimeScanned
  <1>2. PICK c \in Component : c = q[n + 1]
    BY <1>1
  <1>3. MicrosOf(c) \in Int /\ Micros(c) \in Int /\ Cong(MicrosOf(c), Micros(c), W64)
    BY <1>2, TimeStep
  <1>4. ASSUME NEW p, Sums(Len(q), MicrosSeq(q), p)
        PROVE  Wrap(mi + MicrosOf(c), W64) = Wrap(p[n + 1], W64)
    <2>1. MicrosSeq(q)[n + 1] = Micros(c)
      BY <1>1, <1>2 DEF MicrosSeq
    <2>2. p[n] \in Int /\ p[n + 1] = p[n] + Micros(c)
      BY <1>1, <1>4, <2>1 DEF Sums
    <2>3. mi = Wrap(p[n], W64)
      BY <1>4 DEF TimeScanned
    <2>4. PICK s \in Int, g \in Int, d \in Int : s = p[n] /\ g = MicrosOf(c) /\ d = Micros(c)
      BY <1>3, <2>2
    <2>5. Wrap(Wrap(s, W64) + g, W64) = Wrap(s + d, W64)
      BY <1>3, <2>4, Units, Accumulate
    <2> QED
      BY <2>2, <2>3, <2>4, <2>5
  <1>5. Wrap(mi + MicrosOf(c), W64) \in -W64 .. W64 - 1
    <2>1. mi + MicrosOf(c) \in Int
      BY <1>1, <1>3
    <2> QED
      BY <2>1, Units, WrapRange
  <1>6. \A k \in 1 .. n + 1 : TimeOK(q[k])
    <2>1. \A k \in 1 .. n + 1 : k \in 1 .. n \/ k = n + 1
      BY <1>1
    <2> QED
      BY <2>1 DEF TimeScanned
  <1>7. PICK a : a = Wrap(mi + MicrosOf(c), W64)
    OBVIOUS
  <1>8. TimeScanned(q, n + 1, a)
    BY <1>1, <1>4, <1>5, <1>6, <1>7 DEF TimeScanned
  <1> QED
    BY <1>2, <1>7, <1>8

-----------------------------------------------------------------------------
(* The invariant is kept.                                                  *)

\* It holds at first.
LEMMA IntervalInit == Init => IntervalInv
  <1> SUFFICES ASSUME Init PROVE IntervalInv
    OBVIOUS
  <1>1. at = 1 /\ months = 0 /\ days = 0 /\ us = 0
    BY DEF Init
  <1>2. CASE \E v \in Intervals : stage = "format" /\ given = {v} /\ text = <<>>
    BY <1>1, <1>2 DEF IntervalInv
  <1>3. CASE \E t \in Texts : stage = "parse" /\ given = {} /\ text = t
    <2>1. text.date \in Seq(Component) /\ text.time \in Seq(Component)
      BY <1>3, UnitsAssumption
    <2>2. TextOK
      BY <1>3, <2>1 DEF TextOK
    <2> QED
      BY <1>1, <1>3, <2>2 DEF IntervalInv
  <1> QED
    BY <1>2, <1>3 DEF Init

\* Writing.
LEMMA FormatKeeps == IntervalInv /\ Format => IntervalInv'
  <1> SUFFICES ASSUME IntervalInv, Format PROVE IntervalInv'
    OBVIOUS
  <1>1. PICK v \in Intervals : given = {v}
    BY DEF IntervalInv, Format
  <1>2. stage' = "parse" /\ given' = given /\ text' = formatIntervalISO(v)
    BY <1>1 DEF Format
  <1>3. at' = 1 /\ months' = 0 /\ days' = 0 /\ us' = 0
    BY DEF IntervalInv, Format
  <1>4. PICK t : t = formatIntervalISO(v)
    OBVIOUS
  <1>5. /\ t.date \in Seq(Component)
        /\ t.time \in Seq(Component) \/ (Len(t.time) \in Nat \ {0} /\ ~TimeOK(t.time[1]))
    BY <1>4, FormatFacts DEF DateReads, TimeReads
  <1>6. TextOK'
    BY <1>1, <1>2, <1>4, <1>5 DEF TextOK
  <1> QED
    BY <1>2, <1>3, <1>6 DEF IntervalInv

\* The text of a stage that reads is a text.
LEMMA TextStays ==
    ASSUME IntervalInv, stage # "format", text' = text, given' = given PROVE TextOK'
  <1>1. TextOK
    BY DEF IntervalInv
  <1> QED
    BY <1>1 DEF TextOK

\* Refusing.
LEMMA InvalidKeeps == IntervalInv /\ stage # "format" /\ Refused /\ Invalid => IntervalInv'
  <1> SUFFICES ASSUME IntervalInv, stage # "format", Refused, Invalid PROVE IntervalInv'
    OBVIOUS
  <1>1. stage' = "invalid" /\ text' = text /\ given' = given
    BY DEF Invalid
  <1>2. TextOK'
    BY <1>1, TextStays
  <1>3. Refused'
    BY <1>1 DEF Refused
  <1> QED
    BY <1>1, <1>2, <1>3 DEF IntervalInv

\* The length of the parts of a text.
LEMMA TextLens == ASSUME TextOK PROVE Len(text.date) \in Nat /\ Len(text.time) \in Nat
  BY DEF TextOK

\* A component that is read is one.
LEMMA TimeIsSeq ==
    ASSUME TextOK, Len(text.time) # 0 => TimeOK(text.time[1]) PROVE text.time \in Seq(Component)
  BY DEF TextOK

\* A text that has components.
LEMMA ParseKeeps == IntervalInv /\ Parse => IntervalInv'
  <1> SUFFICES ASSUME IntervalInv, Parse PROVE IntervalInv'
    OBVIOUS
  <1>1. /\ stage = "parse" /\ stage' = "date" /\ text' = text /\ given' = given
        /\ at' = 1 /\ months' = 0 /\ days' = 0 /\ us' = 0
    BY DEF IntervalInv, Parse
  <1>2. TextOK /\ TextOK'
    BY <1>1, TextStays DEF IntervalInv
  <1>3. PICK q : q = text.date
    OBVIOUS
  <1>4. DateScanned(q, 0, 0, 0)
    <2>1. Len(q) \in Nat
      BY <1>2, <1>3, TextLens
    <2> QED
      BY <2>1, NothingScanned
  <1>5. DateScanned(text.date, at - 1, months, days)'
    <2>1. at' - 1 = 0 /\ text'.date = q
      BY <1>1, <1>3
    <2> QED
      BY <1>1, <1>4, <2>1
  <1> QED
    BY <1>1, <1>2, <1>5 DEF IntervalInv

\* A component of the date.
LEMMA ScanDateKeeps == IntervalInv /\ ScanDate => IntervalInv'
  <1> SUFFICES ASSUME IntervalInv, ScanDate PROVE IntervalInv'
    OBVIOUS
  <1>1. stage = "date" /\ at <= Len(text.date) /\ DateOK(text.date[at])
    BY DEF ScanDate
  <1>2. stage' = "date" /\ text' = text /\ given' = given /\ us' = us /\ at' = at + 1
    BY <1>1 DEF ScanDate
  <1>3. at \in Nat \ {0} /\ us = 0 /\ DateScanned(text.date, at - 1, months, days) /\ TextOK
    BY <1>1 DEF IntervalInv
  <1>4. PICK q \in Seq(Component) : q = text.date
    BY <1>3 DEF TextOK
  <1>5. PICK n \in Nat : n = at - 1
    BY <1>3
  <1>5a. PICK mo, da : mo = months /\ da = days
    OBVIOUS
  <1>6. PICK c \in Component : c = q[n + 1]
    <2>1. n + 1 \in 1 .. Len(q)
      BY <1>1, <1>3, <1>4, <1>5
    <2> QED
      BY <2>1
  <1>7. n + 1 = at /\ text.date[at] = c
    BY <1>3, <1>4, <1>5, <1>6
  <1>8. DateScanned(q, n, mo, da) /\ n + 1 <= Len(q) /\ DateOK(q[n + 1])
    BY <1>1, <1>3, <1>4, <1>5, <1>5a, <1>6, <1>7
  <1>9. DateScanned(q, n + 1, Wrap(mo + MonthsOf(c), W32), Wrap(da + DaysOf(c), W32))
    BY <1>6, <1>8, DateScan
  <1>10. mo \in -W32 .. W32 - 1 /\ da \in -W32 .. W32 - 1 /\ Wrap(mo, W32) = mo /\ Wrap(da, W32) = da
         /\ mo + 0 = mo /\ da + 0 = da
    BY <1>8, Units, WrapId DEF DateScanned
  <1>11. c.unit \in {"Y", "M", "D"}
    BY <1>6, <1>8 DEF DateOK
  <1>12. /\ months' = CASE c.unit = "Y" -> Wrap(mo + Wrap(Signed(c) * 12, W32), W32)
                        [] c.unit = "M" -> Wrap(mo + Signed(c), W32)
                        [] c.unit = "D" -> mo
         /\ days' = IF c.unit = "D" THEN Wrap(da + Signed(c), W32) ELSE da
    BY <1>5a, <1>7 DEF ScanDate
  <1>13. months' = Wrap(mo + MonthsOf(c), W32)
    BY <1>10, <1>11, <1>12 DEF MonthsOf
  <1>14. days' = Wrap(da + DaysOf(c), W32)
    BY <1>10, <1>12 DEF DaysOf
  <1>15. DateScanned(text.date, at - 1, months, days)'
    <2>1. at' - 1 = n + 1 /\ text'.date = q
      BY <1>2, <1>4, <1>5, <1>7, <1>3
    <2> QED
      BY <1>9, <1>13, <1>14, <2>1
  <1>16. TextOK'
    BY <1>1, <1>2, TextStays
  <1> QED
    BY <1>2, <1>3, <1>15, <1>16 DEF IntervalInv

\* The end of the date.
LEMMA EndDateKeeps == IntervalInv /\ EndDate => IntervalInv'
  <1> SUFFICES ASSUME IntervalInv, EndDate PROVE IntervalInv'
    OBVIOUS
  <1>1. /\ stage = "date" /\ at > Len(text.date) /\ stage' = "time" /\ at' = 1
        /\ text' = text /\ given' = given /\ months' = months /\ days' = days /\ us' = us
    BY DEF EndDate
  <1>2. at \in Nat \ {0} /\ us = 0 /\ DateScanned(text.date, at - 1, months, days) /\ TextOK
    BY <1>1 DEF IntervalInv
  <1>3. at - 1 = Len(text.date)
    <2>1. at - 1 \in 0 .. Len(text.date)
      BY <1>2 DEF DateScanned
    <2>2. Len(text.date) \in Nat
      BY <1>2, TextLens
    <2> QED
      BY <1>1, <1>2, <2>1, <2>2
  <1>4. DateScanned(text.date, Len(text.date), months, days)
    BY <1>2, <1>3
  <1>5. DateScanned(text.date, Len(text.date), months, days)'
    BY <1>1, <1>4
  <1>6. PICK q : q = text.time
    OBVIOUS
  <1>7. TimeScanned(q, 0, 0)
    <2>1. Len(q) \in Nat
      BY <1>2, <1>6, TextLens
    <2> QED
      BY <2>1, NothingScanned
  <1>8. TimeScanned(text.time, at - 1, us)'
    <2>1. at' - 1 = 0 /\ text'.time = q /\ us' = 0
      BY <1>1, <1>2, <1>6
    <2> QED
      BY <1>7, <2>1
  <1>9. TextOK'
    BY <1>1, TextStays
  <1> QED
    BY <1>1, <1>5, <1>8, <1>9 DEF IntervalInv

\* A component of the time.
LEMMA ScanTimeKeeps == IntervalInv /\ ScanTime => IntervalInv'
  <1> SUFFICES ASSUME IntervalInv, ScanTime PROVE IntervalInv'
    OBVIOUS
  <1>1. stage = "time" /\ at <= Len(text.time) /\ TimeOK(text.time[at])
    BY DEF ScanTime
  <1>2. /\ stage' = "time" /\ text' = text /\ given' = given /\ at' = at + 1
        /\ months' = months /\ days' = days
    BY <1>1 DEF ScanTime
  <1>3. /\ at \in Nat \ {0} /\ TextOK
        /\ DateScanned(text.date, Len(text.date), months, days) /\ TimeScanned(text.time, at - 1, us)
    BY <1>1 DEF IntervalInv
  <1>4. text.time \in Seq(Component)
    <2>1. \A k \in 1 .. at - 1 : TimeOK(text.time[k])
      BY <1>3 DEF TimeScanned
    <2>2. at = 1 \/ 1 \in 1 .. at - 1
      BY <1>3
    <2>3. TimeOK(text.time[1])
      BY <1>1, <2>1, <2>2
    <2> QED
      BY <1>3, <2>3, TimeIsSeq
  <1>5. PICK q \in Seq(Component) : q = text.time
    BY <1>4
  <1>6. PICK n \in Nat : n = at - 1
    BY <1>3
  <1>6a. PICK mi : mi = us
    OBVIOUS
  <1>7. PICK c \in Component : c = q[n + 1]
    <2>1. n + 1 \in 1 .. Len(q)
      BY <1>1, <1>3, <1>5, <1>6
    <2> QED
      BY <2>1
  <1>8. n + 1 = at /\ text.time[at] = c
    BY <1>3, <1>5, <1>6, <1>7
  <1>9. TimeScanned(q, n, mi) /\ n + 1 <= Len(q) /\ TimeOK(q[n + 1])
    BY <1>1, <1>3, <1>5, <1>6, <1>6a, <1>7, <1>8
  <1>10. TimeScanned(q, n + 1, Wrap(mi + MicrosOf(c), W64))
    BY <1>7, <1>9, TimeScan
  <1>11. us' = Wrap(mi + MicrosOf(c), W64)
    BY <1>6a, <1>8 DEF ScanTime, MicrosOf
  <1>12. TimeScanned(text.time, at - 1, us)'
    <2>1. at' - 1 = n + 1 /\ text'.time = q
      BY <1>2, <1>3, <1>5, <1>6, <1>8
    <2> QED
      BY <1>10, <1>11, <2>1
  <1>13. DateScanned(text.date, Len(text.date), months, days)'
    BY <1>2, <1>3
  <1>14. TextOK'
    BY <1>1, <1>2, TextStays
  <1> QED
    BY <1>2, <1>3, <1>12, <1>13, <1>14 DEF IntervalInv

\* The end of the time.
LEMMA EndTimeKeeps == IntervalInv /\ EndTime => IntervalInv'
  <1> SUFFICES ASSUME IntervalInv, EndTime PROVE IntervalInv'
    OBVIOUS
  <1>1. /\ stage = "time" /\ at > Len(text.time) /\ stage' = "valid" /\ at' = at
        /\ text' = text /\ given' = given /\ months' = months /\ days' = days /\ us' = us
    BY DEF EndTime
  <1>2. /\ at \in Nat \ {0} /\ TextOK
        /\ DateScanned(text.date, Len(text.date), months, days) /\ TimeScanned(text.time, at - 1, us)
    BY <1>1 DEF IntervalInv
  <1>3. at - 1 = Len(text.time)
    <2>1. at - 1 \in 0 .. Len(text.time)
      BY <1>2 DEF TimeScanned
    <2>2. Len(text.time) \in Nat
      BY <1>2, TextLens
    <2> QED
      BY <1>1, <1>2, <2>1, <2>2
  <1>4. /\ DateScanned(text.date, Len(text.date), months, days)'
        /\ TimeScanned(text.time, at - 1, us)'
    BY <1>1, <1>2
  <1>5. at' - 1 = Len(text'.time)
    BY <1>1, <1>3
  <1>6. TextOK'
    BY <1>1, TextStays
  <1> QED
    BY <1>1, <1>2, <1>4, <1>5, <1>6 DEF IntervalInv

\* Every step keeps it.
LEMMA IntervalStep == IntervalInv /\ [Next]_vars => IntervalInv'
  <1> SUFFICES ASSUME IntervalInv, [Next]_vars PROVE IntervalInv'
    OBVIOUS
  <1>1. CASE ParseFails
    <2>1. stage # "format" /\ Refused /\ Invalid
      BY <1>1 DEF ParseFails, Refused
    <2> QED
      BY <2>1, InvalidKeeps
  <1>2. CASE ScanFails
    <2>1. Invalid /\ stage # "format"
      BY <1>2 DEF ScanFails
    <2>2. Refused
      <3>1. CASE stage = "date" /\ at <= Len(text.date) /\ ~DateOK(text.date[at])
        <4>1. at \in Nat \ {0} /\ TextOK
          BY <3>1 DEF IntervalInv
        <4>2. Len(text.date) \in Nat
          BY <4>1, TextLens
        <4>3. at \in 1 .. Len(text.date)
          BY <3>1, <4>1, <4>2
        <4> QED
          BY <3>1, <4>3 DEF Refused
      <3>2. CASE stage = "time" /\ at <= Len(text.time) /\ ~TimeOK(text.time[at])
        <4>1. at \in Nat \ {0} /\ TextOK
          BY <3>2 DEF IntervalInv
        <4>2. Len(text.time) \in Nat
          BY <4>1, TextLens
        <4>3. at \in 1 .. Len(text.time)
          BY <3>2, <4>1, <4>2
        <4> QED
          BY <3>2, <4>3 DEF Refused
      <3> QED
        BY <1>2, <3>1, <3>2 DEF ScanFails
    <2> QED
      BY <2>1, <2>2, InvalidKeeps
  <1>3. CASE UNCHANGED vars
    BY <1>3 DEF vars, IntervalInv, TextOK, Refused
  <1> QED
    BY <1>1, <1>2, <1>3, FormatKeeps, ParseKeeps, ScanDateKeeps, EndDateKeeps, ScanTimeKeeps,
       EndTimeKeeps DEF Next, Ended

\* The inductive invariant holds of every reachable state.
LEMMA IntervalInvariant == Spec => []IntervalInv
  BY IntervalInit, IntervalStep, PTL DEF Spec

-----------------------------------------------------------------------------
(* What is read.                                                           *)

\* The invariant implies that an interval comes back.
LEMMA RoundTripHolds == IntervalInv => RoundTrip
  <1> SUFFICES ASSUME IntervalInv, NEW v \in given
               PROVE  /\ stage = "valid" => months = v.months /\ days = v.days /\ us = v.us
                      /\ stage = "invalid" => v.us = -W64
    BY DEF RoundTrip
  <1>1. ASSUME stage \in {"valid", "invalid"}
        PROVE  v \in Intervals /\ text = formatIntervalISO(v)
    BY <1>1 DEF IntervalInv, TextOK
  <1>2. ASSUME stage \in {"valid", "invalid"}
        PROVE  /\ text.p
               /\ ~(text.date = <<>> /\ text.time = <<>>)
               /\ DateReads(text.date, v.months, v.days)
               /\ v.us # -W64 => TimeReads(text.time, v.us)
               /\ v.us = -W64 => Len(text.time) \in Nat \ {0} /\ ~TimeOK(text.time[1])
    BY <1>1, <1>2, FormatFacts
  <1>3. CASE stage = "invalid"
    <2>1. Refused
      BY <1>3 DEF IntervalInv
    <2> QED
      BY <1>2, <1>3, <2>1 DEF Refused, DateReads, TimeReads
  <1>4. CASE stage = "valid"
    <2>1. /\ DateScanned(text.date, Len(text.date), months, days)
          /\ TimeScanned(text.time, Len(text.time), us) /\ at - 1 = Len(text.time) /\ at \in Nat \ {0}
      BY <1>4 DEF IntervalInv
    <2>2. v.us # -W64
      <3> SUFFICES ASSUME v.us = -W64 PROVE FALSE
        OBVIOUS
      <3>1. 1 \in 1 .. Len(text.time) /\ ~TimeOK(text.time[1])
        BY <1>2, <1>4
      <3> QED
        BY <2>1, <3>1 DEF TimeScanned
    <2>3. DateReads(text.date, v.months, v.days) /\ TimeReads(text.time, v.us)
      BY <1>2, <1>4, <2>2
    <2>4. PICK d \in Seq(Component), t \in Seq(Component) : d = text.date /\ t = text.time
      BY <2>3 DEF DateReads, TimeReads
    <2>5. PICK pm, pd, pt : /\ Sums(Len(d), MonthsSeq(d), pm) /\ Sums(Len(d), DaysSeq(d), pd)
                            /\ Sums(Len(t), MicrosSeq(t), pt)
      <3>1. Len(d) \in Nat /\ Len(t) \in Nat
        OBVIOUS
      <3> QED
        BY <3>1, WorthSeqs, SumsExist
    <2>6. months = Wrap(v.months, W32) /\ days = Wrap(v.days, W32)
      BY <2>1, <2>3, <2>4, <2>5 DEF DateScanned, DateReads
    <2>7. us = Wrap(v.us, W64)
      BY <2>1, <2>3, <2>4, <2>5 DEF TimeScanned, TimeReads
    <2>8. /\ v.months \in -W32 .. W32 - 1 /\ v.days \in -W32 .. W32 - 1
          /\ v.us \in -W64 .. W64 - 1
      BY <1>1, <1>4, UnitsAssumption
    <2>9. Wrap(v.months, W32) = v.months /\ Wrap(v.days, W32) = v.days /\ Wrap(v.us, W64) = v.us
      BY <2>8, Units, WrapId
    <2> QED
      BY <1>4, <2>6, <2>7, <2>9
  <1> QED
    BY <1>3, <1>4

\* The invariant implies that a text is read as its sum.
LEMMA ReadsTotalHolds == IntervalInv => ReadsTotal
  <1> SUFFICES ASSUME IntervalInv, stage = "valid"
               PROVE  /\ months = Wrap(TotalMonths, W32) /\ days = Wrap(TotalDays, W32)
                      /\ us = Wrap(TotalMicros, W64)
                      /\ TotalMicros \in -W64 .. W64 - 1 => us = TotalMicros
    BY DEF ReadsTotal
  <1>1. /\ DateScanned(text.date, Len(text.date), months, days) /\ TextOK
        /\ TimeScanned(text.time, Len(text.time), us) /\ at - 1 = Len(text.time) /\ at \in Nat \ {0}
    BY DEF IntervalInv
  <1>2. text.date \in Seq(Component)
    BY <1>1 DEF TextOK
  <1>3. text.time \in Seq(Component)
    <2>1. Len(text.time) # 0 => 1 \in 1 .. Len(text.time)
      BY <1>1
    <2>2. Len(text.time) # 0 => TimeOK(text.time[1])
      BY <1>1, <2>1 DEF TimeScanned
    <2> QED
      BY <1>1, <2>2, TimeIsSeq
  <1>4. PICK d \in Seq(Component), t \in Seq(Component) : d = text.date /\ t = text.time
    BY <1>2, <1>3
  <1>5. Len(d) \in Nat /\ Len(t) \in Nat
    OBVIOUS
  <1>6. PICK pm : Sums(Len(d), MonthsSeq(d), pm) /\ Total(MonthsSeq(d)) = pm[Len(d)]
    BY <1>5, WorthSeqs, TotalFacts
  <1>7. PICK pd : Sums(Len(d), DaysSeq(d), pd) /\ Total(DaysSeq(d)) = pd[Len(d)]
    BY <1>5, WorthSeqs, TotalFacts
  <1>8. PICK pt : Sums(Len(t), MicrosSeq(t), pt) /\ Total(MicrosSeq(t)) = pt[Len(t)]
    BY <1>5, WorthSeqs, TotalFacts
  <1>9. /\ TotalMonths = Total(MonthsSeq(d)) /\ TotalDays = Total(DaysSeq(d))
        /\ TotalMicros = Total(MicrosSeq(t))
    BY <1>4 DEF TotalMonths, TotalDays, TotalMicros, MonthsSeq, DaysSeq, MicrosSeq
  <1>10. months = Wrap(TotalMonths, W32) /\ days = Wrap(TotalDays, W32)
    BY <1>1, <1>4, <1>6, <1>7, <1>9 DEF DateScanned
  <1>11. us = Wrap(TotalMicros, W64)
    BY <1>1, <1>4, <1>8, <1>9 DEF TimeScanned
  <1>12. ASSUME TotalMicros \in -W64 .. W64 - 1 PROVE us = TotalMicros
    <2>1. PICK z \in -W64 .. W64 - 1 : z = TotalMicros
      BY <1>12
    <2>2. Wrap(z, W64) = z
      BY Units, WrapId
    <2> QED
      BY <1>11, <2>1, <2>2
  <1> QED
    BY <1>10, <1>11, <1>12

\* SAFETY.  For every width, every unit and every interval: FromPgInterval
\* followed by ToPgInterval is the identity, except that -W64 microseconds are
\* refused, and nothing else that was written is.
THEOREM IntervalRoundTrip == Spec => []RoundTrip
  BY IntervalInvariant, RoundTripHolds, PTL

\* SAFETY.  For every duration a client sends, of any number of components in
\* any order: what scanIntervalComponents accepts is the exact sum of the
\* components, reduced to the width of the integer.
THEOREM IntervalReadsTotal == Spec => []ReadsTotal
  BY IntervalInvariant, ReadsTotalHolds, PTL

=============================================================================
