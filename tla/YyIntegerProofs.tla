-------------------------- MODULE YyIntegerProofs ---------------------------
(***************************************************************************)
(* write_u64 writes the decimal numeral of its argument, for every 64-bit  *)
(* integer.  The proof goes the way the code does: the multiplications and *)
(* shifts are divisions in the ranges they are used in, two digits are a   *)
(* row of the table, and chunks are put behind one another.                *)
(*                                                                         *)
(* Bounds are written as v < n: an interval with literal ends is taken for *)
(* the list of its members by the SMT backend.                             *)
(***************************************************************************)
EXTENDS YyInteger, SequenceTheorems, TLAPS

LEMMA D100 == ASSUME NEW v \in Nat, v < 10000 PROVE Div100(v) = v \div 100
  BY SMT DEF Div100
LEMMA D10000 == ASSUME NEW v \in Nat, v < E8 PROVE Div10000(v) = v \div E4
  BY SMT DEF Div10000, E4, E8
LEMMA D10000S == ASSUME NEW v \in Nat, v < 1000000 PROVE Div10000Short(v) = v \div E4
  BY SMT DEF Div10000Short, E4

\* n digits that say v.
Digits(s, n, v) ==
    /\ s \in Seq(Nat) /\ Len(s) = n /\ \A i \in 1 .. Len(s) : s[i] < 10
    /\ DigitsValue(s) = v

\* A place behind the digits holds zero.
LEMMA Places ==
  ASSUME NEW s \in Seq(Nat), NEW i \in Nat
  PROVE  Place(s, i) \in Nat /\ (i >= Len(s) => Place(s, i) = 0)
<1>1. Len(s) \in Nat
  BY LenProperties
<1>2. CASE i < Len(s)
  <2>1. Len(s) - i \in 1 .. Len(s)
    BY <1>1, <1>2, SMT
  <2>2. s[Len(s) - i] \in Nat
    BY <2>1, ElementOfSeq
  <2> QED  BY <1>1, <1>2, <2>2, SMT DEF Place
<1>3. CASE ~(i < Len(s))
  BY <1>1, <1>3, SMT DEF Place
<1> QED  BY <1>2, <1>3

LEMMA Fours ==
  ASSUME NEW s \in Seq(Nat), NEW k \in Nat
  PROVE  Four(s, k) \in Nat /\ (k >= Len(s) => Four(s, k) = 0)
<1>1. Len(s) \in Nat
  BY LenProperties
<1>2. /\ Place(s, k) \in Nat /\ Place(s, k + 1) \in Nat /\ Place(s, k + 2) \in Nat
      /\ Place(s, k + 3) \in Nat
  BY Places, SMT
<1>3. k >= Len(s) => /\ Place(s, k) = 0 /\ Place(s, k + 1) = 0 /\ Place(s, k + 2) = 0
                     /\ Place(s, k + 3) = 0
  BY <1>1, Places, SMT
<1>4. Four(s, k) \in Nat
  <2> DEFINE a == Place(s, k)
             b == Place(s, k + 1)
             c == Place(s, k + 2)
             d == Place(s, k + 3)
  <2>1. Four(s, k) = a + 10 * b + 100 * c + 1000 * d
    BY SMT DEF Four
  <2>2. a \in Nat /\ b \in Nat /\ c \in Nat /\ d \in Nat
    BY <1>2
  <2> HIDE DEF a, b, c, d
  <2> QED  BY <2>1, <2>2, SMT
<1>5. k >= Len(s) => Four(s, k) = 0
  BY <1>3, SMT DEF Four
<1> QED  BY <1>4, <1>5

LEMMA TwoDigits == ASSUME NEW v \in Nat, v < 100 PROVE Digits(Two(v), 2, v)
<1> DEFINE s == Two(v)
<1>1. s \in Seq(Nat) /\ Len(s) = 2 /\ s[1] = v \div 10 /\ s[2] = v % 10
  BY SMT DEF Two
<1> HIDE DEF s
<1>2. Place(s, 0) = v % 10 /\ Place(s, 1) = v \div 10 /\ Place(s, 2) = 0 /\ Place(s, 3) = 0
  BY <1>1, SMT DEF Place
<1>3. Four(s, 0) = v
  BY <1>2, SMT DEF Four
<1>4. Four(s, 4) = 0 /\ Four(s, 8) = 0 /\ Four(s, 12) = 0 /\ Four(s, 16) = 0
  <2>1. \A k \in Nat : k >= 2 => Four(s, k) = 0
    BY <1>1, Fours
  <2> QED  BY <2>1, SMT
<1>5. \A i \in 1 .. Len(s) : s[i] < 10
  BY <1>1, SMT
<1> QED  BY <1>1, <1>3, <1>4, <1>5, SMT DEF Digits, DigitsValue, s

LEMMA Behind4 ==
  ASSUME NEW m \in Nat, m <= 16, NEW a, NEW b, NEW s \in Seq(Nat), NEW t \in Seq(Nat),
         Digits(s, m, a), Digits(t, 4, b)
  PROVE  Digits(s \o t, m + 4, E4 * a + b)
<1> DEFINE st == s \o t
<1>1. Len(s) = m /\ Len(t) = 4
  BY DEF Digits
<1>2. /\ st \in Seq(Nat) /\ Len(st) = m + 4
      /\ \A i \in 1 .. m + 4 : st[i] = IF i <= m THEN s[i] ELSE t[i - m]
  <2>1. /\ st \in Seq(Nat) /\ Len(st) = Len(s) + Len(t)
        /\ \A i \in 1 .. Len(s) + Len(t) : st[i] = IF i <= Len(s) THEN s[i] ELSE t[i - Len(s)]
    BY ConcatProperties
  <2> QED  BY <2>1, <1>1
<1> HIDE DEF st
<1>3. \A i \in 1 .. Len(st) : st[i] < 10
  <2> SUFFICES ASSUME NEW i \in 1 .. m + 4 PROVE st[i] < 10
    BY <1>2
  <2>1. CASE i <= m
    BY <2>1, <1>1, <1>2, SMT DEF Digits
  <2>2. CASE i > m
    <3>1. i - m \in 1 .. 4 /\ st[i] = t[i - m]
      BY <2>2, <1>2, SMT
    <3> QED  BY <3>1, <1>1 DEF Digits
  <2> QED  BY <2>1, <2>2, SMT
<1>4. \A j \in Nat : j >= 4 => Place(st, j) = Place(s, j - 4)
  BY <1>1, <1>2, SMT DEF Place
<1>5. \A k \in Nat : k >= 4 => Four(st, k) = Four(s, k - 4)
  <2> SUFFICES ASSUME NEW k \in Nat, k >= 4 PROVE Four(st, k) = Four(s, k - 4)
    OBVIOUS
  <2>1. /\ Place(st, k) = Place(s, k - 4) /\ Place(st, k + 1) = Place(s, (k - 4) + 1)
        /\ Place(st, k + 2) = Place(s, (k - 4) + 2) /\ Place(st, k + 3) = Place(s, (k - 4) + 3)
    BY <1>4, SMT
  <2> QED  BY <2>1, SMT DEF Four
<1>6. Four(st, 0) = Four(t, 0)
  BY <1>1, <1>2, SMT DEF Four, Place
<1>7. /\ Four(st, 4) = Four(s, 0) /\ Four(st, 8) = Four(s, 4) /\ Four(st, 12) = Four(s, 8)
      /\ Four(st, 16) = Four(s, 12)
  BY <1>5, SMT
<1>8. /\ Four(t, 4) = 0 /\ Four(t, 8) = 0 /\ Four(t, 12) = 0 /\ Four(t, 16) = 0
      /\ Four(s, 16) = 0
  <2>1. \A k \in Nat : k >= 4 => Four(t, k) = 0
    BY <1>1, Fours
  <2>2. \A k \in Nat : k >= m => Four(s, k) = 0
    BY <1>1, Fours
  <2> QED  BY <2>1, <2>2, SMT
<1>9. /\ Four(s, 0) \in Nat /\ Four(s, 4) \in Nat /\ Four(s, 8) \in Nat /\ Four(s, 12) \in Nat
      /\ Four(t, 0) \in Nat
  <2>1. \A k \in Nat : Four(s, k) \in Nat
    BY Fours
  <2>2. \A k \in Nat : Four(t, k) \in Nat
    BY Fours
  <2> QED  BY <2>1, <2>2
<1>10. DigitsValue(st) = E4 * DigitsValue(s) + DigitsValue(t)
  BY <1>6, <1>7, <1>8, <1>9, SMT DEF DigitsValue, E4
<1> QED  BY <1>1, <1>2, <1>3, <1>10, SMT DEF Digits, st

LEMMA Behind2 ==
  ASSUME NEW m \in Nat, m <= 2, NEW a \in Nat, NEW b \in Nat, NEW s \in Seq(Nat),
         NEW t \in Seq(Nat), Digits(s, m, a), Digits(t, 2, b)
  PROVE  Digits(s \o t, m + 2, 100 * a + b)
<1> DEFINE st == s \o t
<1>1. Len(s) = m /\ Len(t) = 2
  BY DEF Digits
<1>2. /\ st \in Seq(Nat) /\ Len(st) = m + 2
      /\ \A i \in 1 .. m + 2 : st[i] = IF i <= m THEN s[i] ELSE t[i - m]
  <2>1. /\ st \in Seq(Nat) /\ Len(st) = Len(s) + Len(t)
        /\ \A i \in 1 .. Len(s) + Len(t) : st[i] = IF i <= Len(s) THEN s[i] ELSE t[i - Len(s)]
    BY ConcatProperties
  <2> QED  BY <2>1, <1>1
<1> HIDE DEF st
<1>3. \A i \in 1 .. Len(st) : st[i] < 10
  <2> SUFFICES ASSUME NEW i \in 1 .. m + 2 PROVE st[i] < 10
    BY <1>2
  <2>1. CASE i <= m
    BY <2>1, <1>1, <1>2, SMT DEF Digits
  <2>2. CASE i > m
    <3>1. i - m \in 1 .. 2 /\ st[i] = t[i - m]
      BY <2>2, <1>2, SMT
    <3> QED  BY <3>1, <1>1 DEF Digits
  <2> QED  BY <2>1, <2>2, SMT
<1>4. \A j \in Nat : j >= 2 => Place(st, j) = Place(s, j - 2)
  BY <1>1, <1>2, SMT DEF Place
<1>5. Place(st, 2) = Place(s, 0) /\ Place(st, 3) = Place(s, 1)
  BY <1>4, SMT
<1>6. Place(st, 0) = Place(t, 0) /\ Place(st, 1) = Place(t, 1)
  BY <1>1, <1>2, SMT DEF Place
<1>7. Place(s, 2) = 0 /\ Place(s, 3) = 0 /\ Place(t, 2) = 0 /\ Place(t, 3) = 0
  <2>1. \A i \in Nat : i >= 2 => Place(s, i) = 0
    BY <1>1, Places, SMT
  <2>2. \A i \in Nat : i >= 2 => Place(t, i) = 0
    BY <1>1, Places
  <2> QED  BY <2>1, <2>2, SMT
<1>8. /\ Four(s, 4) = 0 /\ Four(s, 8) = 0 /\ Four(s, 12) = 0 /\ Four(s, 16) = 0
      /\ Four(t, 4) = 0 /\ Four(t, 8) = 0 /\ Four(t, 12) = 0 /\ Four(t, 16) = 0
      /\ Four(st, 4) = 0 /\ Four(st, 8) = 0 /\ Four(st, 12) = 0 /\ Four(st, 16) = 0
  <2>1. \A k \in Nat : k >= 2 => Four(t, k) = 0
    BY <1>1, Fours
  <2>2. \A k \in Nat : k >= m => Four(s, k) = 0
    BY <1>1, Fours
  <2>3. \A k \in Nat : k >= m + 2 => Four(st, k) = 0
    BY <1>2, Fours
  <2> QED  BY <2>1, <2>2, <2>3, SMT
<1>9. /\ Place(s, 0) \in Nat /\ Place(s, 1) \in Nat /\ Place(t, 0) \in Nat /\ Place(t, 1) \in Nat
  BY Places
<1>10. Four(s, 0) = a /\ Four(t, 0) = b
  <2>1. DigitsValue(s) = a /\ DigitsValue(t) = b
    BY DEF Digits
  <2>2. Four(s, 0) \in Nat /\ Four(t, 0) \in Nat
    BY Fours
  <2> QED  BY <2>1, <2>2, <1>8, SMT DEF DigitsValue
<1>11. Four(st, 0) = 100 * a + b
  <2>1. \A u : Four(u, 0) = Place(u, 0) + 10 * Place(u, 1) + 100 * Place(u, 2) + 1000 * Place(u, 3)
    BY SMT DEF Four
  <2>2. a = Place(s, 0) + 10 * Place(s, 1)
    BY <2>1, <1>7, <1>9, <1>10, SMT
  <2>3. b = Place(t, 0) + 10 * Place(t, 1)
    BY <2>1, <1>7, <1>9, <1>10, SMT
  <2>4. Four(st, 0) = Place(t, 0) + 10 * Place(t, 1) + 100 * Place(s, 0) + 1000 * Place(s, 1)
    BY <2>1, <1>5, <1>6
  <2> DEFINE s0 == Place(s, 0)
             s1 == Place(s, 1)
             t0 == Place(t, 0)
             t1 == Place(t, 1)
  <2>5. s0 \in Nat /\ s1 \in Nat /\ t0 \in Nat /\ t1 \in Nat
    BY <1>9
  <2>6. a = s0 + 10 * s1 /\ b = t0 + 10 * t1
    BY <2>2, <2>3
  <2>7. Four(st, 0) = t0 + 10 * t1 + 100 * s0 + 1000 * s1
    BY <2>4, SMT
  <2> HIDE DEF s0, s1, t0, t1
  <2> QED  BY <2>5, <2>6, <2>7, SMT
<1>12. DigitsValue(st) = 100 * a + b
  BY <1>8, <1>11, SMT DEF DigitsValue
<1> QED  BY <1>2, <1>3, <1>12, SMT DEF Digits, st

LEMMA Len4Digits == ASSUME NEW v \in Nat, v < E4 PROVE Digits(Len4(v), 4, v)
<1> DEFINE aa == v \div 100
           bb == v - aa * 100
<1>1. aa \in Nat /\ aa < 100 /\ bb \in Nat /\ bb < 100 /\ 100 * aa + bb = v
  BY SMT DEF E4
<1>2. Len4(v) = Two(aa) \o Two(bb)
  <2>1. Div100(v) = aa
    BY D100, SMT DEF E4
  <2> QED  BY <2>1 DEF Len4
<1> HIDE DEF aa, bb
<1>3. Digits(Two(aa), 2, aa) /\ Digits(Two(bb), 2, bb)
  BY <1>1, TwoDigits
<1>4. Digits(Two(aa) \o Two(bb), 2 + 2, 100 * aa + bb)
  <2>1. Two(aa) \in Seq(Nat) /\ Two(bb) \in Seq(Nat)
    BY <1>3 DEF Digits
  <2> QED  BY <1>1, <1>3, <2>1, Behind2
<1>5. 2 + 2 = 4
  BY SMT
<1> QED  BY <1>1, <1>2, <1>4, <1>5

\* What E8 leaves are two chunks of four digits.
LEMMA Halved ==
  ASSUME NEW v \in Nat, v < E8
  PROVE  /\ v \div E4 \in Nat /\ v \div E4 < E4
         /\ v - (v \div E4) * E4 \in Nat /\ v - (v \div E4) * E4 < E4
         /\ E4 * (v \div E4) + (v - (v \div E4) * E4) = v
  BY SMT DEF E4, E8

LEMMA Len8Chunks ==
  ASSUME NEW v \in Nat, v < E8
  PROVE  Len8(v) = Len4(v \div E4) \o Len4(v - (v \div E4) * E4)
<1>1. Div10000(v) = v \div E4
  BY D10000
<1>2. Len8(v) = Len4(Div10000(v)) \o Len4(v - Div10000(v) * E4)
  BY DEF Len8, E4
<1> QED  BY <1>1, <1>2

\* The first digits: one or two, and no zero in front.
LEMMA FirstDigits ==
  ASSUME NEW v \in Nat, v < 100
  PROVE  \E m \in Nat : /\ 1 <= m /\ m <= 2 /\ Digits(First(v), m, v)
                        /\ First(v)[1] = 0 => v = 0 /\ m = 1
<1>1. CASE v < 10
  <2> DEFINE s == <<v>>
  <2>1. First(v) = s
    BY <1>1 DEF First
  <2>2. s \in Seq(Nat) /\ Len(s) = 1 /\ s[1] = v
    BY SMT
  <2> HIDE DEF s
  <2>3. Place(s, 0) = v /\ Place(s, 1) = 0 /\ Place(s, 2) = 0 /\ Place(s, 3) = 0
    BY <2>2, SMT DEF Place
  <2>4. Four(s, 0) = v
    BY <2>3, SMT DEF Four
  <2>5. Four(s, 4) = 0 /\ Four(s, 8) = 0 /\ Four(s, 12) = 0 /\ Four(s, 16) = 0
    <3>1. \A k \in Nat : k >= 1 => Four(s, k) = 0
      BY <2>2, Fours
    <3> QED  BY <3>1, SMT
  <2>6. DigitsValue(s) = v
    BY <2>4, <2>5, SMT DEF DigitsValue
  <2>7. \A i \in 1 .. Len(s) : s[i] < 10
    BY <1>1, <2>2, SMT
  <2>8. Digits(s, 1, v)
    BY <2>2, <2>6, <2>7 DEF Digits
  <2> QED  BY <2>1, <2>2, <2>8
<1>2. CASE ~(v < 10)
  <2>1. First(v) = Two(v)
    BY <1>2 DEF First
  <2>2. Digits(Two(v), 2, v)
    BY TwoDigits
  <2>3. Two(v)[1] = v \div 10
    BY DEF Two
  <2>4. v \div 10 # 0
    BY <1>2, SMT
  <2> QED  BY <2>1, <2>2, <2>3, <2>4
<1> QED  BY <1>1, <1>2

\* At most n digits that say v, with no zero in front.
Numeral(s, n, v) ==
    \E m \in Nat : /\ 1 <= m /\ m <= n /\ Digits(s, m, v)
                   /\ s[1] = 0 => v = 0 /\ m = 1

LEMMA Numeral2 == ASSUME NEW v \in Nat, v < 100 PROVE Numeral(First(v), 2, v)
  BY FirstDigits DEF Numeral

LEMMA NumeralBehind2 ==
  ASSUME NEW a \in Nat, a > 0, NEW b \in Nat, NEW s, NEW t, Numeral(s, 2, a), Digits(t, 2, b)
  PROVE  Numeral(s \o t, 4, 100 * a + b)
<1>1. PICK m \in Nat : 1 <= m /\ m <= 2 /\ Digits(s, m, a) /\ (s[1] = 0 => a = 0 /\ m = 1)
  BY DEF Numeral
<1>2. s \in Seq(Nat) /\ t \in Seq(Nat) /\ Len(s) = m
  BY <1>1 DEF Digits
<1>3. Digits(s \o t, m + 2, 100 * a + b)
  BY <1>1, <1>2, Behind2
<1>4. (s \o t)[1] = s[1]
  <2>1. 1 \in 1 .. Len(s) + Len(t) /\ 1 <= Len(s)
    BY <1>1, <1>2, LenProperties, SMT
  <2> QED  BY <1>2, <2>1, ConcatProperties
<1>5. m + 2 \in Nat /\ 1 <= m + 2 /\ m + 2 <= 4 /\ a # 0
  BY <1>1, SMT
<1> QED  BY <1>1, <1>3, <1>4, <1>5 DEF Numeral

LEMMA NumeralBehind4 ==
  ASSUME NEW n \in Nat, n <= 16, NEW a \in Nat, a > 0, NEW b \in Nat, NEW s, NEW t,
         Numeral(s, n, a), Digits(t, 4, b)
  PROVE  Numeral(s \o t, n + 4, E4 * a + b)
<1>1. PICK m \in Nat : 1 <= m /\ m <= n /\ Digits(s, m, a) /\ (s[1] = 0 => a = 0 /\ m = 1)
  BY DEF Numeral
<1>2. s \in Seq(Nat) /\ t \in Seq(Nat) /\ Len(s) = m
  BY <1>1 DEF Digits
<1>3. m <= 16
  BY <1>1, SMT
<1>4. Digits(s \o t, m + 4, E4 * a + b)
  BY <1>1, <1>2, <1>3, Behind4
<1>5. (s \o t)[1] = s[1]
  <2>1. 1 \in 1 .. Len(s) + Len(t) /\ 1 <= Len(s)
    BY <1>1, <1>2, LenProperties, SMT
  <2> QED  BY <1>2, <2>1, ConcatProperties
<1>6. m + 4 \in Nat /\ 1 <= m + 4 /\ m + 4 <= n + 4 /\ a # 0
  BY <1>1, SMT
<1> QED  BY <1>1, <1>4, <1>5, <1>6 DEF Numeral

LEMMA NumeralBehind8 ==
  ASSUME NEW n \in Nat, n <= 12, NEW a \in Nat, a > 0, NEW v \in Nat, v < E8, NEW s,
         Numeral(s, n, a)
  PROVE  Numeral(s \o Len8(v), n + 8, E8 * a + v)
<1> DEFINE hi == v \div E4
           lo == v - hi * E4
<1>1. hi \in Nat /\ hi < E4 /\ lo \in Nat /\ lo < E4 /\ E4 * hi + lo = v
  BY Halved
<1>2. Len8(v) = Len4(hi) \o Len4(lo)
  BY Len8Chunks
<1> HIDE DEF hi, lo
<1>3. Digits(Len4(hi), 4, hi) /\ Digits(Len4(lo), 4, lo)
  BY <1>1, Len4Digits
<1>4. Numeral(s \o Len4(hi), n + 4, E4 * a + hi)
  <2>1. n <= 16
    BY SMT
  <2> QED  BY <1>1, <1>3, <2>1, NumeralBehind4
<1>5. Numeral((s \o Len4(hi)) \o Len4(lo), (n + 4) + 4, E4 * (E4 * a + hi) + lo)
  <2>1. n + 4 \in Nat /\ n + 4 <= 16 /\ E4 * a + hi \in Nat /\ E4 * a + hi > 0
    BY <1>1, SMT DEF E4
  <2> QED  BY <1>1, <1>3, <1>4, <2>1, NumeralBehind4
<1>6. (s \o Len4(hi)) \o Len4(lo) = s \o Len8(v)
  <2>1. s \in Seq(Nat) /\ Len4(hi) \in Seq(Nat) /\ Len4(lo) \in Seq(Nat)
    BY <1>3 DEF Digits, Numeral
  <2> QED  BY <1>2, <2>1, ConcatAssociative
<1>7. (n + 4) + 4 = n + 8
  BY SMT
<1>8. E4 * (E4 * a + hi) + lo = E8 * a + v
  BY <1>1, SMT DEF E4, E8
<1> QED  BY <1>5, <1>6, <1>7, <1>8, Zenon

\* A bound on the digits can be raised.
LEMMA Raised ==
  ASSUME NEW s, NEW v, NEW k \in Nat, NEW n \in Nat, k <= n, Numeral(s, k, v)
  PROVE  Numeral(s, n, v)
<1>1. PICK m \in Nat : 1 <= m /\ m <= k /\ Digits(s, m, v) /\ (s[1] = 0 => v = 0 /\ m = 1)
  BY DEF Numeral
<1>2. m <= n
  BY <1>1, SMT
<1> QED  BY <1>1, <1>2, Zenon DEF Numeral

\* write_u64_len_5_8 and the two last branches of write_u32_len_1_8.
LEMMA Len5To8Numeral ==
  ASSUME NEW v \in Nat, E4 <= v, v < E8
  PROVE  Numeral(Len5To8(v), 8, v)
<1> DEFINE hi == v \div E4
           lo == v - hi * E4
<1>1. hi \in Nat /\ hi < E4 /\ lo \in Nat /\ lo < E4 /\ E4 * hi + lo = v
  BY Halved
<1>2. 0 < hi
  BY SMT DEF E4
<1>3. CASE v < 1000000
  <2>1. Len5To8(v) = First(hi) \o Len4(lo)
    <3>1. Div10000Short(v) = hi
      BY <1>3, D10000S
    <3> QED  BY <1>3, <3>1 DEF Len5To8, E4
  <2>2. hi < 100
    BY <1>3, SMT DEF E4
  <2> HIDE DEF hi, lo
  <2>3. Numeral(First(hi), 2, hi)
    BY <1>1, <2>2, Numeral2
  <2>4. Digits(Len4(lo), 4, lo)
    BY <1>1, Len4Digits
  <2>5. 2 <= 16 /\ 2 + 4 = 6 /\ 6 <= 8
    BY SMT
  <2>6. Numeral(First(hi) \o Len4(lo), 2 + 4, E4 * hi + lo)
    BY <1>1, <1>2, <2>3, <2>4, <2>5, NumeralBehind4
  <2>7. Numeral(First(hi) \o Len4(lo), 8, v)
    BY <1>1, <2>5, <2>6, Raised
  <2> QED  BY <2>1, <2>7
<1>4. CASE ~(v < 1000000)
  <2> DEFINE aa == hi \div 100
             bb == hi - aa * 100
  <2>1. Len5To8(v) = (First(aa) \o Two(bb)) \o Len4(lo)
    <3>1. Div10000(v) = hi
      BY D10000
    <3>2. Div100(hi) = aa
      <4>1. hi < 10000
        BY <1>1, SMT DEF E4
      <4>2. \A n \in Nat : n < 10000 => Div100(n) = n \div 100
        BY D100
      <4> QED  BY <1>1, <4>1, <4>2
    <3>3. Len5To8(v) = (First(Div100(Div10000(v)))
                          \o Two(Div10000(v) - Div100(Div10000(v)) * 100))
                             \o Len4(v - Div10000(v) * E4)
      BY <1>4 DEF Len5To8, E4
    <3> QED  BY <3>1, <3>2, <3>3
  <2>2. 100 <= hi
    BY <1>4, SMT DEF E4
  <2> HIDE DEF hi, lo
  <2>3. aa \in Nat /\ 0 < aa /\ aa < 100 /\ bb \in Nat /\ bb < 100 /\ 100 * aa + bb = hi
    BY <1>1, <2>2, SMT DEF E4
  <2> HIDE DEF aa, bb
  <2>4. Numeral(First(aa), 2, aa) /\ Digits(Two(bb), 2, bb)
    BY <2>3, Numeral2, TwoDigits
  <2>5. Numeral(First(aa) \o Two(bb), 4, hi)
    BY <2>3, <2>4, NumeralBehind2
  <2>6. Digits(Len4(lo), 4, lo)
    BY <1>1, Len4Digits
  <2>7. 4 <= 16 /\ 4 + 4 = 8
    BY SMT
  <2>8. Numeral((First(aa) \o Two(bb)) \o Len4(lo), 4 + 4, E4 * hi + lo)
    BY <1>1, <1>2, <2>5, <2>6, <2>7, NumeralBehind4
  <2> QED  BY <1>1, <2>1, <2>7, <2>8
<1> QED  BY <1>3, <1>4

LEMMA Len1To8Numeral ==
  ASSUME NEW v \in Nat, v < E8
  PROVE  Numeral(Len1To8(v), 8, v)
<1>1. CASE v < 100
  <2>1. Len1To8(v) = First(v)
    BY <1>1 DEF Len1To8
  <2>2. Numeral(First(v), 2, v) /\ 2 <= 8
    BY <1>1, Numeral2
  <2> QED  BY <2>1, <2>2, Raised
<1>2. CASE ~(v < 100) /\ v < E4
  <2> DEFINE aa == v \div 100
             bb == v - aa * 100
  <2>0. v < 10000
    BY <1>2 DEF E4
  <2>1. Len1To8(v) = First(aa) \o Two(bb)
    <3>1. Div100(v) = aa
      BY <2>0, D100
    <3> QED  BY <1>2, <2>0, <3>1 DEF Len1To8
  <2>2. aa \in Nat /\ 0 < aa /\ aa < 100 /\ bb \in Nat /\ bb < 100 /\ 100 * aa + bb = v
    BY <1>2, <2>0, SMT
  <2> HIDE DEF aa, bb
  <2>3. Numeral(First(aa), 2, aa) /\ Digits(Two(bb), 2, bb)
    BY <2>2, Numeral2, TwoDigits
  <2>4. Numeral(First(aa) \o Two(bb), 4, v) /\ 4 <= 8
    BY <2>2, <2>3, NumeralBehind2
  <2> QED  BY <2>1, <2>4, Raised
<1>3. CASE ~(v < E4)
  <2>1. ~(v < 10000) /\ ~(v < 100) /\ E4 <= v
    BY <1>3, SMT DEF E4
  <2>2. Len1To8(v) = Len5To8(v)
    BY <2>1 DEF Len1To8
  <2> QED  BY <2>1, <2>2, Len5To8Numeral
<1> QED  BY <1>1, <1>2, <1>3

\* The three branches of write_u64; the quotient is what the width allows.
LEMMA WriteU64Numeral ==
  ASSUME NEW v \in Nat, v \div E8 < E8 * E4
  PROVE  Numeral(WriteU64(v), 20, v)
<1> DEFINE tmp == v \div E8
           low == v - tmp * E8
<1>1. tmp \in Nat /\ low \in Nat /\ low < E8 /\ E8 * tmp + low = v
  BY SMT DEF E8
<1>2. CASE v < E8
  <2>1. WriteU64(v) = Len1To8(v)
    BY <1>2 DEF WriteU64
  <2>2. Numeral(Len1To8(v), 8, v) /\ 8 <= 20
    BY <1>2, Len1To8Numeral
  <2> QED  BY <2>1, <2>2, Raised
<1>3. CASE ~(v < E8) /\ v < E8 * E8
  <2>1. WriteU64(v) = Len1To8(tmp) \o Len8(low)
    BY <1>3 DEF WriteU64
  <2>2. 0 < tmp /\ tmp < E8
    BY <1>3, SMT DEF E8
  <2> HIDE DEF tmp, low
  <2>3. Numeral(Len1To8(tmp), 8, tmp)
    BY <1>1, <2>2, Len1To8Numeral
  <2>4. 8 <= 12 /\ 8 + 8 <= 20 /\ 8 + 8 \in Nat
    BY SMT
  <2>5. Numeral(Len1To8(tmp) \o Len8(low), 8 + 8, E8 * tmp + low)
    BY <1>1, <2>2, <2>3, <2>4, NumeralBehind8
  <2> QED  BY <1>1, <2>1, <2>4, <2>5, Raised
<1>4. CASE ~(v < E8 * E8)
  <2> DEFINE hgh == tmp \div E4
             mid == tmp - hgh * E4
  <2>1. WriteU64(v) = (Len5To8(hgh) \o Len4(mid)) \o Len8(low)
    <3>1. ~(v < E8)
      BY <1>4, SMT DEF E8
    <3> QED  BY <1>4, <3>1 DEF WriteU64
  <2>2. E8 <= tmp /\ tmp < E8 * E4
    BY <1>4, SMT DEF E8
  <2> HIDE DEF tmp, low
  <2>3. /\ hgh \in Nat /\ E4 <= hgh /\ hgh < E8 /\ mid \in Nat /\ mid < E4
        /\ E4 * hgh + mid = tmp /\ hgh > 0 /\ tmp > 0
    BY <1>1, <2>2, SMT DEF E4, E8
  <2> HIDE DEF hgh, mid
  <2>4. Numeral(Len5To8(hgh), 8, hgh) /\ Digits(Len4(mid), 4, mid)
    BY <2>3, Len5To8Numeral, Len4Digits
  <2>5. 8 <= 16 /\ 8 + 4 = 12 /\ 12 <= 12 /\ 12 + 8 = 20
    BY SMT
  <2>6. Numeral(Len5To8(hgh) \o Len4(mid), 8 + 4, E4 * hgh + mid)
    BY <2>3, <2>4, <2>5, NumeralBehind4
  <2>7. Numeral((Len5To8(hgh) \o Len4(mid)) \o Len8(low), 12 + 8, E8 * tmp + low)
    BY <1>1, <2>3, <2>5, <2>6, NumeralBehind8
  <2> QED  BY <1>1, <2>1, <2>5, <2>7
<1> QED  BY <1>2, <1>3, <1>4

\* For every unsigned 64-bit integer write_u64 writes its decimal numeral: at
\* most twenty digits, none of them a zero in front, that say the integer
\* (yyjson.c:5447-5577).
THEOREM WriteU64Exact ==
  ASSUME NEW v \in Nat, v < 18446744073709551616
  PROVE  IsNumeral(WriteU64(v), v)
<1>1. v \div E8 < E8 * E4
  BY SMT DEF E4, E8
<1>2. Numeral(WriteU64(v), 20, v)
  BY <1>1, WriteU64Numeral, SMT
<1>3. \A s : Numeral(s, 20, v) => IsNumeral(s, v)
  BY SMT DEF Numeral, Digits, IsNumeral
<1> QED  BY <1>2, <1>3, SMT

=============================================================================
