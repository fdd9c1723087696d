---------------------------- MODULE DocumentsProofs ---------------------------
(***************************************************************************)
(* The codecs of Multibase and the documents of Documents, for all keys,   *)
(* signatures and texts.                                                   *)
(*                                                                         *)
(* A text of digits stands for a number and for how many zeros it begins   *)
(* with, and for no two texts are both the same (SameNumber).  The encoder *)
(* divides by 58 and the decoder multiplies by 58; both keep the number    *)
(* and the leading zeros, so that decoding is the inverse of encoding.     *)
(* The documents follow from that and from DocInv.                         *)
(***************************************************************************)
EXTENDS Documents, SequenceFacts, SequenceTheorems

-------------------------------------------------------------------------------
(* Powers and products.                                                    *)

\* p[i] is the i-th power of b, up to n.
Powers(p, b, n) ==
    /\ p \in [0..n -> Nat]
    /\ p[0] = 1
    /\ \A i \in 1..n : p[i] = p[i - 1] * b

LEMMA PowersExist ==
  ASSUME NEW b \in Nat, NEW n \in Nat
  PROVE  \E p : Powers(p, b, n)
<1> DEFINE T == Nat
           step == [i \in 1..n |-> [x \in T |-> x * b]]
           one == 1
<1>1. step \in [1..n -> [T -> T]] /\ one \in T
  OBVIOUS
<1>2. PICK p : p \in [0..n -> T] /\ Iterates(p, n, one, step)
  <2> HIDE DEF step, one, T
  <2> QED BY <1>1, Recursion
<1>3. ASSUME NEW i \in 1..n PROVE p[i] = p[i - 1] * b
  <2>1. p[i - 1] \in Nat
    BY <1>2
  <2>2. p[i] = step[i][p[i - 1]]
    BY <1>2 DEF Iterates
  <2> QED BY <2>1, <2>2
<1> QED BY <1>2, <1>3 DEF Powers, Iterates

\* Products of natural numbers are monotonic.
LEMMA MulOrder ==
  ASSUME NEW a \in Nat, NEW b \in Nat, NEW c \in Nat, NEW d \in Nat, a =< b, c =< d
  PROVE  a * c =< b * d /\ a * c \in Nat /\ b * d \in Nat
<1>1. a * c =< b * c
  OBVIOUS
<1>2. b * c =< b * d
  OBVIOUS
<1> QED BY <1>1, <1>2

\* Powers are positive and monotonic, and exponents add up.
LEMMA PowersAdd ==
  ASSUME NEW b \in Nat \ {0}, NEW n \in Nat, NEW p, Powers(p, b, n)
  PROVE  /\ \A i \in 0..n : p[i] \in Nat \ {0}
         /\ \A i, k \in 0..n : i + k =< n => p[i + k] = p[i] * p[k]
         /\ \A i, k \in 0..n : i =< k => p[i] =< p[k]
<1>1. ASSUME NEW i \in 0..n PROVE p[i] \in Nat \ {0}
  <2> DEFINE S == {m \in 0..n : p[m] \in Nat \ {0}}
  <2>1. 0 \in S
    BY DEF Powers
  <2>2. ASSUME NEW m \in 0..(n - 1), m \in S PROVE m + 1 \in S
    <3>1. m + 1 \in 1..n /\ m + 1 \in 0..n /\ (m + 1) - 1 = m
      OBVIOUS
    <3>2. p[m + 1] = p[m] * b /\ p[m] \in Nat \ {0}
      BY <2>2, <3>1 DEF Powers
    <3>3. p[m] * b \in Nat \ {0}
      BY <3>2
    <3> QED BY <3>1, <3>2, <3>3
  <2> HIDE DEF S
  <2>3. 0..n \subseteq S
    BY <2>1, <2>2, BoundedInduction
  <2> QED BY <2>3 DEF S
<1>2. ASSUME NEW i \in 0..n, NEW k \in 0..n, i + k =< n PROVE p[i + k] = p[i] * p[k]
  <2> DEFINE S == {m \in 0..(n - i) : p[i + m] = p[i] * p[m]}
  <2>1. 0 \in S
    <3>1. p[i] \in Nat /\ p[0] = 1 /\ i + 0 = i
      BY <1>1 DEF Powers
    <3> QED BY <3>1
  <2>2. ASSUME NEW m \in 0..((n - i) - 1), m \in S PROVE m + 1 \in S
    <3>1. /\ m + 1 \in 1..n /\ (m + 1) - 1 = m /\ i + (m + 1) \in 1..n
          /\ (i + (m + 1)) - 1 = i + m /\ m \in 0..n
      OBVIOUS
    <3>2. p[m + 1] = p[m] * b /\ p[i + (m + 1)] = p[i + m] * b
      BY <3>1 DEF Powers
    <3>3. p[i] \in Nat /\ p[m] \in Nat /\ p[i + m] = p[i] * p[m]
      BY <1>1, <2>2, <3>1
    <3>4. (p[i] * p[m]) * b = p[i] * (p[m] * b)
      BY <3>3
    <3> QED BY <3>1, <3>2, <3>3, <3>4
  <2>3. n - i \in Nat
    OBVIOUS
  <2> HIDE DEF S
  <2>4. 0..(n - i) \subseteq S
    BY <2>1, <2>2, <2>3, BoundedInduction
  <2> QED BY <1>2, <2>4 DEF S
<1>3. ASSUME NEW i \in 0..n, NEW k \in 0..n, i =< k PROVE p[i] =< p[k]
  <2>1. k - i \in 0..n /\ i + (k - i) = k
    BY <1>3
  <2>2. p[k] = p[i] * p[k - i] /\ p[i] \in Nat /\ p[k - i] \in Nat /\ 1 =< p[k - i]
    BY <1>1, <1>2, <2>1
  <2>3. p[i] * 1 =< p[i] * p[k - i]
    BY <2>2, MulOrder
  <2> QED BY <2>2, <2>3
<1> QED BY <1>1, <1>2, <1>3

\* Comparisons of powers of two bases multiply.
LEMMA PowersGrow ==
  ASSUME NEW a \in Nat \ {0}, NEW b \in Nat \ {0}, NEW n \in Nat, NEW p, NEW q, Powers(p, a, n), Powers(q, b, n),
         NEW i \in 0..n, NEW j \in 0..n, NEW k \in 0..n, NEW l \in 0..n, i + j =< n, k + l =< n,
         p[i] =< q[k], p[j] =< q[l]
  PROVE  p[i + j] =< q[k + l]
<1>1. p[i + j] = p[i] * p[j] /\ q[k + l] = q[k] * q[l]
  BY PowersAdd
<1>2. p[i] \in Nat /\ p[j] \in Nat /\ q[k] \in Nat /\ q[l] \in Nat
  BY PowersAdd
<1> QED BY <1>1, <1>2, MulOrder

\* The ratio of x to z is at most d / c; h / g is no less than the product of d / c and f / e.
AtMost(x, z, c, d) == x \in Nat /\ z \in Nat /\ c \in Nat /\ d \in Nat \ {0} /\ x * c =< z * d
Rounds(c, d, e, f, g, h) == g \in Nat /\ h \in Nat \ {0} /\ g * (d * f) =< (c * e) * h

\* A positive factor may be cancelled.
LEMMA CancelFactor ==
  ASSUME NEW a \in Nat, NEW b \in Nat, NEW d \in Nat \ {0}, a * d =< b * d
  PROVE  a =< b
<1>1. SUFFICES ASSUME b + 1 =< a PROVE FALSE
  OBVIOUS
<1>2. (b + 1) * d =< a * d /\ (b + 1) * d = b * d + d /\ b * d \in Nat /\ a * d \in Nat
  BY <1>1, MulOrder
<1> QED BY <1>2

\* Ratios multiply, and what comes out may be rounded up.
LEMMA Multiplied ==
  ASSUME NEW x, NEW y, NEW z, NEW w, NEW c, NEW d, NEW e, NEW f, NEW g, NEW h,
         AtMost(x, z, c, d), AtMost(y, w, e, f), Rounds(c, d, e, f, g, h)
  PROVE  AtMost(x * y, z * w, g, h)
<1>1. /\ x \in Nat /\ y \in Nat /\ z \in Nat /\ w \in Nat
      /\ c \in Nat /\ d \in Nat \ {0} /\ e \in Nat /\ f \in Nat \ {0}
      /\ g \in Nat /\ h \in Nat \ {0}
      /\ x * c =< z * d /\ y * e =< w * f /\ g * (d * f) =< (c * e) * h
  BY DEF AtMost, Rounds
<1> DEFINE X == x * y
           Z == z * w
           C == c * e
           D == d * f
<1>2. X \in Nat /\ Z \in Nat /\ C \in Nat /\ D \in Nat \ {0}
  BY <1>1
<1>3. X * C =< Z * D
  <2>1. (x * c) * (y * e) =< (z * d) * (w * f)
    <3>1. x * c \in Nat /\ y * e \in Nat /\ z * d \in Nat /\ w * f \in Nat
      BY <1>1
    <3> QED BY <1>1, <3>1, MulOrder
  <2>2. (x * c) * (y * e) = X * C /\ (z * d) * (w * f) = Z * D
    BY <1>1
  <2> QED BY <2>1, <2>2
<1>4. g * D =< C * h
  BY <1>1
<1> HIDE DEF X, Z, C, D
<1>5. X * (g * D) =< X * (C * h)
  <2>1. g * D \in Nat /\ C * h \in Nat
    BY <1>2, <1>1
  <2> QED BY <1>2, <1>4, <2>1, MulOrder
<1>6. (X * C) * h =< (Z * D) * h
  <2>1. X * C \in Nat /\ Z * D \in Nat
    BY <1>2
  <2> QED BY <1>3, <1>1, <2>1, MulOrder
<1>7. X * (g * D) = (X * g) * D /\ X * (C * h) = (X * C) * h /\ (Z * D) * h = (Z * h) * D
  BY <1>2, <1>1
<1>8. (X * g) * D =< (Z * h) * D
  <2>1. (X * g) * D \in Nat /\ (X * C) * h \in Nat /\ (Z * h) * D \in Nat
    BY <1>2, <1>1
  <2> QED BY <1>5, <1>6, <1>7, <2>1
<1>9. X * g \in Nat /\ Z * h \in Nat
  BY <1>2, <1>1
<1>10. X * g =< Z * h
  BY <1>2, <1>8, <1>9, CancelFactor
<1> QED BY <1>2, <1>10, <1>1 DEF X, Z, AtMost

Ratio(p, q, i, k, c, d) == AtMost(p[i], q[k], c, d)
Sum(m, i, j) == i \in 0..1000 /\ j \in 0..1000 /\ m \in 0..1000 /\ m = i + j

\* 58 ^ 1000 =< 256 ^ 733.
LEMMA ThousandDigits ==
  ASSUME NEW n \in Nat, n >= 1000, NEW p, NEW q, Powers(p, 58, n), Powers(q, 256, n)
  PROVE  p[1000] =< q[733]
<1>1. /\ \A i \in 0..n : p[i] \in Nat /\ q[i] \in Nat
      /\ \A i, k \in 0..n : i + k =< n => p[i + k] = p[i] * p[k]
      /\ \A i, k \in 0..n : i + k =< n => q[i + k] = q[i] * q[k]
  BY PowersAdd
<1>2. ASSUME NEW m, NEW i, NEW j, Sum(m, i, j)
      PROVE  p[m] = p[i] * p[j] /\ q[m] = q[i] * q[j]
  <2>1. i \in 0..n /\ j \in 0..n /\ i + j =< n /\ m = i + j
    BY <1>2 DEF Sum
  <2> QED BY <1>1, <2>1
<1>3. ASSUME NEW i, NEW j, NEW k, NEW l, NEW c, NEW d, NEW e, NEW f, NEW g, NEW h, NEW m, NEW r,
             Ratio(p, q, i, k, c, d), Ratio(p, q, j, l, e, f), Sum(m, i, j), Sum(r, k, l),
             Rounds(c, d, e, f, g, h)
      PROVE  Ratio(p, q, m, r, g, h)
  <2>1. AtMost(p[i], q[k], c, d) /\ AtMost(p[j], q[l], e, f)
    BY <1>3 DEF Ratio
  <2>2. AtMost(p[i] * p[j], q[k] * q[l], g, h)
    BY <1>3, <2>1, Multiplied
  <2>3. p[m] = p[i] * p[j] /\ q[r] = q[k] * q[l]
    BY <1>2, <1>3
  <2> QED BY <2>2, <2>3 DEF Ratio
<1>4. /\ p[1] = 58 /\ p[2] = 3364 /\ p[3] = 195112 /\ p[4] = 11316496
      /\ q[1] = 256 /\ q[2] = 65536 /\ q[3] = 16777216
  <2>1. Sum(2, 1, 1) /\ Sum(3, 2, 1) /\ Sum(4, 3, 1)
    BY DEF Sum
  <2>2. p[1] = 58 /\ q[1] = 256
    <3>1. p[0] = 1 /\ q[0] = 1
      BY DEF Powers
    <3>2. 1 \in 1..n /\ 1 - 1 = 0
      OBVIOUS
    <3>3. p[1] = p[0] * 58 /\ q[1] = q[0] * 256
      BY <3>2 DEF Powers
    <3> QED BY <3>1, <3>3
  <2>3. p[2] = p[1] * p[1] /\ q[2] = q[1] * q[1]
    BY <1>2, <2>1
  <2>4. p[3] = p[2] * p[1] /\ q[3] = q[2] * q[1]
    BY <1>2, <2>1
  <2>5. p[4] = p[3] * p[1]
    BY <1>2, <2>1
  <2>6. p[2] = 3364 /\ q[2] = 65536
    BY <2>2, <2>3
  <2>7. p[3] = 195112 /\ q[3] = 16777216
    BY <2>2, <2>4, <2>6
  <2>8. p[4] = 11316496
    BY <2>2, <2>5, <2>7
  <2> QED BY <2>2, <2>6, <2>7, <2>8
<1>5. Ratio(p, q, 4, 3, 37, 25)
  BY <1>4 DEF Ratio, AtMost
<1>6. Ratio(p, q, 3, 2, 67, 200)
  BY <1>4 DEF Ratio, AtMost
<1>7. Ratio(p, q, 2, 2, 1, 1)
  BY <1>4 DEF Ratio, AtMost
<1>8. Ratio(p, q, 8, 6, 219, 100)
  <2>1. Sum(8, 4, 4) /\ Sum(6, 3, 3) /\ Rounds(37, 25, 37, 25, 219, 100)
    BY DEF Sum, Rounds
  <2> QED BY <1>3, <1>5, <2>1
<1>9. Ratio(p, q, 11, 8, 11, 15)
  <2>1. Sum(11, 8, 3) /\ Sum(8, 6, 2) /\ Rounds(219, 100, 67, 200, 11, 15)
    BY DEF Sum, Rounds
  <2> QED BY <1>3, <1>8, <1>6, <2>1
<1>10. Ratio(p, q, 15, 11, 13, 12)
  <2>1. Sum(15, 11, 4) /\ Sum(11, 8, 3) /\ Rounds(11, 15, 37, 25, 13, 12)
    BY DEF Sum, Rounds
  <2> QED BY <1>3, <1>9, <1>5, <2>1
<1>11. Ratio(p, q, 30, 22, 169, 144)
  <2>1. Sum(30, 15, 15) /\ Sum(22, 11, 11) /\ Rounds(13, 12, 13, 12, 169, 144)
    BY DEF Sum, Rounds
  <2> QED BY <1>3, <1>10, <2>1
<1>12. Ratio(p, q, 60, 44, 11, 8)
  <2>1. Sum(60, 30, 30) /\ Sum(44, 22, 22) /\ Rounds(169, 144, 169, 144, 11, 8)
    BY DEF Sum, Rounds
  <2> QED BY <1>3, <1>11, <2>1
<1>13. Ratio(p, q, 71, 52, 1, 1)
  <2>1. Sum(71, 60, 11) /\ Sum(52, 44, 8) /\ Rounds(11, 8, 11, 15, 1, 1)
    BY DEF Sum, Rounds
  <2> QED BY <1>3, <1>12, <1>9, <2>1
<1>14. Ratio(p, q, 142, 104, 1, 1)
  <2>1. Sum(142, 71, 71) /\ Sum(104, 52, 52) /\ Rounds(1, 1, 1, 1, 1, 1)
    BY DEF Sum, Rounds
  <2> QED BY <1>3, <1>13, <2>1
<1>15. Ratio(p, q, 284, 208, 1, 1)
  <2>1. Sum(284, 142, 142) /\ Sum(208, 104, 104) /\ Rounds(1, 1, 1, 1, 1, 1)
    BY DEF Sum, Rounds
  <2> QED BY <1>3, <1>14, <2>1
<1>16. Ratio(p, q, 426, 312, 1, 1)
  <2>1. Sum(426, 284, 142) /\ Sum(312, 208, 104) /\ Rounds(1, 1, 1, 1, 1, 1)
    BY DEF Sum, Rounds
  <2> QED BY <1>3, <1>15, <1>14, <2>1
<1>17. Ratio(p, q, 497, 364, 1, 1)
  <2>1. Sum(497, 426, 71) /\ Sum(364, 312, 52) /\ Rounds(1, 1, 1, 1, 1, 1)
    BY DEF Sum, Rounds
  <2> QED BY <1>3, <1>16, <1>13, <2>1
<1>18. Ratio(p, q, 994, 728, 1, 1)
  <2>1. Sum(994, 497, 497) /\ Sum(728, 364, 364) /\ Rounds(1, 1, 1, 1, 1, 1)
    BY DEF Sum, Rounds
  <2> QED BY <1>3, <1>17, <2>1
<1>19. Ratio(p, q, 6, 5, 1, 1)
  <2>1. Sum(6, 4, 2) /\ Sum(5, 3, 2) /\ Rounds(37, 25, 1, 1, 1, 1)
    BY DEF Sum, Rounds
  <2> QED BY <1>3, <1>5, <1>7, <2>1
<1>20. Ratio(p, q, 1000, 733, 1, 1)
  <2>1. Sum(1000, 994, 6) /\ Sum(733, 728, 5) /\ Rounds(1, 1, 1, 1, 1, 1)
    BY DEF Sum, Rounds
  <2> QED BY <1>3, <1>18, <1>19, <2>1
<1> QED BY <1>20 DEF Ratio, AtMost

\* The decoder's buffer has room for as many digits as it is made for.
LEMMA BufferHolds ==
  ASSUME NEW m \in Nat, NEW p, NEW q, Powers(p, 58, 1000 * (m + 1)), Powers(q, 256, 1000 * (m + 1))
  PROVE  /\ BufferSize(m) \in Nat /\ BufferSize(m) =< m + 1 /\ BufferSize(m) =< 1000 * (m + 1)
         /\ p[m] =< q[BufferSize(m)]
<1> DEFINE n == 1000 * (m + 1)
           s == BufferSize(m)
<1>1. /\ s \in Nat /\ s =< m + 1 /\ 733 * m =< 1000 * s /\ 1000 * s =< n /\ n \in Nat
      /\ n >= 1000 /\ s =< n /\ m =< n
  BY DEF BufferSize
<1> HIDE DEF n, s
<1>2. Powers(p, 58, n) /\ Powers(q, 256, n)
  BY DEF n
<1>3. p[1000] =< q[733]
  BY <1>1, <1>2, ThousandDigits
<1>4. /\ \A i \in 0..n : p[i] \in Nat \ {0} /\ q[i] \in Nat \ {0}
      /\ \A i, k \in 0..n : i + k =< n => p[i + k] = p[i] * p[k]
      /\ \A i, k \in 0..n : i + k =< n => q[i + k] = q[i] * q[k]
      /\ \A i, k \in 0..n : i =< k => q[i] =< q[k]
  <2>1. 58 \in Nat \ {0} /\ 256 \in Nat \ {0}
    OBVIOUS
  <2> QED BY <1>1, <1>2, <2>1, PowersAdd
<1>5. p[1000 * m] =< q[733 * m]
  <2> DEFINE S == {j \in 0..m : p[1000 * j] =< q[733 * j]}
  <2>1. 0 \in S
    <3>1. 1000 * 0 = 0 /\ 733 * 0 = 0 /\ 0 \in 0..m
      OBVIOUS
    <3> QED BY <1>2, <3>1 DEF Powers
  <2>2. ASSUME NEW j \in 0..(m - 1), j \in S PROVE j + 1 \in S
    <3>1. /\ j + 1 \in 0..m /\ 1000 * (j + 1) = 1000 * j + 1000 /\ 733 * (j + 1) = 733 * j + 733
          /\ 1000 * j \in 0..n /\ 733 * j \in 0..n /\ 1000 \in 0..n /\ 733 \in 0..n
          /\ 1000 * j + 1000 =< n /\ 733 * j + 733 =< n
      BY <1>1 DEF n
    <3>2. p[1000 * j] =< q[733 * j]
      BY <2>2
    <3>3. p[1000 * j + 1000] =< q[733 * j + 733]
      BY <1>1, <1>2, <1>3, <3>1, <3>2, PowersGrow
    <3> QED BY <3>1, <3>3
  <2> HIDE DEF S
  <2>3. 0..m \subseteq S
    BY <2>1, <2>2, BoundedInduction
  <2> QED BY <2>3 DEF S
<1>6. ASSUME p[m] > q[s] PROVE FALSE
  <2> DEFINE S == {k \in 0..1000 : p[k * m] >= q[k * s] /\ (k > 0 => p[k * m] > q[k * s])}
  <2>1. 0 \in S
    <3>1. 0 * m = 0 /\ 0 * s = 0
      BY <1>1
    <3>2. p[0] = 1 /\ q[0] = 1
      BY <1>2 DEF Powers
    <3> QED BY <3>1, <3>2
  <2>2. ASSUME NEW k \in 0..(1000 - 1), k \in S PROVE k + 1 \in S
    <3>1. k * m \in Nat /\ k * s \in Nat /\ (k + 1) * m = k * m + m /\ (k + 1) * s = k * s + s
      BY <1>1
    <3>2. (k + 1) * m =< 1000 * m /\ (k + 1) * s =< 1000 * s
      BY <1>1, MulOrder
    <3>3. /\ k * m \in 0..n /\ m \in 0..n /\ k * s \in 0..n /\ s \in 0..n /\ k * m + m =< n
          /\ k * s + s =< n
      BY <1>1, <3>1, <3>2 DEF n
    <3>4. p[k * m + m] = p[k * m] * p[m] /\ q[k * s + s] = q[k * s] * q[s]
      BY <1>4, <3>3
    <3> DEFINE a == p[k * m]
               b == q[k * s]
               c == p[m]
               d == q[s]
    <3>5. /\ a \in Nat \ {0} /\ b \in Nat \ {0} /\ c \in Nat \ {0} /\ d \in Nat \ {0}
          /\ a >= b /\ c > d
      BY <1>4, <1>6, <2>2, <3>3
    <3> HIDE DEF a, b, c, d
    <3>6. b * d =< a * d /\ a * d < a * c /\ b * d \in Nat /\ a * d \in Nat /\ a * c \in Nat
      BY <3>5
    <3>7. a * c > b * d
      BY <3>6
    <3>8. p[(k + 1) * m] = a * c /\ q[(k + 1) * s] = b * d
      BY <3>1, <3>4 DEF a, b, c, d
    <3> QED BY <3>6, <3>7, <3>8
  <2> HIDE DEF S
  <2>3. 1000 \in Nat
    OBVIOUS
  <2>4. 0..1000 \subseteq S
    BY <2>1, <2>2, <2>3, BoundedInduction
  <2>5. p[1000 * m] > q[1000 * s]
    <3>1. 1000 \in S
      BY <2>4
    <3> QED BY <3>1 DEF S
  <2>6. 733 * m \in 0..n /\ 1000 * s \in 0..n /\ 1000 * m \in 0..n
    BY <1>1 DEF n
  <2>7. q[733 * m] =< q[1000 * s]
    BY <1>1, <1>4, <2>6
  <2> QED BY <1>4, <1>5, <2>5, <2>6, <2>7
<1>7. p[m] \in Nat /\ q[s] \in Nat
  BY <1>1, <1>4
<1>8. p[m] =< q[s]
  BY <1>6, <1>7
<1> QED BY <1>1, <1>8 DEF s, n

-------------------------------------------------------------------------------
(* Positional notation.                                                    *)

\* NumberOf reads a sequence of digits from the left.
LEMMA NumbersOf ==
  ASSUME NEW b \in Nat, NEW s \in Seq(Nat)
  PROVE  /\ Len(s) \in Nat
         /\ \A i \in 0..Len(s) : Numbers(s, b)[i] \in Nat
         /\ Numbers(s, b)[0] = 0
         /\ \A i \in 1..Len(s) : s[i] \in Nat /\ Numbers(s, b)[i] = Numbers(s, b)[i - 1] * b + s[i]
         /\ NumberOf(s, b) = Numbers(s, b)[Len(s)] /\ NumberOf(s, b) \in Nat
<1> DEFINE n == Len(s)
           T == Nat
           zero == 0
           step == [i \in 1..n |-> [x \in T |-> x * b + s[i]]]
           Solves(f) == f = [i \in 0..n |-> IF i = 0 THEN 0 ELSE f[i - 1] * b + s[i]]
<1>1. n \in Nat /\ \A i \in 1..n : s[i] \in Nat
  OBVIOUS
<1>2. step \in [1..n -> [T -> T]] /\ zero \in T
  <2> HIDE DEF n
  <2>1. \A i \in 1..n : \A x \in Nat : x * b + s[i] \in Nat
    BY <1>1
  <2> QED BY <2>1
<1>3. \E f : Solves(f)
  <2>1. PICK f : f \in [0..n -> T] /\ Iterates(f, n, zero, step)
    <3> HIDE DEF step, zero, T, n
    <3> QED BY <1>1, <1>2, Recursion
  <2> HIDE DEF n
  <2>2. ASSUME NEW i \in 0..n PROVE f[i] = IF i = 0 THEN 0 ELSE f[i - 1] * b + s[i]
    <3>1. CASE i = 0
      BY <2>1, <3>1 DEF Iterates
    <3>2. CASE i # 0
      <4>1. i \in 1..n /\ i - 1 \in 0..n
        BY <1>1, <3>2
      <4> HIDE DEF step
      <4>2. f[i - 1] \in Nat
        BY <2>1, <4>1
      <4>3. f[i] = step[i][f[i - 1]]
        BY <2>1, <4>1 DEF Iterates
      <4>4. step[i][f[i - 1]] = f[i - 1] * b + s[i]
        BY <4>1, <4>2 DEF step
      <4> QED BY <3>2, <4>3, <4>4
    <3> QED BY <3>1, <3>2
  <2>3. f = [i \in 0..n |-> f[i]]
    BY <2>1
  <2> QED BY <2>2, <2>3
<1> DEFINE f == Numbers(s, b)
<1>4. f = CHOOSE g : Solves(g)
  BY DEF Numbers
<1>5. Solves(f)
  <2> HIDE DEF Solves, f
  <2> QED BY <1>3, <1>4
<1> HIDE DEF f, n
<1>6. f[0] = 0
  <2>1. 0 \in 0..n
    BY <1>1
  <2> QED BY <1>5, <2>1
<1>7. \A i \in 1..n : f[i] = f[i - 1] * b + s[i]
  <2>1. \A i \in 1..n : i \in 0..n /\ i # 0
    OBVIOUS
  <2> QED BY <1>5, <2>1
<1>8. \A i \in 0..n : f[i] \in Nat
  <2>1. \A i \in 1..n : f[i - 1] \in T => f[i] = step[i][f[i - 1]]
    BY <1>7
  <2>2. f[0] = zero
    BY <1>6
  <2> HIDE DEF step, zero
  <2>3. \A i \in 0..n : f[i] \in T
    <3> HIDE DEF T, Solves
    <3> QED BY <1>1, <1>2, <2>1, <2>2, Iterated
  <2> QED BY <2>3
<1>9. NumberOf(s, b) = f[n] /\ n \in 0..n
  BY <1>1 DEF NumberOf, f, n
<1> QED BY <1>1, <1>6, <1>7, <1>8, <1>9 DEF f, n

\* Multiplying out one step of Horner's scheme.
LEMMA Distribute ==
  ASSUME NEW a \in Nat, NEW x \in Nat, NEW c \in Nat, NEW b \in Nat, NEW d \in Nat
  PROVE  (a * x + c) * b + d = a * (x * b) + (c * b + d)
<1>1. a * x \in Nat /\ a * (x * b) = (a * x) * b
  OBVIOUS
<1>2. (a * x + c) * b = (a * x) * b + c * b
  BY <1>1
<1>3. (a * x) * b \in Nat /\ c * b \in Nat
  BY <1>1
<1> QED BY <1>1, <1>2, <1>3

\* How the number grows when digits are appended.
LEMMA NumberConcat ==
  ASSUME NEW b \in Nat \ {0}, NEW s \in Seq(Nat), NEW t \in Seq(Nat),
         NEW n \in Nat, NEW p, Powers(p, b, n), Len(t) =< n
  PROVE  s \o t \in Seq(Nat) /\ NumberOf(s \o t, b) = NumberOf(s, b) * p[Len(t)] + NumberOf(t, b)
<1> DEFINE u == s \o t
           U == Numbers(u, b)
           R == Numbers(s, b)
           Q == Numbers(t, b)
           k == Len(s)
           m == Len(t)
<1>1. /\ k \in Nat /\ m \in Nat /\ u \in Seq(Nat) /\ Len(u) = k + m
      /\ \A i \in 1..k : u[i] = s[i]
      /\ \A i \in 1..m : u[k + i] = t[i]
  OBVIOUS
<1> HIDE DEF u
<1>2. /\ U[0] = 0 /\ \A i \in 1..(k + m) : U[i] = U[i - 1] * b + u[i]
      /\ NumberOf(u, b) = U[k + m]
      /\ \A i \in 0..(k + m) : U[i] \in Nat
  <2>1. /\ Numbers(u, b)[0] = 0
        /\ \A i \in 1..Len(u) : Numbers(u, b)[i] = Numbers(u, b)[i - 1] * b + u[i]
        /\ NumberOf(u, b) = Numbers(u, b)[Len(u)]
        /\ \A i \in 0..Len(u) : Numbers(u, b)[i] \in Nat
    BY <1>1, NumbersOf
  <2> QED BY <1>1, <2>1
<1>3. /\ R[0] = 0 /\ \A i \in 1..k : R[i] = R[i - 1] * b + s[i] /\ s[i] \in Nat
      /\ NumberOf(s, b) = R[k] /\ R[k] \in Nat
      /\ \A i \in 0..k : R[i] \in Nat
  BY NumbersOf
<1>4. /\ Q[0] = 0 /\ \A i \in 1..m : Q[i] = Q[i - 1] * b + t[i] /\ t[i] \in Nat
      /\ NumberOf(t, b) = Q[m]
      /\ \A i \in 0..m : Q[i] \in Nat
  BY NumbersOf
<1> HIDE DEF k, m, U, R, Q
<1>5. U[k] = R[k]
  <2> DEFINE S == {i \in 0..k : U[i] = R[i]}
  <2>1. 0 \in S
    BY <1>1, <1>2, <1>3
  <2>2. ASSUME NEW i \in 0..(k - 1), i \in S PROVE i + 1 \in S
    <3>1. i + 1 \in 1..k /\ i + 1 \in 1..(k + m) /\ (i + 1) - 1 = i
      BY <1>1
    <3>2. U[i + 1] = U[i] * b + u[i + 1] /\ R[i + 1] = R[i] * b + s[i + 1]
      BY <1>2, <1>3, <3>1
    <3>3. u[i + 1] = s[i + 1] /\ U[i] = R[i]
      BY <1>1, <2>2, <3>1
    <3> QED BY <3>1, <3>2, <3>3
  <2> HIDE DEF S
  <2>3. 0..k \subseteq S
    BY <1>1, <2>1, <2>2, BoundedInduction
  <2> QED BY <1>1, <2>3 DEF S
<1>6. U[k + m] = R[k] * p[m] + Q[m]
  <2> DEFINE S == {i \in 0..m : U[k + i] = R[k] * p[i] + Q[i]}
  <2>1. 0 \in S
    <3>1. p[0] = 1 /\ k + 0 = k /\ 0 \in 0..m
      BY <1>1 DEF Powers
    <3>2. R[k] * 1 + 0 = R[k]
      BY <1>3
    <3> QED BY <1>4, <1>5, <3>1, <3>2
  <2>2. ASSUME NEW i \in 0..(m - 1), i \in S PROVE i + 1 \in S
    <3>1. /\ i + 1 \in 1..m /\ k + (i + 1) \in 1..(k + m) /\ (i + 1) - 1 = i
          /\ (k + (i + 1)) - 1 = k + i
          /\ i + 1 \in 1..n /\ i \in 0..n /\ i \in 0..m
      BY <1>1 DEF m
    <3>2. U[k + (i + 1)] = U[k + i] * b + u[k + (i + 1)] /\ Q[i + 1] = Q[i] * b + t[i + 1]
      BY <1>2, <1>4, <3>1
    <3>3. u[k + (i + 1)] = t[i + 1] /\ U[k + i] = R[k] * p[i] + Q[i] /\ p[i + 1] = p[i] * b
      BY <1>1, <2>2, <3>1 DEF Powers
    <3>4. p[i] \in Nat /\ R[k] \in Nat /\ Q[i] \in Nat /\ t[i + 1] \in Nat
      BY <1>3, <1>4, <3>1 DEF Powers
    <3>5. (R[k] * p[i] + Q[i]) * b + t[i + 1] = R[k] * (p[i] * b) + (Q[i] * b + t[i + 1])
      <4> DEFINE a == R[k]
                 x == p[i]
                 c == Q[i]
                 d == t[i + 1]
      <4>1. a \in Nat /\ x \in Nat /\ c \in Nat /\ d \in Nat /\ b \in Nat
        BY <3>4
      <4> HIDE DEF a, x, c, d
      <4>2. (a * x + c) * b + d = a * (x * b) + (c * b + d)
        BY <4>1, Distribute
      <4> QED BY <4>2 DEF a, x, c, d
    <3> QED BY <3>1, <3>2, <3>3, <3>5
  <2> HIDE DEF S
  <2>3. 0..m \subseteq S
    BY <1>1, <2>1, <2>2, BoundedInduction
  <2> QED BY <1>1, <2>3 DEF S
<1> QED BY <1>1, <1>2, <1>3, <1>4, <1>6 DEF u, m

\* Which zeros lead.
Leads(s, k) == k \in 0..Len(s) /\ (\A i \in 1..k : s[i] = 0) /\ (k < Len(s) => s[k + 1] # 0)

LEMMA LeadingZerosOf ==
  ASSUME NEW s \in Seq(Nat)
  PROVE  Leads(s, LeadingZeros(s)) /\ \A k : Leads(s, k) => k = LeadingZeros(s)
<1> DEFINE u == s \o <<1>>
           n == Len(s)
           I == {i \in 1..Len(u) : u[i] # 0}
           m == Min(I)
<1>1. /\ n \in Nat /\ Len(u) = n + 1 /\ u[n + 1] = 1
      /\ \A i \in 1..n : u[i] = s[i] /\ s[i] \in Nat
  OBVIOUS
<1> HIDE DEF u
<1>2. LeadingZeros(s) = IF I # {} THEN m - 1 ELSE 0 - 1
  BY DEF LeadingZeros, SelectInSeq, u
<1>3. n + 1 \in I /\ I \subseteq Nat
  BY <1>1
<1> HIDE DEF I
<1>4. m \in I /\ \A i \in I : m =< i
  BY <1>3, LeastNatural DEF Min
<1> HIDE DEF m
<1>5. LeadingZeros(s) = m - 1 /\ m \in 1..(n + 1)
  BY <1>1, <1>2, <1>3, <1>4 DEF I
<1>6. \A i \in 1..(m - 1) : s[i] = 0
  <2>1. \A i \in 1..(m - 1) : i \notin I /\ i \in 1..n /\ i \in 1..Len(u)
    BY <1>1, <1>4, <1>5
  <2> QED BY <1>1, <2>1 DEF I
<1>7. m - 1 < n => s[m] # 0
  <2>1. u[m] # 0
    BY <1>4 DEF I
  <2> QED BY <1>1, <1>5, <2>1
<1>8. Leads(s, m - 1)
  BY <1>1, <1>5, <1>6, <1>7 DEF Leads
<1>9. ASSUME NEW k, Leads(s, k) PROVE k = m - 1
  <2>1. k \in 0..n /\ (\A i \in 1..k : s[i] = 0) /\ (k < n => s[k + 1] # 0)
    BY <1>9 DEF Leads
  <2>2. CASE k < m - 1
    BY <1>1, <1>5, <1>6, <2>1, <2>2
  <2>3. CASE k > m - 1
    <3>1. m \in 1..k /\ m - 1 < n
      BY <1>1, <1>5, <2>1, <2>3
    <3> QED BY <1>7, <2>1, <3>1
  <2> QED BY <1>1, <1>5, <2>1, <2>2, <2>3
<1> QED BY <1>5, <1>8, <1>9

\* What appending and prepending a digit make of the number.
LEMMA NumberEmpty ==
  ASSUME NEW b \in Nat
  PROVE  NumberOf(<<>>, b) = 0
<1> DEFINE e == <<>>
<1>1. e \in Seq(Nat) /\ Len(e) = 0
  OBVIOUS
<1> HIDE DEF e
<1>2. NumberOf(e, b) = Numbers(e, b)[0] /\ Numbers(e, b)[0] = 0
  BY <1>1, NumbersOf
<1> QED BY <1>2 DEF e

\* What a text stands for is a natural number.
LEMMA NumberNatural ==
  ASSUME NEW b \in Nat, NEW s \in Seq(Nat)
  PROVE  NumberOf(s, b) \in Nat
BY NumbersOf

LEMMA NumberDigit ==
  ASSUME NEW b \in Nat, NEW d \in Nat
  PROVE  <<d>> \in Seq(Nat) /\ NumberOf(<<d>>, b) = d
<1> DEFINE s == <<d>>
<1>1. s \in Seq(Nat) /\ Len(s) = 1 /\ s[1] = d
  OBVIOUS
<1> HIDE DEF s
<1>2. /\ Numbers(s, b)[0] = 0 /\ Numbers(s, b)[1] = Numbers(s, b)[1 - 1] * b + s[1]
      /\ NumberOf(s, b) = Numbers(s, b)[1]
  <2>1. 1 \in 1..Len(s)
    BY <1>1
  <2>2. \A i \in 1..Len(s) : Numbers(s, b)[i] = Numbers(s, b)[i - 1] * b + s[i]
    BY <1>1, NumbersOf
  <2>3. Numbers(s, b)[0] = 0 /\ NumberOf(s, b) = Numbers(s, b)[Len(s)]
    BY <1>1, NumbersOf
  <2> QED BY <1>1, <2>1, <2>2, <2>3
<1>3. NumberOf(s, b) = 0 * b + d
  BY <1>1, <1>2
<1> QED BY <1>1, <1>3 DEF s

LEMMA NumberAppend ==
  ASSUME NEW b \in Nat \ {0}, NEW s \in Seq(Nat), NEW d \in Nat
  PROVE  Append(s, d) \in Seq(Nat) /\ NumberOf(Append(s, d), b) = NumberOf(s, b) * b + d
<1>1. PICK p : Powers(p, b, 1)
  BY PowersExist
<1>2. p[1] = b
  <2>1. p[0] = 1 /\ p[1] = p[1 - 1] * b
    BY <1>1 DEF Powers
  <2> QED BY <2>1
<1> DEFINE t == <<d>>
           one == 1
<1>3. t \in Seq(Nat) /\ NumberOf(t, b) = d /\ Len(t) = one /\ Len(t) =< one /\ one \in Nat
  BY NumberDigit
<1>4. Append(s, d) = s \o t /\ Append(s, d) \in Seq(Nat)
  OBVIOUS
<1> HIDE DEF t
<1>5. NumberOf(s \o t, b) = NumberOf(s, b) * p[Len(t)] + NumberOf(t, b)
  <2>1. Powers(p, b, one)
    BY <1>1
  <2> HIDE DEF one
  <2> QED BY <2>1, <1>3, NumberConcat
<1> QED BY <1>2, <1>3, <1>4, <1>5

LEMMA NumberPrepend ==
  ASSUME NEW b \in Nat \ {0}, NEW s \in Seq(Nat), NEW d \in Nat, NEW n \in Nat, NEW p, Powers(p, b, n), Len(s) =< n
  PROVE  <<d>> \o s \in Seq(Nat) /\ NumberOf(<<d>> \o s, b) = d * p[Len(s)] + NumberOf(s, b)
<1>1. <<d>> \in Seq(Nat) /\ NumberOf(<<d>>, b) = d
  BY NumberDigit
<1> DEFINE t == <<d>>
<1>2. t \in Seq(Nat)
  BY <1>1
<1> HIDE DEF t
<1>3. t \o s \in Seq(Nat) /\ NumberOf(t \o s, b) = NumberOf(t, b) * p[Len(s)] + NumberOf(s, b)
  BY <1>2, NumberConcat
<1> QED BY <1>1, <1>3 DEF t

\* Digits stand for less than the next power.
LEMMA NumberBound ==
  ASSUME NEW b \in Nat \ {0}, NEW s \in Seq(0..(b - 1)), NEW n \in Nat, NEW p, Powers(p, b, n), Len(s) =< n
  PROVE  s \in Seq(Nat) /\ NumberOf(s, b) < p[Len(s)]
<1> DEFINE m == Len(s)
           N == Numbers(s, b)
           S == {i \in 0..m : N[i] < p[i]}
<1>1. s \in Seq(Nat) /\ m \in Nat /\ \A i \in 1..m : s[i] \in 0..(b - 1)
  OBVIOUS
<1>2. /\ \A i \in 0..m : N[i] \in Nat
      /\ N[0] = 0
      /\ \A i \in 1..m : N[i] = N[i - 1] * b + s[i]
      /\ NumberOf(s, b) = N[m]
  BY <1>1, NumbersOf
<1> HIDE DEF m, N
<1>3. 0 \in S
  BY <1>1, <1>2 DEF Powers
<1>4. ASSUME NEW i \in 0..(m - 1), i \in S PROVE i + 1 \in S
  <2>1. /\ i + 1 \in 1..m /\ (i + 1) - 1 = i /\ i + 1 \in 1..n /\ i \in 0..n /\ i \in 0..m
        /\ i + 1 \in 0..m
    BY <1>1 DEF m
  <2>2. /\ N[i + 1] = N[i] * b + s[i + 1] /\ p[i + 1] = p[i] * b /\ N[i] < p[i]
        /\ s[i + 1] \in 0..(b - 1)
    BY <1>1, <1>2, <1>4, <2>1 DEF Powers
  <2> DEFINE x == N[i]
             y == p[i]
             d == s[i + 1]
  <2>3. x \in Nat /\ y \in Nat /\ d \in Nat /\ d < b /\ x + 1 =< y
    <3>1. x \in Nat /\ y \in Nat
      BY <1>2, <2>1 DEF Powers
    <3>2. d \in 0..(b - 1) /\ x < y
      BY <2>2
    <3> HIDE DEF x, y, d
    <3> QED BY <3>1, <3>2
  <2> HIDE DEF x, y, d
  <2>4. (x + 1) * b =< y * b /\ (x + 1) * b \in Nat /\ y * b \in Nat
    BY <2>3, MulOrder
  <2>5. (x + 1) * b = x * b + b /\ x * b \in Nat
    BY <2>3
  <2>6. x * b + d < y * b
    BY <2>3, <2>4, <2>5
  <2> QED BY <2>1, <2>2, <2>6 DEF x, y, d
<1> HIDE DEF S
<1>5. 0..m \subseteq S
  BY <1>1, <1>3, <1>4, BoundedInduction
<1> QED BY <1>1, <1>2, <1>5 DEF S, m

\* Leading zeros stand for nothing, anything else for something.
LEMMA NumberWithin ==
  ASSUME NEW b \in Nat \ {0}, NEW s \in Seq(Nat), NEW n \in Nat, NEW p, Powers(p, b, n), Len(s) =< n
  PROVE  /\ LeadingZeros(s) \in 0..Len(s)
         /\ LeadingZeros(s) = Len(s) => NumberOf(s, b) = 0
         /\ LeadingZeros(s) < Len(s) => p[(Len(s) - LeadingZeros(s)) - 1] =< NumberOf(s, b) /\ NumberOf(s, b) # 0
<1> DEFINE m == Len(s)
           k == LeadingZeros(s)
           N == Numbers(s, b)
           Z == {i \in 0..k : N[i] = 0}
           G == {i \in 0..((m - k) - 1) : p[i] =< N[(k + 1) + i]}
<1>1. m \in Nat /\ \A i \in 1..m : s[i] \in Nat
  OBVIOUS
<1>2. k \in 0..m /\ (\A i \in 1..k : s[i] = 0) /\ (k < m => s[k + 1] # 0)
  BY LeadingZerosOf DEF Leads
<1>3. /\ \A i \in 0..m : N[i] \in Nat
      /\ N[0] = 0
      /\ \A i \in 1..m : N[i] = N[i - 1] * b + s[i]
      /\ NumberOf(s, b) = N[m]
  BY <1>1, NumbersOf
<1>4. \A i \in 0..n : p[i] \in Nat \ {0}
  BY PowersAdd
<1>5. m =< n
  OBVIOUS
<1> HIDE DEF m, N, k
<1>6. N[k] = 0
  <2>1. 0 \in Z
    BY <1>1, <1>2, <1>3
  <2>2. ASSUME NEW i \in 0..(k - 1), i \in Z PROVE i + 1 \in Z
    <3>1. i + 1 \in 1..m /\ i + 1 \in 1..k /\ (i + 1) - 1 = i /\ i + 1 \in 0..k
      BY <1>1, <1>2
    <3>2. N[i + 1] = N[i] * b + s[i + 1] /\ N[i] = 0 /\ s[i + 1] = 0
      BY <1>2, <1>3, <2>2, <3>1
    <3> QED BY <3>1, <3>2
  <2> HIDE DEF Z
  <2>3. k \in Nat
    BY <1>1, <1>2
  <2>4. 0..k \subseteq Z
    BY <2>1, <2>2, <2>3, BoundedInduction
  <2> QED BY <1>1, <1>2, <2>4 DEF Z
<1>7. ASSUME k < m PROVE p[(m - k) - 1] =< N[m] /\ N[m] # 0
  <2> DEFINE r == (m - k) - 1
  <2>1. /\ r \in Nat /\ (k + 1) + r = m /\ k + 1 \in 1..m /\ (k + 1) - 1 = k
        /\ (k + 1) + 0 = k + 1 /\ r \in 0..n
    BY <1>1, <1>2, <1>5, <1>7
  <2>2. 0 \in G
    <3>1. N[k + 1] = N[k] * b + s[k + 1] /\ s[k + 1] # 0 /\ s[k + 1] \in Nat
      BY <1>1, <1>2, <1>3, <1>7, <2>1
    <3>2. 1 =< N[k + 1]
      BY <1>6, <3>1
    <3>3. p[0] = 1
      BY DEF Powers
    <3> QED BY <2>1, <3>2, <3>3
  <2>3. ASSUME NEW i \in 0..(r - 1), i \in G PROVE i + 1 \in G
    <3>1. /\ i + 1 \in 0..r /\ (k + 1) + (i + 1) \in 1..m /\ ((k + 1) + (i + 1)) - 1 = (k + 1) + i
          /\ (k + 1) + i \in 0..m /\ i \in 0..n /\ i + 1 \in 1..n /\ (i + 1) - 1 = i
      BY <1>1, <1>2, <1>5, <2>1
    <3> DEFINE x == N[(k + 1) + i]
               y == p[i]
               d == s[(k + 1) + (i + 1)]
    <3>2. x \in Nat /\ y \in Nat /\ d \in Nat /\ y =< x
      BY <1>1, <1>3, <1>4, <2>3, <3>1
    <3>3. N[(k + 1) + (i + 1)] = x * b + d /\ p[i + 1] = y * b
      BY <1>3, <3>1 DEF Powers
    <3> HIDE DEF x, y, d
    <3>4. y * b =< x * b /\ x * b \in Nat /\ y * b \in Nat
      BY <3>2, MulOrder
    <3>5. y * b =< x * b + d
      BY <3>2, <3>4
    <3> QED BY <3>1, <3>3, <3>5
  <2> HIDE DEF G
  <2>4. 0..r \subseteq G
    <3> HIDE DEF r
    <3> QED BY <2>1, <2>2, <2>3, BoundedInduction
  <2>5. r \in G
    BY <2>1, <2>4
  <2>6. p[r] =< N[(k + 1) + r]
    BY <2>5 DEF G
  <2> HIDE DEF r
  <2>7. p[r] \in Nat \ {0} /\ N[m] \in Nat
    <3>1. m \in 0..m
      BY <1>1
    <3> QED BY <1>3, <1>4, <2>1, <3>1
  <2>8. p[r] =< N[m] /\ N[m] # 0
    BY <2>1, <2>6, <2>7
  <2> QED BY <2>8 DEF r
<1> QED BY <1>2, <1>3, <1>6, <1>7 DEF m, k

LEMMA DigitsAreNumbers ==
  ASSUME NEW b \in Nat, NEW s \in Seq(0..(b - 1))
  PROVE  s \in Seq(Nat)
OBVIOUS

LEMMA ZerosNumber ==
  ASSUME NEW b \in Nat \ {0}, NEW k \in Nat, NEW s \in Seq(Nat)
  PROVE  /\ Zeros(k) \o s \in Seq(Nat) /\ NumberOf(Zeros(k) \o s, b) = NumberOf(s, b)
         /\ (s = <<>> \/ s[1] # 0) => LeadingZeros(Zeros(k) \o s) = k
<1> DEFINE z == Zeros(k)
           Z == Numbers(z, b)
           S == {i \in 0..k : Z[i] = 0}
           u == z \o s
<1>1. z \in Seq(Nat) /\ Len(z) = k /\ \A i \in 1..k : z[i] = 0
  BY DEF Zeros
<1> HIDE DEF z
<1>2. Len(s) \in Nat
  OBVIOUS
<1>3. PICK p : Powers(p, b, Len(s))
  BY <1>2, PowersExist
<1>4. p[Len(s)] \in Nat
  BY <1>2, <1>3 DEF Powers
<1>5. Z[0] = 0 /\ (\A i \in 1..k : Z[i] = Z[i - 1] * b + z[i]) /\ NumberOf(z, b) = Z[k]
  <2>1. /\ Z[0] = 0 /\ (\A i \in 1..Len(z) : Z[i] = Z[i - 1] * b + z[i])
        /\ NumberOf(z, b) = Z[Len(z)]
    BY <1>1, NumbersOf
  <2> QED BY <1>1, <2>1
<1> HIDE DEF Z
<1>6. NumberOf(z, b) = 0
  <2>1. 0 \in S
    BY <1>5
  <2>2. ASSUME NEW i \in 0..(k - 1), i \in S PROVE i + 1 \in S
    <3>1. i + 1 \in 1..k /\ (i + 1) - 1 = i
      OBVIOUS
    <3>2. Z[i + 1] = 0 * b + 0
      BY <1>1, <1>5, <2>2, <3>1
    <3> QED BY <3>1, <3>2
  <2> HIDE DEF S
  <2>3. 0..k \subseteq S
    BY <2>1, <2>2, BoundedInduction
  <2> QED BY <1>5, <2>3 DEF S
<1>7. u \in Seq(Nat) /\ NumberOf(u, b) = NumberOf(s, b)
  <2>1. u \in Seq(Nat) /\ NumberOf(u, b) = NumberOf(z, b) * p[Len(s)] + NumberOf(s, b)
    BY <1>1, <1>2, <1>3, NumberConcat
  <2>2. NumberOf(s, b) \in Nat
    BY NumbersOf
  <2> QED BY <1>4, <1>6, <2>1, <2>2
<1>8. ASSUME s = <<>> \/ s[1] # 0 PROVE LeadingZeros(u) = k
  <2>1. Len(u) = k + Len(s) /\ (\A i \in 1..k : u[i] = z[i]) /\ (0 < Len(s) => u[k + 1] = s[1])
    BY <1>1, <1>2
  <2>2. k < k + Len(s) => u[k + 1] # 0
    BY <1>2, <1>8, <2>1
  <2>3. Leads(u, k)
    BY <1>1, <1>2, <2>1, <2>2 DEF Leads
  <2> HIDE DEF u
  <2> QED BY <1>7, <2>3, LeadingZerosOf
<1> QED BY <1>7, <1>8 DEF z

\* What remains without the leading zeros.
LEMMA Stripped ==
  ASSUME NEW b \in Nat \ {0}, NEW T, T \subseteq Nat, NEW s \in Seq(T)
  PROVE  /\ Significant(s) \in Seq(T) /\ Significant(s) \in Seq(Nat)
         /\ Len(Significant(s)) = Len(s) - LeadingZeros(s) /\ Len(Significant(s)) =< Len(s)
         /\ s = Zeros(LeadingZeros(s)) \o Significant(s)
         /\ LeadingZeros(Significant(s)) = 0
         /\ Significant(s) = <<>> \/ Significant(s)[1] # 0
         /\ NumberOf(Significant(s), b) = NumberOf(s, b)
<1> DEFINE k == LeadingZeros(s)
           n == Len(s)
           w == Significant(s)
           z == Zeros(k)
<1>1. s \in Seq(Nat) /\ n \in Nat /\ \A i \in 1..n : s[i] \in T
  BY SeqMonotonic, ElementOfSeq, LenProperties
<1>2. k \in 0..n /\ (\A i \in 1..k : s[i] = 0) /\ (k < n => s[k + 1] # 0)
  BY <1>1, LeadingZerosOf DEF Leads
<1> HIDE DEF k
<1>3. z \in Seq(Nat) /\ Len(z) = k /\ \A i \in 1..k : z[i] = 0
  BY <1>1, <1>2 DEF Zeros
<1>4. w = SubSeq(s, k + 1, n) /\ n - k \in Nat
  BY <1>1, <1>2 DEF Significant, k
<1>5. w \in Seq(T) /\ Len(w) = n - k /\ \A i \in 1..(n - k) : w[i] = s[k + i]
  BY <1>1, <1>2, <1>4
<1> HIDE DEF w, z
<1>6. w \in Seq(Nat)
  BY <1>5, SeqMonotonic
<1>7. s = z \o w
  <2>1. /\ z \o w \in Seq(Nat) /\ Len(z \o w) = k + (n - k)
        /\ \A i \in 1..(k + (n - k)) : (z \o w)[i] = IF i =< k THEN z[i] ELSE w[i - k]
    <3>1. /\ z \o w \in Seq(Nat) /\ Len(z \o w) = Len(z) + Len(w)
          /\ \A i \in 1..(Len(z) + Len(w)) : (z \o w)[i] = IF i =< Len(z) THEN z[i] ELSE w[i - Len(z)]
      BY <1>3, <1>6, ConcatProperties
    <3> QED BY <1>3, <1>5, <3>1
  <2>2. k + (n - k) = n
    BY <1>1, <1>2
  <2>3. \A i \in 1..n : (z \o w)[i] = s[i]
    <3> SUFFICES ASSUME NEW i \in 1..n PROVE (z \o w)[i] = s[i]
      OBVIOUS
    <3>1. CASE i =< k
      <4>1. i \in 1..k
        BY <1>1, <1>2, <3>1
      <4> QED BY <1>2, <1>3, <2>1, <2>2, <3>1, <4>1
    <3>2. CASE i > k
      <4>1. i - k \in 1..(n - k) /\ k + (i - k) = i /\ ~(i =< k)
        BY <1>1, <1>2, <3>2
      <4> QED BY <1>5, <2>1, <2>2, <4>1
    <3>3. i =< k \/ i > k
      BY <1>1, <1>2
    <3> QED BY <3>1, <3>2, <3>3
  <2> QED BY <1>1, <2>1, <2>2, <2>3, SeqEqual
<1>8. w = <<>> \/ w[1] # 0
  <2>1. CASE k = n
    BY <1>1, <1>5, <2>1
  <2>2. CASE k < n
    <3>1. 1 \in 1..(n - k)
      BY <1>1, <1>2, <2>2
    <3> QED BY <1>2, <1>5, <2>2, <3>1
  <2> QED BY <1>1, <1>2, <2>1, <2>2
<1>9. LeadingZeros(w) = 0
  <2>1. Leads(w, 0)
    <3>1. Len(w) \in Nat /\ (0 < Len(w) => w[1] # 0)
      BY <1>5, <1>6, <1>8
    <3> QED BY <3>1 DEF Leads
  <2> QED BY <1>6, <2>1, LeadingZerosOf
<1>10. NumberOf(w, b) = NumberOf(s, b)
  <2>1. k \in Nat
    BY <1>1, <1>2
  <2> QED BY <1>6, <1>7, <2>1, ZerosNumber DEF z
<1>11. Len(w) =< n
  BY <1>1, <1>2, <1>5
<1> QED BY <1>5, <1>6, <1>7, <1>8, <1>9, <1>10, <1>11 DEF w, z, k

\* Of one length, digits are told apart by their number ...
LEMMA SameLength ==
  ASSUME NEW b \in Nat \ {0}, NEW s \in Seq(0..(b - 1)), NEW t \in Seq(0..(b - 1)),
         Len(s) = Len(t), NumberOf(s, b) = NumberOf(t, b)
  PROVE  s = t
<1> DEFINE m == Len(s)
           N == Numbers(s, b)
           M == Numbers(t, b)
           S == {i \in 0..m : N[m - i] = M[m - i]}
<1>1. /\ m \in Nat /\ Len(t) = m /\ s \in Seq(Nat) /\ t \in Seq(Nat)
      /\ \A i \in 1..m : s[i] \in 0..(b - 1) /\ t[i] \in 0..(b - 1)
  <2>1. m \in Nat /\ Len(t) = m
    OBVIOUS
  <2>2. s \in Seq(Nat) /\ t \in Seq(Nat)
    BY DigitsAreNumbers
  <2>3. \A i \in 1..m : s[i] \in 0..(b - 1)
    OBVIOUS
  <2>4. \A i \in 1..m : t[i] \in 0..(b - 1)
    BY <2>1
  <2> QED BY <2>1, <2>2, <2>3, <2>4
<1>2. /\ \A i \in 0..m : N[i] \in Nat
      /\ \A i \in 1..m : N[i] = N[i - 1] * b + s[i]
      /\ NumberOf(s, b) = N[m]
  BY <1>1, NumbersOf
<1>3. /\ \A i \in 0..m : M[i] \in Nat
      /\ \A i \in 1..m : M[i] = M[i - 1] * b + t[i]
      /\ NumberOf(t, b) = M[m]
  <2>1. /\ \A i \in 0..Len(t) : M[i] \in Nat
        /\ \A i \in 1..Len(t) : M[i] = M[i - 1] * b + t[i]
        /\ NumberOf(t, b) = M[Len(t)]
    BY <1>1, NumbersOf
  <2> QED BY <1>1, <2>1
<1> HIDE DEF m, N, M
<1>4. ASSUME NEW i \in 1..m, N[i] = M[i] PROVE N[i - 1] = M[i - 1] /\ s[i] = t[i]
  <2> DEFINE x == N[i - 1]
             y == M[i - 1]
             d == s[i]
             e == t[i]
  <2>1. i - 1 \in 0..m
    BY <1>1
  <2>2. x \in Nat /\ y \in Nat /\ d \in 0..(b - 1) /\ e \in 0..(b - 1) /\ x * b + d = y * b + e
    BY <1>1, <1>2, <1>3, <1>4, <2>1
  <2> HIDE DEF x, y, d, e
  <2>3. ASSUME NEW u \in Nat, NEW v \in Nat, NEW f \in 0..(b - 1), NEW g \in 0..(b - 1),
               u * b + f = v * b + g
        PROVE  ~(u < v)
    <3>1. SUFFICES ASSUME u + 1 =< v PROVE FALSE
      BY <2>3
    <3>2. (u + 1) * b =< v * b /\ v * b \in Nat
      BY <3>1, MulOrder
    <3>3. (u + 1) * b = u * b + b /\ u * b \in Nat
      BY <2>3
    <3>4. u * b + b =< v * b /\ f < b /\ g >= 0 /\ g \in Nat /\ f \in Nat
      BY <3>2, <3>3
    <3>5. u * b + f < v * b + g
      <4> DEFINE ub == u * b
                 vb == v * b
      <4>1. ub \in Nat /\ vb \in Nat /\ ub + b =< vb
        BY <3>2, <3>3, <3>4
      <4> HIDE DEF ub, vb
      <4>2. ub + f < vb + g
        BY <3>4, <4>1
      <4> QED BY <4>2 DEF ub, vb
    <3> QED BY <2>3, <3>5, <3>2, <3>3, <3>4
  <2>4. x = y
    <3>1. ~(x < y)
      BY <2>2, <2>3
    <3>2. y * b + e = x * b + d
      BY <2>2
    <3>3. ~(y < x)
      BY <2>2, <2>3, <3>2
    <3> QED BY <2>2, <3>1, <3>3
  <2>5. y * b \in Nat
    BY <2>2
  <2>6. d = e
    BY <2>2, <2>4, <2>5
  <2> QED BY <2>4, <2>6 DEF x, y, d, e
<1>5. 0 \in S
  <2>1. m - 0 = m /\ 0 \in 0..m
    BY <1>1
  <2> QED BY <1>2, <1>3, <2>1
<1>6. ASSUME NEW i \in 0..(m - 1), i \in S PROVE i + 1 \in S
  <2>1. m - i \in 1..m /\ (m - i) - 1 = m - (i + 1) /\ i + 1 \in 0..m
    BY <1>1
  <2> QED BY <1>4, <1>6, <2>1
<1>7. 0..m \subseteq S
  <2> HIDE DEF S
  <2> QED BY <1>1, <1>5, <1>6, BoundedInduction
<1>8. \A i \in 1..m : s[i] = t[i]
  <2> SUFFICES ASSUME NEW i \in 1..m PROVE s[i] = t[i]
    OBVIOUS
  <2>1. m - i \in 0..m /\ m - (m - i) = i
    BY <1>1
  <2>2. N[i] = M[i]
    BY <1>7, <2>1
  <2> QED BY <1>4, <2>2
<1>9. Len(s) = m
  BY DEF m
<1> QED BY <1>1, <1>8, <1>9, SeqEqual

\* ... and in general by their number and their leading zeros.
LEMMA SameNumber ==
  ASSUME NEW b \in Nat \ {0}, NEW s \in Seq(0..(b - 1)), NEW t \in Seq(0..(b - 1)),
         LeadingZeros(s) = LeadingZeros(t), NumberOf(s, b) = NumberOf(t, b)
  PROVE  s = t
<1> DEFINE n == Len(s) + Len(t)
           v == Significant(s)
           w == Significant(t)
<1>1. s \in Seq(Nat) /\ t \in Seq(Nat)
  BY DigitsAreNumbers
<1>2. Len(s) \in Nat /\ Len(t) \in Nat /\ n \in Nat /\ Len(s) =< n /\ Len(t) =< n
  BY <1>1
<1>3. PICK p : Powers(p, b, n)
  <2> HIDE DEF n
  <2> QED BY <1>2, PowersExist
<1>4. 0..(b - 1) \subseteq Nat
  OBVIOUS
<1>5. /\ v \in Seq(0..(b - 1)) /\ v \in Seq(Nat) /\ LeadingZeros(v) = 0 /\ Len(v) =< Len(s)
      /\ s = Zeros(LeadingZeros(s)) \o v /\ NumberOf(v, b) = NumberOf(s, b)
  BY <1>1, <1>4, Stripped
<1>6. /\ w \in Seq(0..(b - 1)) /\ w \in Seq(Nat) /\ LeadingZeros(w) = 0 /\ Len(w) =< Len(t)
      /\ t = Zeros(LeadingZeros(t)) \o w /\ NumberOf(w, b) = NumberOf(t, b)
  BY <1>1, <1>4, Stripped
<1> HIDE DEF n, v, w
<1>7. Len(v) \in Nat /\ Len(w) \in Nat /\ Len(v) =< n /\ Len(w) =< n
  BY <1>2, <1>5, <1>6
<1>8. ASSUME NEW x \in Seq(0..(b - 1)), NEW y \in Seq(0..(b - 1)), x \in Seq(Nat), y \in Seq(Nat),
             Len(x) =< n, Len(y) =< n,
             LeadingZeros(x) = 0, LeadingZeros(y) = 0, NumberOf(x, b) = NumberOf(y, b)
      PROVE  Len(x) =< Len(y)
  <2>1. SUFFICES ASSUME Len(x) > Len(y) PROVE FALSE
    BY <1>8
  <2>2. Len(x) \in Nat /\ Len(y) \in Nat
    BY <1>8
  <2>3. p[(Len(x) - 0) - 1] =< NumberOf(x, b)
    <3>1. LeadingZeros(x) < Len(x) => p[(Len(x) - LeadingZeros(x)) - 1] =< NumberOf(x, b)
      BY <1>2, <1>3, <1>8, NumberWithin
    <3> QED BY <1>8, <2>1, <2>2, <3>1
  <2>4. NumberOf(y, b) < p[Len(y)] /\ NumberOf(y, b) \in Nat
    BY <1>2, <1>3, <1>8, NumberBound, NumbersOf
  <2>5. /\ Len(x) - 1 \in 0..n /\ Len(y) \in 0..n /\ Len(y) =< Len(x) - 1
        /\ (Len(x) - 0) - 1 = Len(x) - 1
    BY <1>2, <1>8, <2>1, <2>2
  <2>6. p[Len(y)] =< p[Len(x) - 1] /\ p[Len(y)] \in Nat /\ p[Len(x) - 1] \in Nat
    BY <1>2, <1>3, <2>5, PowersAdd
  <2> QED BY <1>8, <2>3, <2>4, <2>5, <2>6
<1>9. NumberOf(v, b) = NumberOf(w, b)
  BY <1>5, <1>6
<1>10. Len(v) = Len(w)
  <2>1. Len(v) =< Len(w)
    BY <1>5, <1>6, <1>7, <1>8, <1>9
  <2>2. Len(w) =< Len(v)
    BY <1>5, <1>6, <1>7, <1>8, <1>9
  <2> QED BY <1>7, <2>1, <2>2
<1>11. v = w
  BY <1>5, <1>6, <1>9, <1>10, SameLength
<1> QED BY <1>5, <1>6, <1>11

-------------------------------------------------------------------------------
(* Encoding.                                                               *)

Divided(a, b) == a = (a \div b) * b + (a % b)

\* What the long division divides, and why its steps stay within bytes and digits.
Dividend(r, d) == r * 256 + d

LEMMA DigitDivision ==
  ASSUME NEW r \in 0..57, NEW d \in 0..255
  PROVE  /\ (Dividend(r, d) % 58) \in 0..57
         /\ (Dividend(r, d) \div 58) \in 0..255
         /\ Divided(Dividend(r, d), 58)
<1> DEFINE a == Dividend(r, d)
<1>1. a \in 0..14847 /\ a \in Nat
  <2>1. r \in Int /\ 0 =< r /\ r =< 57 /\ d \in Int /\ 0 =< d /\ d =< 255
    OBVIOUS
  <2>2. r * 256 + d \in Int /\ 0 =< r * 256 + d /\ r * 256 + d =< 14847
    BY <2>1
  <2> QED BY <2>2, SMTT(30) DEF Dividend
<1> HIDE DEF a
<1>2. (a % 58) \in 0..57
  BY <1>1
<1>3. (a \div 58) \in 0..255
  BY <1>1
<1>4. Divided(a, 58)
  BY <1>1 DEF Divided
<1> QED BY <1>2, <1>3, <1>4 DEF a

\* Long division leaves the quotient and the remainder.
LEMMA DivisionOf ==
  ASSUME NEW x \in Seq(0..255)
  PROVE  /\ DivMod58(x).quot \in Seq(0..255) /\ Len(DivMod58(x).quot) = Len(x)
         /\ DivMod58(x).mod \in 0..57
         /\ NumberOf(x, 256) = NumberOf(DivMod58(x).quot, 256) * 58 + DivMod58(x).mod
<1> DEFINE n == Len(x)
           T == 0..57
           zero == 0
           step == [i \in 1..n |-> [r \in T |-> (r * 256 + x[i]) % 58]]
           Solves(f) == f = [i \in 0..n |-> IF i = 0 THEN 0 ELSE (f[i - 1] * 256 + x[i]) % 58]
           rem == CHOOSE f : Solves(f)
           quot == [i \in 1..n |-> (rem[i - 1] * 256 + x[i]) \div 58]
<1>1. n \in Nat /\ (\A i \in 1..n : x[i] \in 0..255) /\ x \in Seq(Nat)
  <2>1. 0..255 \subseteq Nat
    OBVIOUS
  <2>2. n \in Nat /\ \A i \in 1..n : x[i] \in 0..255
    BY ElementOfSeq, LenProperties
  <2>3. x \in Seq(Nat)
    BY <2>1, SeqMonotonic
  <2> QED BY <2>2, <2>3
<1>2. DivMod58(x) = [quot |-> quot, mod |-> rem[n]]
  BY DEF DivMod58
<1> HIDE DEF n
<1>3. step \in [1..n -> [T -> T]] /\ zero \in T
  <2>1. ASSUME NEW i \in 1..n, NEW r \in 0..57 PROVE ((r * 256 + x[i]) % 58) \in 0..57
    <3>1. x[i] \in 0..255
      BY <1>1
    <3>2. (Dividend(r, x[i]) % 58) \in 0..57
      BY <3>1, DigitDivision
    <3> QED BY <3>2 DEF Dividend
  <2>2. zero \in T
    OBVIOUS
  <2> QED BY <2>1, <2>2
<1>4. \E f : Solves(f)
  <2>1. PICK f : f \in [0..n -> T] /\ Iterates(f, n, zero, step)
    <3> HIDE DEF step, zero, T
    <3> QED BY <1>1, <1>3, Recursion
  <2>2. ASSUME NEW i \in 0..n PROVE f[i] = IF i = 0 THEN 0 ELSE (f[i - 1] * 256 + x[i]) % 58
    <3>1. CASE i = 0
      BY <2>1, <3>1 DEF Iterates
    <3>2. CASE i # 0
      <4>1. i \in 1..n /\ i - 1 \in 0..n
        BY <1>1, <3>2
      <4> HIDE DEF step
      <4>2. f[i - 1] \in T
        BY <2>1, <4>1
      <4>3. f[i] = step[i][f[i - 1]]
        BY <2>1, <4>1 DEF Iterates
      <4>4. step[i][f[i - 1]] = (f[i - 1] * 256 + x[i]) % 58
        BY <4>1, <4>2 DEF step
      <4> QED BY <3>2, <4>3, <4>4
    <3> QED BY <3>1, <3>2
  <2>3. f = [i \in 0..n |-> f[i]]
    BY <2>1
  <2>4. f = [i \in 0..n |-> IF i = 0 THEN 0 ELSE (f[i - 1] * 256 + x[i]) % 58]
    <3> HIDE DEF T, zero, step
    <3> QED BY <2>2, <2>3
  <2> QED BY <2>4
<1>5. Solves(rem)
  <2> HIDE DEF Solves
  <2> QED BY <1>4
<1> HIDE DEF rem
<1>6. rem[0] = 0 /\ \A i \in 1..n : rem[i] = (rem[i - 1] * 256 + x[i]) % 58
  <2>1. 0 \in 0..n /\ \A i \in 1..n : i \in 0..n /\ i # 0
    BY <1>1
  <2> QED BY <1>5, <2>1
<1>7. \A i \in 0..n : rem[i] \in T
  <2>1. \A i \in 1..n : rem[i - 1] \in T => rem[i] = step[i][rem[i - 1]]
    BY <1>6
  <2>2. rem[0] = zero
    BY <1>6
  <2>3. n \in Nat
    BY <1>1
  <2> HIDE DEF step, zero, T
  <2> QED BY <1>3, <2>1, <2>2, <2>3, Iterated
<1>8. ASSUME NEW i \in 1..n
      PROVE  quot[i] \in 0..255 /\ rem[i - 1] * 256 + x[i] = quot[i] * 58 + rem[i]
  <2> DEFINE r == rem[i - 1]
             d == x[i]
  <2>1. i - 1 \in 0..n
    BY <1>1
  <2>2. r \in 0..57 /\ d \in 0..255
    BY <1>1, <1>7, <2>1
  <2>3. quot[i] = (r * 256 + d) \div 58 /\ rem[i] = (r * 256 + d) % 58
    BY <1>6
  <2> HIDE DEF r, d, quot
  <2>4. /\ ((r * 256 + d) \div 58) \in 0..255
        /\ r * 256 + d = ((r * 256 + d) \div 58) * 58 + ((r * 256 + d) % 58)
    <3> DEFINE a == Dividend(r, d)
    <3>1. (a \div 58) \in 0..255 /\ Divided(a, 58)
      BY <2>2, DigitDivision
    <3> HIDE DEF a
    <3>2. a = (a \div 58) * 58 + (a % 58)
      BY <3>1 DEF Divided
    <3> QED BY <3>1, <3>2 DEF a, Dividend
  <2>5. quot[i] \in 0..255 /\ r * 256 + d = quot[i] * 58 + rem[i]
    BY <2>3, <2>4
  <2> QED BY <2>5 DEF r, d
<1>9. quot \in Seq(0..255) /\ Len(quot) = n /\ quot \in Seq(Nat)
  <2>1. quot \in [1..n -> 0..255]
    BY <1>8
  <2>2. quot \in Seq(0..255) /\ Len(quot) = n
    <3> HIDE DEF quot
    <3> QED BY <1>1, <2>1
  <2>3. 0..255 \subseteq Nat
    OBVIOUS
  <2> HIDE DEF quot
  <2> QED BY <2>2, <2>3, SeqMonotonic
<1> DEFINE X == Numbers(x, 256)
           Q == Numbers(quot, 256)
           S == {i \in 0..n : X[i] = Q[i] * 58 + rem[i]}
<1> HIDE DEF quot
<1>10. /\ \A i \in 0..n : X[i] \in Nat
       /\ X[0] = 0 /\ NumberOf(x, 256) = X[n]
       /\ \A i \in 1..n : X[i] = X[i - 1] * 256 + x[i]
  <2> DEFINE b == 256
  <2>1. b \in Nat
    OBVIOUS
  <2> HIDE DEF b
  <2>2. /\ \A i \in 0..n : Numbers(x, b)[i] \in Nat
        /\ Numbers(x, b)[0] = 0 /\ NumberOf(x, b) = Numbers(x, b)[n]
        /\ \A i \in 1..n : Numbers(x, b)[i] = Numbers(x, b)[i - 1] * b + x[i]
    BY <1>1, <2>1, NumbersOf DEF n
  <2> QED BY <2>2 DEF b
<1>11. /\ \A i \in 0..n : Q[i] \in Nat
       /\ Q[0] = 0 /\ NumberOf(quot, 256) = Q[n]
       /\ \A i \in 1..n : Q[i] = Q[i - 1] * 256 + quot[i]
  <2> DEFINE b == 256
  <2>1. b \in Nat
    OBVIOUS
  <2> HIDE DEF b
  <2>2. /\ \A i \in 0..Len(quot) : Numbers(quot, b)[i] \in Nat
        /\ Numbers(quot, b)[0] = 0 /\ NumberOf(quot, b) = Numbers(quot, b)[Len(quot)]
        /\ \A i \in 1..Len(quot) : Numbers(quot, b)[i] = Numbers(quot, b)[i - 1] * b + quot[i]
    BY <1>9, <2>1, NumbersOf
  <2> QED BY <1>9, <2>2 DEF b
<1> HIDE DEF X, Q
<1>12. 0 \in S
  BY <1>1, <1>6, <1>10, <1>11
<1>13. ASSUME NEW i \in 0..(n - 1), i \in S PROVE i + 1 \in S
  <2>1. i + 1 \in 1..n /\ (i + 1) - 1 = i /\ i \in 0..n /\ i + 1 \in 0..n
    BY <1>1
  <2> DEFINE y == Q[i]
             r == rem[i]
             d == x[i + 1]
             e == quot[i + 1]
             f == rem[i + 1]
  <2>2. X[i + 1] = (y * 58 + r) * 256 + d /\ Q[i + 1] = y * 256 + e
    BY <1>10, <1>11, <1>13, <2>1
  <2>3. /\ y \in Nat /\ r \in Nat /\ d \in Nat /\ e \in Nat /\ f \in Nat
        /\ r * 256 + d = e * 58 + f
    <3>1. y \in Nat /\ r \in 0..57 /\ f \in 0..57
      BY <1>7, <1>11, <2>1
    <3>2. d \in 0..255
      BY <1>1, <2>1
    <3>3. e \in 0..255 /\ r * 256 + d = e * 58 + f
      BY <1>8, <2>1
    <3> HIDE DEF y, r, d, e, f
    <3> QED BY <3>1, <3>2, <3>3
  <2> HIDE DEF y, r, d, e, f
  <2>4. (y * 58 + r) * 256 + d = (y * 256 + e) * 58 + f
    BY <2>3
  <2>5. X[i + 1] = Q[i + 1] * 58 + f
    BY <2>2, <2>4
  <2> QED BY <2>1, <2>5 DEF f
<1>14. n \in S
  <2> HIDE DEF S
  <2>1. 0..n \subseteq S
    BY <1>1, <1>12, <1>13, BoundedInduction
  <2> QED BY <1>1, <2>1
<1>15. NumberOf(x, 256) = NumberOf(quot, 256) * 58 + rem[n] /\ rem[n] \in 0..57
  BY <1>1, <1>7, <1>10, <1>11, <1>14
<1> QED BY <1>2, <1>9, <1>15 DEF n

LEMMA AsNumbers ==
  /\ \A s \in Seq(0..255) : s \in Seq(Nat)
  /\ \A s \in Seq(0..57) : s \in Seq(Nat)
  /\ \A s \in Seq(0..59) : s \in Seq(Nat)
<1>1. 0..255 \subseteq Nat /\ 0..57 \subseteq Nat /\ 0..59 \subseteq Nat
  OBVIOUS
<1>2. ASSUME NEW T, T \subseteq Nat, NEW s \in Seq(T) PROVE s \in Seq(Nat)
  BY <1>2, SeqMonotonic
<1> QED BY <1>1, <1>2

\* Two digits for each byte are enough.
LEMMA TwoDigits ==
  ASSUME NEW n \in Nat, NEW p, NEW q, Powers(p, 58, 2 * n), Powers(q, 256, 2 * n)
  PROVE  q[n] =< p[2 * n]
<1> DEFINE S == {i \in 0..n : q[i] =< p[2 * i]}
           N == 2 * n
<1>1. N \in Nat /\ 58 \in Nat \ {0} /\ 256 \in Nat \ {0}
  OBVIOUS
<1>2. Powers(p, 58, N) /\ Powers(q, 256, N)
  OBVIOUS
<1>3. 0 \in S
  <2>1. p[0] = 1 /\ q[0] = 1 /\ 2 * 0 = 0
    BY DEF Powers
  <2> QED BY <2>1
<1>4. ASSUME NEW i \in 0..(n - 1), i \in S PROVE i + 1 \in S
  <2>1. /\ i \in 0..N /\ 1 \in 0..N /\ 2 * i \in 0..N /\ 2 \in 0..N /\ i + 1 =< N
        /\ 2 * i + 2 =< N /\ 1 \in 1..N /\ 2 \in 1..N
    OBVIOUS
  <2>2. q[1] = q[0] * 256 /\ p[1] = p[0] * 58 /\ p[2] = p[1] * 58 /\ p[0] = 1 /\ q[0] = 1
    <3>1. 1 - 1 = 0 /\ 2 - 1 = 1
      OBVIOUS
    <3> HIDE DEF N
    <3> QED BY <1>2, <2>1, <3>1 DEF Powers
  <2>3. q[1] =< p[2]
    BY <2>2
  <2>4. q[i] =< p[2 * i]
    BY <1>4
  <2> HIDE DEF N
  <2>5. q[i + 1] =< p[2 * i + 2]
    BY <1>1, <1>2, <2>1, <2>3, <2>4, PowersGrow
  <2>6. 2 * i + 2 = 2 * (i + 1) /\ i + 1 \in 0..n
    OBVIOUS
  <2> QED BY <2>5, <2>6
<1> HIDE DEF S
<1>5. 0..n \subseteq S
  BY <1>3, <1>4, BoundedInduction
<1> QED BY <1>5 DEF S

Accumulators == [x : Seq(0..255), text : Seq(0..57)]

EncodeStep(acc) ==
    IF LeadingZeros(acc.x) = Len(acc.x) THEN acc
    ELSE [x |-> DivMod58(acc.x).quot, text |-> <<DivMod58(acc.x).mod>> \o acc.text]

LEMMA EncodeStepType ==
  ASSUME NEW acc \in Accumulators
  PROVE  EncodeStep(acc) \in Accumulators
<1> DEFINE d == DivMod58(acc.x)
<1>1. acc.x \in Seq(0..255) /\ acc.text \in Seq(0..57)
  BY DEF Accumulators
<1>2. d.quot \in Seq(0..255) /\ d.mod \in 0..57
  BY <1>1, DivisionOf
<1> HIDE DEF d
<1>3. <<d.mod>> \o acc.text \in Seq(0..57)
  <2>1. <<d.mod>> \in Seq(0..57)
    BY <1>2
  <2> QED BY <1>1, <2>1, ConcatProperties
<1> QED BY <1>2, <1>3 DEF EncodeStep, Accumulators, d

\* What the loop over the digits goes through.
Encodes(f, input) ==
    /\ f \in [0..(2 * Len(input)) -> Accumulators]
    /\ f[0] = [x |-> input, text |-> <<>>]
    /\ \A i \in 1..(2 * Len(input)) : f[i] = EncodeStep(f[i - 1])
    /\ EncodeNumber(input) = f[2 * Len(input)].text

LEMMA EncodeSteps ==
  ASSUME NEW input \in Seq(0..255)
  PROVE  \E f : Encodes(f, input)
<1> DEFINE n == 2 * Len(input)
           T == Accumulators
           base == [x |-> input, text |-> <<>>]
           step == [i \in 1..n |-> [acc \in T |-> EncodeStep(acc)]]
           Solves(f) == f = [i \in 0..n |->
               IF i = 0 THEN [x |-> input, text |-> <<>>]
               ELSE LET acc == f[i - 1]
                        d == DivMod58(acc.x)
                    IN  IF LeadingZeros(acc.x) = Len(acc.x) THEN acc
                        ELSE [x |-> d.quot, text |-> <<d.mod>> \o acc.text]]
           after == CHOOSE f : Solves(f)
<1>1. n \in Nat
  BY LenProperties
<1>2. EncodeNumber(input) = after[n].text
  BY DEF EncodeNumber
<1>3. base \in T /\ step \in [1..n -> [T -> T]]
  <2>1. base \in T
    <3>1. <<>> \in Seq(0..57)
      BY EmptySeq
    <3> QED BY <3>1 DEF Accumulators
  <2> HIDE DEF n
  <2> QED BY <2>1, EncodeStepType
<1> HIDE DEF n
<1>4. \E f : Solves(f)
  <2>1. PICK f : f \in [0..n -> T] /\ Iterates(f, n, base, step)
    <3> HIDE DEF step, base, T
    <3> QED BY <1>1, <1>3, Recursion
  <2>2. ASSUME NEW i \in 0..n PROVE f[i] = IF i = 0 THEN base ELSE EncodeStep(f[i - 1])
    <3>1. CASE i = 0
      <4> HIDE DEF base
      <4> QED BY <2>1, <3>1 DEF Iterates
    <3>2. CASE i # 0
      <4>1. i \in 1..n /\ i - 1 \in 0..n
        BY <1>1, <3>2
      <4> HIDE DEF step, base
      <4>2. f[i - 1] \in T
        BY <2>1, <4>1
      <4>3. f[i] = step[i][f[i - 1]]
        BY <2>1, <4>1 DEF Iterates
      <4>4. step[i][f[i - 1]] = EncodeStep(f[i - 1])
        BY <4>1, <4>2 DEF step
      <4> QED BY <3>2, <4>3, <4>4
    <3> QED BY <3>1, <3>2
  <2>3. f = [i \in 0..n |-> f[i]]
    BY <2>1
  <2>4. f = [i \in 0..n |-> IF i = 0 THEN base ELSE EncodeStep(f[i - 1])]
    <3> HIDE DEF T, base, step
    <3> QED BY <2>2, <2>3
  <2> QED BY <2>4 DEF EncodeStep
<1>5. Solves(after)
  <2> HIDE DEF Solves
  <2> QED BY <1>4
<1> HIDE DEF after
<1>6. after = [i \in 0..n |-> IF i = 0 THEN base ELSE EncodeStep(after[i - 1])]
  BY <1>5 DEF EncodeStep
<1> HIDE DEF base, Solves
<1>7. after[0] = base /\ \A i \in 1..n : after[i] = EncodeStep(after[i - 1])
  <2>1. 0 \in 0..n /\ \A i \in 1..n : i \in 0..n /\ i # 0
    BY <1>1
  <2> QED BY <1>6, <2>1
<1>8. \A i \in 0..n : after[i] \in T
  <2>1. \A i \in 1..n : after[i - 1] \in T => after[i] = step[i][after[i - 1]]
    BY <1>7
  <2> HIDE DEF step, T
  <2> QED BY <1>1, <1>3, <1>7, <2>1, Iterated
<1>9. after \in [0..n -> T]
  BY <1>6, <1>8
<1> QED BY <1>2, <1>7, <1>9 DEF Encodes, n, base

\* The digits that the divisions leave are those of the number, the first one not zero.
LEMMA EncodedNumber ==
  ASSUME NEW input \in Seq(0..255)
  PROVE  /\ EncodeNumber(input) \in Seq(0..57)
         /\ NumberOf(EncodeNumber(input), 58) = NumberOf(input, 256)
         /\ EncodeNumber(input) = <<>> \/ EncodeNumber(input)[1] # 0
<1> DEFINE l == Len(input)
           n == 2 * l
           N == NumberOf(input, 256)
<1>1. l \in Nat /\ n \in Nat /\ l =< n
  BY LenProperties
<1>2. PICK f : Encodes(f, input)
  BY EncodeSteps
<1>3. PICK p : Powers(p, 58, n)
  <2> HIDE DEF n
  <2> QED BY <1>1, PowersExist
<1>4. PICK q : Powers(q, 256, n)
  <2> HIDE DEF n
  <2> QED BY <1>1, PowersExist
<1>5. q[l] =< p[n]
  <2> HIDE DEF l
  <2> QED BY <1>1, <1>3, <1>4, TwoDigits
<1>6. /\ f \in [0..n -> Accumulators]
      /\ f[0] = [x |-> input, text |-> <<>>]
      /\ \A i \in 1..n : f[i] = EncodeStep(f[i - 1])
      /\ EncodeNumber(input) = f[n].text
  BY <1>2 DEF Encodes
<1> HIDE DEF n, l
<1>7. p \in [0..n -> Nat] /\ p[0] = 1 /\ \A i \in 1..n : p[i] = p[i - 1] * 58
  BY <1>3 DEF Powers
<1> DEFINE Good(a, i) ==
               /\ Len(a.x) = l
               /\ Len(a.text) =< i
               /\ NumberOf(a.x, 256) * p[Len(a.text)] + NumberOf(a.text, 58) = N
               /\ NumberOf(a.x, 256) # 0 => Len(a.text) = i
               /\ NumberOf(a.x, 256) = 0 => a.text = <<>> \/ a.text[1] # 0
           S == {i \in 0..n : Good(f[i], i)}
<1>8. N \in Nat
  <2> DEFINE B == 0..255
  <2>1. input \in Seq(B) /\ B \subseteq Nat
    OBVIOUS
  <2> HIDE DEF B
  <2>2. input \in Seq(Nat)
    BY <2>1, SeqMonotonic
  <2>3. 256 \in Nat
    OBVIOUS
  <2> QED BY <2>2, <2>3, NumbersOf
<1>9. 0 \in S
  <2> DEFINE e == <<>>
  <2>1. Len(e) = 0 /\ NumberOf(e, 58) = 0
    <3>1. 58 \in Nat
      OBVIOUS
    <3> QED BY <3>1, NumberEmpty
  <2>2. f[0].x = input /\ f[0].text = e
    BY <1>6
  <2> HIDE DEF e
  <2>3. N * p[Len(e)] + NumberOf(e, 58) = N
    BY <1>7, <1>8, <2>1
  <2> HIDE DEF N
  <2>4. Good(f[0], 0)
    BY <2>1, <2>2, <2>3 DEF N, l, e
  <2> QED BY <1>1, <2>4
<1>10. ASSUME NEW i \in 0..(n - 1), i \in S PROVE i + 1 \in S
  <2> DEFINE a == f[i]
             c == f[i + 1]
  <2>1. i \in 0..n /\ i + 1 \in 1..n /\ i + 1 \in 0..n /\ (i + 1) - 1 = i
    BY <1>1
  <2>2. a \in Accumulators /\ c = EncodeStep(a) /\ Good(a, i)
    BY <1>6, <1>10, <2>1
  <2>3. SUFFICES Good(c, i + 1)
    BY <2>1
  <2> HIDE DEF a, c
  <2> DEFINE x == a.x
             t == a.text
             X == NumberOf(x, 256)
  <2>4. x \in Seq(0..255) /\ t \in Seq(0..57) /\ x \in Seq(Nat) /\ t \in Seq(Nat)
    <3>1. x \in Seq(0..255) /\ t \in Seq(0..57)
      BY <2>2 DEF Accumulators
    <3> HIDE DEF x, t
    <3> QED BY <3>1, AsNumbers
  <2>5. Len(x) = l /\ Len(t) =< i /\ X * p[Len(t)] + NumberOf(t, 58) = N /\ (X # 0 => Len(t) = i)
        /\ (X = 0 => t = <<>> \/ t[1] # 0)
    BY <2>2
  <2>6. LeadingZeros(x) \in 0..l /\ (LeadingZeros(x) = l => X = 0) /\ (LeadingZeros(x) < l => X # 0)
    <3> DEFINE b == 256
    <3>1. b \in Nat \ {0} /\ Powers(q, b, n)
      BY <1>4
    <3> HIDE DEF b, x
    <3>2. /\ LeadingZeros(x) \in 0..Len(x)
          /\ LeadingZeros(x) = Len(x) => NumberOf(x, b) = 0
          /\ LeadingZeros(x) < Len(x) => NumberOf(x, b) # 0
      BY <1>1, <2>4, <2>5, <3>1, NumberWithin
    <3> QED BY <2>5, <3>2 DEF b
  <2>7. CASE LeadingZeros(x) = l
    <3>1. c = a
      BY <2>2, <2>5, <2>7 DEF EncodeStep
    <3>2. X = 0
      BY <2>6, <2>7
    <3>3. Len(t) =< i + 1
      BY <2>4, <2>5
    <3> HIDE DEF x, t, X
    <3>4. Len(x) = l /\ Len(t) =< i + 1 /\ X * p[Len(t)] + NumberOf(t, 58) = N /\ (X # 0 => Len(t) = i + 1)
          /\ (X = 0 => t = <<>> \/ t[1] # 0)
      BY <2>5, <3>2, <3>3
    <3> QED BY <3>1, <3>4 DEF x, t, X
  <2>8. CASE LeadingZeros(x) # l
    <3> DEFINE d == DivMod58(x)
               y == d.quot
               r == d.mod
               u == <<r>> \o t
               Y == NumberOf(y, 256)
               U == NumberOf(u, 58)
               t0 == NumberOf(t, 58)
    <3>1. c.x = y /\ c.text = u
      BY <2>2, <2>5, <2>8 DEF EncodeStep
    <3>2. X # 0 /\ Len(t) = i
      <4>1. X # 0
        BY <1>1, <2>6, <2>8
      <4> QED BY <2>5, <4>1
    <3>3. y \in Seq(0..255) /\ Len(y) = l /\ r \in 0..57 /\ X = Y * 58 + r
      <4> HIDE DEF x
      <4> QED BY <2>4, <2>5, DivisionOf
    <3> HIDE DEF x, t, y, r, d
    <3>4. r \in Nat
      BY <3>3
    <3>5. u \in Seq(Nat) /\ U = r * p[i] + t0
      <4> DEFINE b == 58
      <4>1. b \in Nat \ {0} /\ Powers(p, b, n) /\ Len(t) =< n
        BY <1>3, <2>1, <3>2
      <4> HIDE DEF b
      <4>2. <<r>> \o t \in Seq(Nat) /\ NumberOf(<<r>> \o t, b) = r * p[Len(t)] + NumberOf(t, b)
        BY <1>1, <2>4, <3>4, <4>1, NumberPrepend
      <4> QED BY <3>2, <4>2 DEF b
    <3>6. Len(u) = i + 1 /\ u[1] = r
      <4>1. <<r>> \in Seq(Nat) /\ Len(<<r>>) = 1 /\ <<r>>[1] = r
        BY <3>4
      <4>2. Len(u) = 1 + i
        BY <2>4, <3>2, <4>1, ConcatProperties
      <4>3. u[1] = r
        <5>1. 1 \in 1..(1 + i)
          BY <2>1
        <5> QED BY <2>4, <3>2, <3>4, <4>1, <5>1, ConcatProperties
      <4> QED BY <2>1, <4>2, <4>3
    <3>7. Y \in Nat /\ t0 \in Nat
      <4>1. y \in Seq(Nat)
        <5>1. 0..255 \subseteq Nat
          OBVIOUS
        <5> QED BY <3>3, <5>1, SeqMonotonic
      <4>2. 58 \in Nat /\ 256 \in Nat
        OBVIOUS
      <4> QED BY <2>4, <4>1, <4>2, NumberNatural DEF Y, t0
    <3>8. p[i + 1] = p[i] * 58 /\ p[i] \in Nat
      BY <1>7, <2>1
    <3> HIDE DEF u, Y, U, t0, X
    <3>9. Y * p[i + 1] + U = N
      <4>1. X * p[i] + t0 = N
        BY <2>5, <3>2 DEF t0
      <4> DEFINE e == p[i]
      <4>2. e \in Nat /\ p[i + 1] = e * 58 /\ U = r * e + t0 /\ X * e + t0 = N
        BY <3>5, <3>8, <4>1
      <4> HIDE DEF e
      <4>3. Y * (e * 58) = (Y * 58) * e /\ (Y * 58) * e \in Nat /\ r * e \in Nat
        BY <3>4, <3>7, <4>2
      <4>4. (Y * 58 + r) * e = (Y * 58) * e + r * e
        BY <3>4, <3>7, <4>2
      <4> QED BY <3>3, <3>7, <4>2, <4>3, <4>4
    <3>10. Y = 0 => u[1] # 0
      BY <3>2, <3>3, <3>6
    <3> HIDE DEF N
    <3>11. Len(y) = l /\ Len(u) =< i + 1 /\ Y * p[Len(u)] + U = N /\ (Y # 0 => Len(u) = i + 1)
          /\ (Y = 0 => u = <<>> \/ u[1] # 0)
      <4>1. i + 1 =< i + 1
        BY <2>1
      <4> QED BY <3>3, <3>6, <3>9, <3>10, <4>1
    <3> QED BY <3>1, <3>11 DEF Y, U
  <2> QED BY <2>7, <2>8
<1>11. n \in S
  <2> HIDE DEF S
  <2>1. 0..n \subseteq S
    BY <1>1, <1>9, <1>10, BoundedInduction
  <2> QED BY <1>1, <2>1
<1> DEFINE x == f[n].x
           t == f[n].text
           X == NumberOf(x, 256)
           t0 == NumberOf(t, 58)
<1>12. Len(x) = l /\ X * p[Len(t)] + t0 = N /\ (X # 0 => Len(t) = n)
       /\ (X = 0 => t = <<>> \/ t[1] # 0)
  BY <1>11
<1>13. x \in Seq(0..255) /\ t \in Seq(0..57) /\ X \in Nat /\ t0 \in Nat /\ Len(t) \in Nat
  <2>1. f[n] \in Accumulators
    BY <1>1, <1>6
  <2>2. x \in Seq(0..255) /\ t \in Seq(0..57)
    <3> DEFINE a == f[n]
    <3>1. a \in Accumulators
      BY <2>1
    <3> HIDE DEF a
    <3>2. a.x \in Seq(0..255) /\ a.text \in Seq(0..57)
      BY <3>1 DEF Accumulators
    <3> QED BY <3>2 DEF a
  <2>3. 0..255 \subseteq Nat /\ 0..57 \subseteq Nat /\ 58 \in Nat /\ 256 \in Nat
    OBVIOUS
  <2> HIDE DEF x, t
  <2>4. x \in Seq(Nat) /\ t \in Seq(Nat)
    BY <2>2, AsNumbers
  <2>5. X \in Nat /\ t0 \in Nat
    BY <2>3, <2>4, NumberNatural
  <2>6. Len(t) \in Nat
    BY <2>4, LenProperties
  <2> QED BY <2>2, <2>5, <2>6
<1> HIDE DEF x, t, X, t0
<1>14. X = 0
  <2>1. N < q[l]
    <3> DEFINE b == 256
    <3>1. b \in Nat \ {0} /\ Powers(q, b, n) /\ input \in Seq(0..(b - 1)) /\ Len(input) =< n
      <4>1. 256 - 1 = 255
        OBVIOUS
      <4> QED BY <1>1, <1>4, <4>1 DEF l
    <3> HIDE DEF b, N
    <3>2. NumberOf(input, b) < q[Len(input)]
      BY <1>1, <3>1, NumberBound
    <3> QED BY <3>2 DEF b, N, l
  <2>2. SUFFICES ASSUME X # 0 PROVE FALSE
    OBVIOUS
  <2>3. X * p[n] + t0 = N
    BY <1>12, <2>2
  <2>4. p[n] \in Nat /\ q[l] \in Nat
    <3>1. n \in 0..n /\ l \in 0..n
      BY <1>1
    <3>2. q \in [0..n -> Nat]
      BY <1>4 DEF Powers
    <3> QED BY <1>7, <3>1, <3>2
  <2>5. 1 * p[n] =< X * p[n] /\ X * p[n] \in Nat
    <3>1. 1 =< X
      BY <1>13, <2>2
    <3> QED BY <1>13, <2>4, <3>1, MulOrder
  <2> HIDE DEF N
  <2> QED BY <1>5, <1>8, <1>13, <2>1, <2>3, <2>4, <2>5
<1>15. t0 = N
  <2>1. Len(t) \in 0..n
    <3>1. Len(t) =< n
      BY <1>11 DEF t
    <3> QED BY <1>1, <1>13, <3>1
  <2>2. p[Len(t)] \in Nat
    BY <1>7, <2>1
  <2> QED BY <1>12, <1>13, <1>14, <2>2
<1> QED BY <1>6, <1>12, <1>13, <1>14, <1>15 DEF t, t0

\* The text has the number and the leading zeros of the bytes.
LEMMA EncodingOf ==
  ASSUME NEW input \in Seq(0..255)
  PROVE  /\ base58Encode(input) \in Seq(0..57)
         /\ NumberOf(base58Encode(input), 58) = NumberOf(input, 256)
         /\ LeadingZeros(base58Encode(input)) = LeadingZeros(input)
<1> DEFINE t == EncodeNumber(input)
           k == LeadingZeros(input)
           b == 58
<1>1. t \in Seq(0..57) /\ NumberOf(t, b) = NumberOf(input, 256) /\ (t = <<>> \/ t[1] # 0)
  BY EncodedNumber
<1>2. 0..57 \subseteq Nat /\ 0..255 \subseteq Nat /\ b \in Nat \ {0}
  OBVIOUS
<1>3. /\ base58Encode(input) = Zeros(k) \o t
      /\ NumberOf(base58Encode(input), 58) = NumberOf(Zeros(k) \o t, b)
  BY DEF base58Encode
<1>4. k \in Nat
  <2>1. input \in Seq(Nat)
    BY AsNumbers
  <2>2. k \in 0..Len(input)
    BY <2>1, LeadingZerosOf DEF Leads
  <2> QED BY <2>2
<1> HIDE DEF t, b, k
<1>5. t \in Seq(Nat)
  BY <1>1, <1>2, SeqMonotonic
<1>6. NumberOf(Zeros(k) \o t, b) = NumberOf(t, b) /\ LeadingZeros(Zeros(k) \o t) = k
  <2>1. t = <<>> \/ t[1] # 0
    BY <1>1
  <2>2. b \in Nat \ {0}
    BY <1>2
  <2> QED BY <1>4, <1>5, <2>1, <2>2, ZerosNumber
<1>7. Zeros(k) \o t \in Seq(0..57)
  <2>1. Zeros(k) \in Seq(0..57)
    BY <1>4 DEF Zeros
  <2> QED BY <1>1, <2>1, ConcatProperties
<1> QED BY <1>1, <1>3, <1>6, <1>7 DEF k

-------------------------------------------------------------------------------
(* Decoding.                                                               *)

\* The steps of the multiplication stay within bytes, and so does what they carry.
Carried(r, d) == r + 58 * d

LEMMA ByteDivision ==
  ASSUME NEW r \in 0..59, NEW d \in 0..255
  PROVE  /\ (Carried(r, d) % 256) \in 0..255
         /\ (Carried(r, d) \div 256) \in 0..59
         /\ Divided(Carried(r, d), 256)
<1> DEFINE a == Carried(r, d)
<1>1. a \in 0..14849 /\ a \in Nat
  <2>1. r \in Int /\ 0 =< r /\ r =< 59 /\ d \in Int /\ 0 =< d /\ d =< 255
    OBVIOUS
  <2>2. r + 58 * d \in Int /\ 0 =< r + 58 * d /\ r + 58 * d =< 14849
    BY <2>1
  <2> QED BY <2>2, SMTT(30) DEF Carried
<1> HIDE DEF a
<1>2. (a % 256) \in 0..255
  BY <1>1
<1>3. (a \div 256) \in 0..59
  BY <1>1
<1>4. Divided(a, 256)
  BY <1>1 DEF Divided
<1> QED BY <1>2, <1>3, <1>4 DEF a

Shifts(buf, c, s, q) == NumberOf(s.buf, 256) + s.carry * q[Len(buf)] = 58 * NumberOf(buf, 256) + c

\* The buffer is multiplied and the digit added, but for what is carried out.
LEMMA ShiftOf ==
  ASSUME NEW buf \in Seq(0..255), NEW c \in 0..59, NEW N \in Nat, NEW q, Powers(q, 256, N), Len(buf) =< N
  PROVE  /\ Shift(buf, c).buf \in Seq(0..255) /\ Len(Shift(buf, c).buf) = Len(buf)
         /\ Shift(buf, c).carry \in 0..59
         /\ Shifts(buf, c, Shift(buf, c), q)
<1> DEFINE n == Len(buf)
           T == 0..59
           step == [i \in 1..n |-> [r \in T |-> (r + 58 * buf[n + 1 - i]) \div 256]]
           Solves(f) == f = [i \in 0..n |-> IF i = 0 THEN c ELSE (f[i - 1] + 58 * buf[n + 1 - i]) \div 256]
           carry == CHOOSE f : Solves(f)
           new == [k \in 1..n |-> (carry[n - k] + 58 * buf[k]) % 256]
<1>1. n \in Nat /\ (\A i \in 1..n : buf[i] \in 0..255) /\ buf \in Seq(Nat) /\ n =< N
  BY ElementOfSeq, LenProperties, AsNumbers
<1>2. Shift(buf, c) = [carry |-> carry[n], buf |-> new]
  BY DEF Shift
<1> HIDE DEF n
<1>3. step \in [1..n -> [T -> T]] /\ c \in T
  <2>1. ASSUME NEW i \in 1..n, NEW r \in 0..59 PROVE ((r + 58 * buf[n + 1 - i]) \div 256) \in 0..59
    <3> DEFINE d == buf[n + 1 - i]
    <3>1. d \in 0..255
      <4>1. n + 1 - i \in 1..n
        BY <1>1
      <4> QED BY <1>1, <4>1
    <3> HIDE DEF d
    <3>2. (Carried(r, d) \div 256) \in 0..59
      BY <3>1, ByteDivision
    <3> QED BY <3>2 DEF d, Carried
  <2> QED BY <2>1
<1>4. \E f : Solves(f)
  <2>1. PICK f : f \in [0..n -> T] /\ Iterates(f, n, c, step)
    <3> HIDE DEF step, T
    <3> QED BY <1>1, <1>3, Recursion
  <2>2. ASSUME NEW i \in 0..n PROVE f[i] = IF i = 0 THEN c ELSE (f[i - 1] + 58 * buf[n + 1 - i]) \div 256
    <3>1. CASE i = 0
      BY <2>1, <3>1 DEF Iterates
    <3>2. CASE i # 0
      <4>1. i \in 1..n /\ i - 1 \in 0..n
        BY <1>1, <3>2
      <4> HIDE DEF step
      <4>2. f[i - 1] \in T
        BY <2>1, <4>1
      <4>3. f[i] = step[i][f[i - 1]]
        BY <2>1, <4>1 DEF Iterates
      <4>4. step[i][f[i - 1]] = (f[i - 1] + 58 * buf[n + 1 - i]) \div 256
        BY <4>1, <4>2 DEF step
      <4> QED BY <3>2, <4>3, <4>4
    <3> QED BY <3>1, <3>2
  <2>3. f = [i \in 0..n |-> f[i]]
    BY <2>1
  <2>4. f = [i \in 0..n |-> IF i = 0 THEN c ELSE (f[i - 1] + 58 * buf[n + 1 - i]) \div 256]
    <3> HIDE DEF T, step
    <3> QED BY <2>2, <2>3
  <2> QED BY <2>4
<1>5. Solves(carry)
  <2> HIDE DEF Solves
  <2> QED BY <1>4
<1> HIDE DEF carry
<1>6. carry[0] = c /\ \A i \in 1..n : carry[i] = (carry[i - 1] + 58 * buf[n + 1 - i]) \div 256
  <2>1. 0 \in 0..n /\ \A i \in 1..n : i \in 0..n /\ i # 0
    BY <1>1
  <2> QED BY <1>5, <2>1
<1>7. \A i \in 0..n : carry[i] \in T
  <2>1. \A i \in 1..n : carry[i - 1] \in T => carry[i] = step[i][carry[i - 1]]
    BY <1>6
  <2> DEFINE base == c
  <2>2. carry[0] = base /\ base \in T
    BY <1>6
  <2>3. n \in Nat /\ step \in [1..n -> [T -> T]]
    BY <1>1, <1>3
  <2> HIDE DEF step, T, base, new, Solves
  <2>4. Iterates(carry, n, base, step) /\ \A i \in 0..n : carry[i] \in T
    BY <2>1, <2>2, <2>3, Iterated
  <2> QED BY <2>4
<1>8. ASSUME NEW k \in 1..n
      PROVE  new[k] \in 0..255 /\ carry[n - k] + 58 * buf[k] = carry[(n - k) + 1] * 256 + new[k]
  <2> DEFINE r == carry[n - k]
             d == buf[k]
  <2>1. /\ n - k \in 0..n /\ (n - k) + 1 \in 1..n /\ ((n - k) + 1) - 1 = n - k
        /\ n + 1 - ((n - k) + 1) = k
    BY <1>1
  <2>2. r \in 0..59 /\ d \in 0..255
    BY <1>1, <1>7, <2>1
  <2>3. new[k] = (r + 58 * d) % 256 /\ carry[(n - k) + 1] = (r + 58 * d) \div 256
    <3>1. new[k] = (r + 58 * d) % 256
      OBVIOUS
    <3> DEFINE j == (n - k) + 1
    <3>2. j \in 1..n /\ j - 1 = n - k /\ n + 1 - j = k
      BY <2>1
    <3> HIDE DEF j, new
    <3>3. carry[j] = (carry[j - 1] + 58 * buf[n + 1 - j]) \div 256
      BY <1>6, <3>2
    <3>4. carry[j] = (carry[n - k] + 58 * buf[k]) \div 256
      BY <3>2, <3>3
    <3> QED BY <3>1, <3>4 DEF j
  <2> HIDE DEF r, d, new
  <2>4. /\ ((r + 58 * d) % 256) \in 0..255
        /\ r + 58 * d = ((r + 58 * d) \div 256) * 256 + ((r + 58 * d) % 256)
    <3> DEFINE a == Carried(r, d)
    <3>1. (a % 256) \in 0..255
      BY <2>2, ByteDivision
    <3>2. Divided(a, 256)
      BY <2>2, ByteDivision
    <3> HIDE DEF a
    <3>3. a = (a \div 256) * 256 + (a % 256)
      BY <3>2 DEF Divided
    <3> QED BY <3>1, <3>3 DEF a, Carried
  <2>5. new[k] \in 0..255 /\ r + 58 * d = carry[(n - k) + 1] * 256 + new[k]
    BY <2>3, <2>4
  <2> QED BY <2>5 DEF r, d
<1>9. new \in Seq(0..255) /\ Len(new) = n /\ new \in Seq(Nat)
  <2>1. new \in [1..n -> 0..255]
    BY <1>8
  <2>2. new \in Seq(0..255) /\ Len(new) = n
    <3> HIDE DEF new
    <3> QED BY <1>1, <2>1
  <2> HIDE DEF new
  <2> QED BY <2>2, AsNumbers
<1> DEFINE B == Numbers(buf, 256)
           M == Numbers(new, 256)
           z == carry[n]
           S == {k \in 0..n : M[k] + z * q[k] = 58 * B[k] + carry[n - k]}
<1> HIDE DEF new
<1>10. /\ \A i \in 0..n : B[i] \in Nat
       /\ B[0] = 0 /\ NumberOf(buf, 256) = B[n]
       /\ \A i \in 1..n : B[i] = B[i - 1] * 256 + buf[i]
  <2> DEFINE b == 256
  <2>1. b \in Nat
    OBVIOUS
  <2> HIDE DEF b
  <2>2. /\ \A i \in 0..n : Numbers(buf, b)[i] \in Nat
        /\ Numbers(buf, b)[0] = 0 /\ NumberOf(buf, b) = Numbers(buf, b)[n]
        /\ \A i \in 1..n : Numbers(buf, b)[i] = Numbers(buf, b)[i - 1] * b + buf[i]
    BY <1>1, <2>1, NumbersOf DEF n
  <2> QED BY <2>2 DEF b
<1>11. /\ \A i \in 0..n : M[i] \in Nat
       /\ M[0] = 0 /\ NumberOf(new, 256) = M[n]
       /\ \A i \in 1..n : M[i] = M[i - 1] * 256 + new[i]
  <2> DEFINE b == 256
  <2>1. b \in Nat
    OBVIOUS
  <2> HIDE DEF b
  <2>2. /\ \A i \in 0..Len(new) : Numbers(new, b)[i] \in Nat
        /\ Numbers(new, b)[0] = 0 /\ NumberOf(new, b) = Numbers(new, b)[Len(new)]
        /\ \A i \in 1..Len(new) : Numbers(new, b)[i] = Numbers(new, b)[i - 1] * b + new[i]
    BY <1>9, <2>1, NumbersOf
  <2> QED BY <1>9, <2>2 DEF b
<1> HIDE DEF B, M
<1>12. z \in 0..59 /\ z \in Nat
  <2>1. n \in 0..n
    BY <1>1
  <2>2. z \in 0..59
    BY <1>7, <2>1
  <2> HIDE DEF z
  <2> QED BY <2>2
<1>13. q[0] = 1 /\ (\A k \in 0..n : q[k] \in Nat) /\ \A k \in 1..n : q[k] = q[k - 1] * 256
  <2>1. (\A k \in 0..n : k \in 0..N) /\ \A k \in 1..n : k \in 1..N
    BY <1>1
  <2> QED BY <2>1 DEF Powers
<1>14. 0 \in S
  <2>1. n - 0 = n /\ 0 \in 0..n
    BY <1>1
  <2> HIDE DEF z
  <2>2. 0 + z * 1 = 58 * 0 + z
    BY <1>12
  <2> QED BY <1>10, <1>11, <1>13, <2>1, <2>2 DEF z
<1> HIDE DEF z
<1>15. ASSUME NEW k \in 0..(n - 1), k \in S PROVE k + 1 \in S
  <2>1. k + 1 \in 1..n /\ (k + 1) - 1 = k /\ k \in 0..n /\ k + 1 \in 0..n /\ n - k \in 0..n
        /\ n - (k + 1) \in 0..n /\ (n - (k + 1)) + 1 = n - k
    BY <1>1
  <2> DEFINE m == M[k]
             a == B[k]
             w == q[k]
             d == buf[k + 1]
             e == new[k + 1]
             r == carry[n - (k + 1)]
             s == carry[n - k]
  <2>2. M[k + 1] = m * 256 + e /\ B[k + 1] = a * 256 + d /\ q[k + 1] = w * 256
    BY <1>10, <1>11, <1>13, <2>1
  <2>3. m + z * w = 58 * a + s
    BY <1>15
  <2>4. m \in Nat /\ a \in Nat /\ w \in Nat
    BY <1>10, <1>11, <1>13, <2>1
  <2>5. e \in 0..255 /\ r + 58 * d = s * 256 + e
    BY <1>8, <2>1
  <2>6. d \in 0..255
    BY <1>1, <2>1
  <2>7. r \in 0..59 /\ s \in 0..59
    BY <1>7, <2>1
  <2> HIDE DEF m, a, w, d, e, r, s
  <2> DEFINE y == z * w
  <2>8. y \in Nat /\ z * (w * 256) = y * 256
    BY <1>12, <2>4
  <2> HIDE DEF y
  <2>9. (m * 256 + e) + y * 256 = 58 * (a * 256 + d) + r
    <3>1. m + y = 58 * a + s
      BY <2>3 DEF y
    <3> QED BY <3>1, <2>4, <2>5, <2>6, <2>7, <2>8
  <2>10. M[k + 1] + z * q[k + 1] = 58 * B[k + 1] + r
    BY <2>2, <2>8, <2>9
  <2> QED BY <2>1, <2>10 DEF r
<1>16. n \in S
  <2> HIDE DEF S
  <2>1. 0..n \subseteq S
    BY <1>1, <1>14, <1>15, BoundedInduction
  <2> QED BY <1>1, <2>1
<1>17. NumberOf(new, 256) + z * q[n] = 58 * NumberOf(buf, 256) + c
  <2>1. n - n = 0
    BY <1>1
  <2>2. M[n] + z * q[n] = 58 * B[n] + carry[n - n]
    BY <1>16
  <2> QED BY <1>6, <1>10, <1>11, <2>1, <2>2
<1>18. Shifts(buf, c, Shift(buf, c), q)
  BY <1>2, <1>17 DEF n, z, Shifts
<1> QED BY <1>2, <1>9, <1>12, <1>18 DEF n, z

Buffers == [ok : BOOLEAN, panics : BOOLEAN, buf : Seq(0..255)]

NumberStep(acc, c) ==
    [ok |-> acc.ok /\ c \notin Foreign /\ Shift(acc.buf, c).carry = 0,
     panics |-> acc.panics \/ (acc.ok /\ c = OffTable), buf |-> Shift(acc.buf, c).buf]

LEMMA NumberStepType ==
  ASSUME NEW acc \in Buffers, NEW c \in 0..59
  PROVE  NumberStep(acc, c) \in Buffers
<1>1. /\ acc.buf \in Seq(0..255) /\ acc.ok \in BOOLEAN /\ acc.panics \in BOOLEAN
      /\ Len(acc.buf) \in Nat
      /\ Len(acc.buf) =< Len(acc.buf)
  BY DEF Buffers
<1>2. PICK q : Powers(q, 256, Len(acc.buf))
  <2> DEFINE b == 256
  <2>1. b \in Nat
    OBVIOUS
  <2> HIDE DEF b
  <2>2. \E q : Powers(q, b, Len(acc.buf))
    BY <1>1, <2>1, PowersExist
  <2> QED BY <2>2 DEF b
<1>3. Shift(acc.buf, c).buf \in Seq(0..255)
  BY <1>1, <1>2, ShiftOf
<1> DEFINE ok == acc.ok /\ c \notin Foreign /\ Shift(acc.buf, c).carry = 0
           panics == acc.panics \/ (acc.ok /\ c = OffTable)
<1>4. ok \in BOOLEAN /\ panics \in BOOLEAN
  OBVIOUS
<1> HIDE DEF ok, panics
<1>5. [ok |-> ok, panics |-> panics, buf |-> Shift(acc.buf, c).buf] \in Buffers
  BY <1>3, <1>4 DEF Buffers
<1> QED BY <1>5 DEF NumberStep, ok, panics

\* What the loop over the characters goes through.
Reads(f, input) ==
    /\ f \in [0..Len(input) -> Buffers]
    /\ f[0] = [ok |-> TRUE, panics |-> FALSE, buf |-> Zeros(BufferSize(Len(input)))]
    /\ \A i \in 1..Len(input) : f[i] = NumberStep(f[i - 1], input[i])
    /\ Number(input) = f[Len(input)]

LEMMA ReadSteps ==
  ASSUME NEW input \in Seq(0..59)
  PROVE  \E f : Reads(f, input)
<1> DEFINE n == Len(input)
           T == Buffers
           base == [ok |-> TRUE, panics |-> FALSE, buf |-> Zeros(BufferSize(Len(input)))]
           step == [i \in 1..n |-> [acc \in T |-> NumberStep(acc, input[i])]]
           Solves(f) == f = [i \in 0..n |->
               IF i = 0 THEN [ok |-> TRUE, panics |-> FALSE, buf |-> Zeros(BufferSize(Len(input)))]
               ELSE LET acc == f[i - 1]
                        s == Shift(acc.buf, input[i])
                    IN  [ok |-> acc.ok /\ input[i] \notin Foreign /\ s.carry = 0,
                         panics |-> acc.panics \/ (acc.ok /\ input[i] = OffTable), buf |-> s.buf]]
           after == CHOOSE f : Solves(f)
<1>1. n \in Nat /\ \A i \in 1..n : input[i] \in 0..59
  BY LenProperties, ElementOfSeq
<1>2. Number(input) = after[n]
  BY DEF Number
<1>3. base \in T /\ step \in [1..n -> [T -> T]]
  <2>1. base \in T
    <3>1. BufferSize(n) \in Nat
      BY <1>1 DEF BufferSize
    <3>2. \A k \in Nat : Zeros(k) \in Seq(0..255)
      BY DEF Zeros
    <3>3. Zeros(BufferSize(n)) \in Seq(0..255)
      BY <3>1, <3>2
    <3> QED BY <3>3 DEF Buffers
  <2> HIDE DEF n, base
  <2> QED BY <1>1, <2>1, NumberStepType
<1> HIDE DEF n
<1>4. \E f : Solves(f)
  <2>1. PICK f : f \in [0..n -> T] /\ Iterates(f, n, base, step)
    <3> HIDE DEF step, base, T
    <3> QED BY <1>1, <1>3, Recursion
  <2>2. ASSUME NEW i \in 0..n PROVE f[i] = IF i = 0 THEN base ELSE NumberStep(f[i - 1], input[i])
    <3>1. CASE i = 0
      <4> HIDE DEF base
      <4> QED BY <2>1, <3>1 DEF Iterates
    <3>2. CASE i # 0
      <4>1. i \in 1..n /\ i - 1 \in 0..n
        BY <1>1, <3>2
      <4> HIDE DEF step, base
      <4>2. f[i - 1] \in T
        BY <2>1, <4>1
      <4>3. f[i] = step[i][f[i - 1]]
        BY <2>1, <4>1 DEF Iterates
      <4>4. step[i][f[i - 1]] = NumberStep(f[i - 1], input[i])
        BY <4>1, <4>2 DEF step
      <4> QED BY <3>2, <4>3, <4>4
    <3> QED BY <3>1, <3>2
  <2>3. f = [i \in 0..n |-> f[i]]
    BY <2>1
  <2>4. f = [i \in 0..n |-> IF i = 0 THEN base ELSE NumberStep(f[i - 1], input[i])]
    <3> HIDE DEF T, base, step
    <3> QED BY <2>2, <2>3
  <2> QED BY <2>4 DEF NumberStep
<1>5. Solves(after)
  <2> HIDE DEF Solves
  <2> QED BY <1>4
<1> HIDE DEF after
<1>6. after = [i \in 0..n |-> IF i = 0 THEN base ELSE NumberStep(after[i - 1], input[i])]
  BY <1>5 DEF NumberStep
<1> HIDE DEF base, Solves
<1>7. after[0] = base /\ \A i \in 1..n : after[i] = NumberStep(after[i - 1], input[i])
  <2>1. 0 \in 0..n /\ \A i \in 1..n : i \in 0..n /\ i # 0
    BY <1>1
  <2> QED BY <1>6, <2>1
<1>8. \A i \in 0..n : after[i] \in T
  <2>1. \A i \in 1..n : after[i - 1] \in T => after[i] = step[i][after[i - 1]]
    BY <1>7
  <2> HIDE DEF step, T
  <2> QED BY <1>1, <1>3, <1>7, <2>1, Iterated
<1>9. after \in [0..n -> T]
  BY <1>6, <1>8
<1> QED BY <1>2, <1>7, <1>9 DEF Reads, n, base

LEMMA ZerosAlone ==
  ASSUME NEW b \in Nat \ {0}, NEW k \in Nat
  PROVE  Zeros(k) \in Seq(0..255) /\ Len(Zeros(k)) = k /\ NumberOf(Zeros(k), b) = 0
<1> DEFINE z == Zeros(k)
           e == <<>>
<1>1. z \in Seq(0..255) /\ z \in Seq(Nat) /\ Len(z) = k
  BY DEF Zeros
<1>2. e \in Seq(Nat) /\ NumberOf(e, b) = 0
  BY NumberEmpty
<1>3. z \o e = z
  BY <1>1, ConcatEmptySeq
<1> HIDE DEF e
<1>4. NumberOf(Zeros(k) \o e, b) = NumberOf(e, b)
  BY <1>2, ZerosNumber
<1> QED BY <1>1, <1>2, <1>3, <1>4

\* The first foreign character of a text, and nothing else, ends the loop.
FirstForeign(input, k) == input[k] \in Foreign /\ \A j \in 1..(k - 1) : input[j] \notin Foreign

\* base58Decode refuses a text, or panics, only for a character that is no digit, and
\* the first one decides which: the buffer, sized by 733 / 1000, never runs over, and
\* the test of the last carry never fails.
THEOREM NumberRead ==
  ASSUME NEW input \in Seq(0..59)
  PROVE  /\ Number(input).buf \in Seq(0..255)
         /\ Number(input).ok \in BOOLEAN
         /\ Number(input).panics \in BOOLEAN
         /\ Number(input).ok <=> \A j \in 1..Len(input) : input[j] \notin Foreign
         /\ Number(input).panics <=> \E k \in 1..Len(input) : FirstForeign(input, k) /\ input[k] = OffTable
         /\ Number(input).ok => NumberOf(Number(input).buf, 256) = NumberOf(input, 58)
<1> DEFINE m == Len(input)
           size == BufferSize(m)
           P == 1000 * (m + 1)
           I == Numbers(input, 58)
<1>1. /\ m \in Nat /\ (\A i \in 1..m : input[i] \in 0..59)
      /\ input \in Seq(Nat) /\ P \in Nat /\ m =< P
  BY LenProperties, ElementOfSeq, AsNumbers
<1>2. PICK f : Reads(f, input)
  BY ReadSteps
<1>3. PICK p : Powers(p, 58, P)
  <2> HIDE DEF P
  <2> QED BY <1>1, PowersExist
<1>4. PICK q : Powers(q, 256, P)
  <2> HIDE DEF P
  <2> QED BY <1>1, PowersExist
<1>5. size \in Nat /\ size =< P /\ p[m] =< q[size]
  <2> HIDE DEF m
  <2> QED BY <1>1, <1>3, <1>4, BufferHolds
<1>6. /\ f \in [0..m -> Buffers]
      /\ f[0] = [ok |-> TRUE, panics |-> FALSE, buf |-> Zeros(size)]
      /\ \A i \in 1..m : f[i] = NumberStep(f[i - 1], input[i])
      /\ Number(input) = f[m]
  BY <1>2 DEF Reads
<1>7. /\ \A i \in 0..m : I[i] \in Nat
      /\ I[0] = 0 /\ NumberOf(input, 58) = I[m]
      /\ \A i \in 1..m : I[i] = I[i - 1] * 58 + input[i]
  <2> DEFINE b == 58
  <2>1. b \in Nat
    OBVIOUS
  <2> HIDE DEF b
  <2>2. /\ \A i \in 0..m : Numbers(input, b)[i] \in Nat
        /\ Numbers(input, b)[0] = 0 /\ NumberOf(input, b) = Numbers(input, b)[m]
        /\ \A i \in 1..m : Numbers(input, b)[i] = Numbers(input, b)[i - 1] * b + input[i]
    BY <1>1, <2>1, NumbersOf
  <2> QED BY <2>2 DEF b
<1>8. /\ p[0] = 1 /\ \A i \in 1..m : p[i] = p[i - 1] * 58
      /\ \A i \in 0..m : p[i] \in Nat /\ p[i] =< p[m]
      /\ q[size] \in Nat
  <2> DEFINE b == 58
  <2>1. b \in Nat \ {0} /\ Powers(p, b, P)
    BY <1>3
  <2> HIDE DEF b, P
  <2>2. /\ \A i \in 0..P : p[i] \in Nat \ {0}
        /\ \A i, k \in 0..P : i =< k => p[i] =< p[k]
    BY <1>1, <2>1, PowersAdd
  <2>3. \A i \in 0..m : i \in 0..P /\ i =< m
    BY <1>1
  <2>4. m \in 0..P /\ size \in 0..P /\ \A i \in 1..m : i \in 1..P
    BY <1>1, <1>5
  <2>5. q[size] \in Nat
    BY <1>4, <2>4 DEF Powers
  <2>6. p[0] = 1 /\ \A i \in 1..m : p[i] = p[i - 1] * 58
    BY <1>3, <2>4 DEF Powers
  <2> QED BY <2>2, <2>3, <2>4, <2>5, <2>6
<1> HIDE DEF m, size, I
<1> DEFINE Good(a, i) ==
               /\ Len(a.buf) = size
               /\ a.ok <=> \A j \in 1..i : input[j] \notin {58, 59}
               /\ a.ok => NumberOf(a.buf, 256) = I[i] /\ I[i] < p[i]
           S == {i \in 0..m : Good(f[i], i)}
<1>9. 0 \in S
  <2> DEFINE b == 256
             z == Zeros(size)
  <2>1. b \in Nat \ {0}
    OBVIOUS
  <2> HIDE DEF b
  <2>2. Len(Zeros(size)) = size /\ NumberOf(Zeros(size), b) = 0
    BY <1>5, <2>1, ZerosAlone
  <2>3. Len(z) = size /\ NumberOf(z, 256) = 0
    BY <2>2 DEF b
  <2> HIDE DEF z
  <2>4. f[0].buf = z /\ f[0].ok = TRUE
    BY <1>6 DEF z
  <2>5. I[0] < p[0] /\ 0 = I[0]
    BY <1>7, <1>8
  <2>6. \A j \in 1..0 : input[j] \notin {58, 59}
    OBVIOUS
  <2> QED BY <1>1, <2>3, <2>4, <2>5, <2>6
<1>10. ASSUME NEW i \in 0..(m - 1), i \in S PROVE i + 1 \in S
  <2> DEFINE a == f[i]
             d == f[i + 1]
             c == input[i + 1]
             s == Shift(a.buf, c)
             x == NumberOf(a.buf, 256)
             y == NumberOf(s.buf, 256)
             r == s.carry
  <2>1. i \in 0..m /\ i + 1 \in 1..m /\ i + 1 \in 0..m /\ (i + 1) - 1 = i
    BY <1>1
  <2>2. a \in Buffers /\ d = NumberStep(a, c) /\ Good(a, i) /\ c \in 0..59
    BY <1>1, <1>6, <1>10, <2>1
  <2>3. SUFFICES Good(d, i + 1)
    BY <2>1
  <2>4. \A j \in 1..(i + 1) : j \in 1..i \/ j = i + 1
    BY <2>1
  <2>5. (\A j \in 1..(i + 1) : input[j] \notin {58, 59})
          <=> ((\A j \in 1..i : input[j] \notin {58, 59}) /\ c \notin {58, 59})
    <3>1. \A j \in 1..i : j \in 1..(i + 1)
      BY <2>1
    <3>2. i + 1 \in 1..(i + 1)
      BY <2>1
    <3> HIDE DEF a, d
    <3> QED BY <2>4, <3>1, <3>2
  <2> HIDE DEF a, d
  <2>6. a.buf \in Seq(0..255) /\ a.ok \in BOOLEAN
    BY <2>2 DEF Buffers
  <2> HIDE DEF c
  <2>7. /\ s.buf \in Seq(0..255) /\ Len(s.buf) = size /\ r \in 0..59
        /\ y + r * q[size] = 58 * x + c
    <3> DEFINE buf == a.buf
    <3>1. buf \in Seq(0..255) /\ Len(buf) = size
      BY <2>2, <2>6
    <3> HIDE DEF buf, P
    <3>2. /\ Shift(buf, c).buf \in Seq(0..255) /\ Len(Shift(buf, c).buf) = Len(buf)
          /\ Shift(buf, c).carry \in 0..59
          /\ NumberOf(Shift(buf, c).buf, 256) + Shift(buf, c).carry * q[Len(buf)] = 58 * NumberOf(buf, 256) + c
      <4>1. Len(buf) =< P /\ P \in Nat /\ Powers(q, 256, P) /\ c \in 0..59
        BY <1>1, <1>4, <1>5, <2>2, <3>1
      <4> DEFINE w == Shift(buf, c)
                 e == q[Len(buf)]
      <4>2. w.buf \in Seq(0..255) /\ Len(w.buf) = Len(buf) /\ w.carry \in 0..59
        BY <3>1, <4>1, ShiftOf
      <4>3. NumberOf(w.buf, 256) + w.carry * e = 58 * NumberOf(buf, 256) + c
        <5>1. Shifts(buf, c, w, q)
          BY <3>1, <4>1, ShiftOf
        <5> QED BY <5>1 DEF Shifts
      <4> QED BY <4>2, <4>3
    <3> QED BY <3>1, <3>2 DEF buf
  <2>8. d.buf = s.buf /\ d.ok = (a.ok /\ c \notin {58, 59} /\ r = 0)
    BY <2>2 DEF NumberStep, Foreign, NoDigit, OffTable
  <2>9. y \in Nat
    <3>1. s.buf \in Seq(Nat) /\ 256 \in Nat
      BY <2>7, AsNumbers
    <3> HIDE DEF s
    <3> QED BY <3>1, NumberNatural
  <2> HIDE DEF s, x, y, r
  <2>10. CASE a.ok /\ c \notin {58, 59}
    <3>1. x = I[i] /\ I[i] < p[i] /\ (\A j \in 1..i : input[j] \notin {58, 59})
      BY <2>2, <2>10 DEF x
    <3>2. /\ I[i + 1] = I[i] * 58 + c /\ p[i + 1] = p[i] * 58 /\ I[i] \in Nat
          /\ p[i] \in Nat /\ p[i + 1] =< p[m] /\ p[m] \in Nat /\ p[i + 1] \in Nat
      <4>1. m \in 0..m
        BY <1>1
      <4>2. I[i + 1] = I[i] * 58 + c /\ I[i] \in Nat
        BY <1>7, <2>1 DEF c
      <4>3. /\ p[i + 1] = p[i] * 58 /\ p[i] \in Nat /\ p[i + 1] =< p[m] /\ p[m] \in Nat
            /\ p[i + 1] \in Nat
        BY <1>8, <2>1, <4>1
      <4> QED BY <4>2, <4>3
    <3>3. c \in 0..57
      BY <2>2, <2>10
    <3>4. I[i + 1] < p[i + 1] /\ y + r * q[size] = I[i + 1]
      <4> DEFINE u == I[i]
                 v == p[i]
      <4>1. /\ u \in Nat /\ v \in Nat /\ u < v /\ x = u /\ I[i + 1] = u * 58 + c
            /\ p[i + 1] = v * 58
        BY <3>1, <3>2
      <4> HIDE DEF u, v
      <4>2. u * 58 + c < v * 58 /\ 58 * x + c = u * 58 + c
        BY <3>3, <4>1
      <4> QED BY <2>7, <4>1, <4>2
    <3>5. y + r * q[size] < q[size]
      <4> DEFINE v == y + r * q[size]
      <4>1. v = I[i + 1] /\ I[i + 1] < p[i + 1] /\ I[i + 1] \in Nat
        BY <1>7, <2>1, <3>4
      <4> HIDE DEF v
      <4>2. p[i + 1] =< p[m] /\ p[i + 1] \in Nat /\ p[m] \in Nat
        BY <3>2
      <4>3. p[m] =< q[size] /\ q[size] \in Nat
        BY <1>5, <1>8
      <4>4. v < q[size]
        BY <4>1, <4>2, <4>3
      <4> QED BY <4>4 DEF v
    <3>6. r = 0
      <4> DEFINE w == q[size]
      <4>1. w \in Nat /\ r \in Nat
        BY <1>8, <2>7
      <4> HIDE DEF w
      <4>2. SUFFICES ASSUME 1 =< r PROVE FALSE
        BY <4>1
      <4>3. 1 * w =< r * w /\ r * w \in Nat
        BY <4>1, <4>2, MulOrder
      <4>4. y + r * w < w
        BY <3>5 DEF w
      <4> QED BY <2>9, <4>1, <4>3, <4>4
    <3>7. y = I[i + 1]
      BY <1>8, <2>9, <3>4, <3>6
    <3>8. d.ok /\ (\A j \in 1..(i + 1) : input[j] \notin {58, 59})
      BY <2>5, <2>8, <2>10, <3>1, <3>6
    <3> QED BY <2>7, <2>8, <3>4, <3>7, <3>8 DEF y
  <2>11. CASE ~(a.ok /\ c \notin {58, 59})
    <3>1. ~d.ok
      BY <2>8, <2>11
    <3>2. ~(\A j \in 1..(i + 1) : input[j] \notin {58, 59})
      BY <2>2, <2>5, <2>11
    <3>3. Len(d.buf) = size
      BY <2>7, <2>8
    <3> HIDE DEF P
    <3> QED BY <3>1, <3>2, <3>3
  <2> QED BY <2>10, <2>11
<1>11. 0..m \subseteq S
  <2> HIDE DEF S
  <2>1. m \in Nat
    BY <1>1
  <2> QED BY <1>9, <1>10, <2>1, BoundedInduction
<1>12. Good(f[m], m)
  <2>1. m \in 0..m
    BY <1>1
  <2> HIDE DEF Good
  <2> QED BY <1>11, <2>1
<1>13. f[m].panics <=> \E k \in 1..m : FirstForeign(input, k) /\ input[k] = OffTable
  <2>1. /\ m \in Nat /\ f[0].panics = FALSE
        /\ \A i \in 1..m : f[i].panics = (f[i - 1].panics \/ (f[i - 1].ok /\ input[i] = OffTable))
    <3> HIDE DEF S, Good
    <3>1. f[0].panics = FALSE
      BY <1>6
    <3>2. ASSUME NEW i \in 1..m PROVE f[i].panics = (f[i - 1].panics \/ (f[i - 1].ok /\ input[i] = OffTable))
      <4>1. f[i] = NumberStep(f[i - 1], input[i])
        BY <1>6
      <4> QED BY <4>1 DEF NumberStep
    <3> QED BY <1>1, <3>1, <3>2
  <2>2. \A i \in 0..m : f[i].ok <=> \A j \in 1..i : input[j] \notin Foreign
    BY <1>11 DEF Foreign, NoDigit, OffTable
  <2> HIDE DEF S, Good
  <2> DEFINE E(i) == \E k \in 1..i : FirstForeign(input, k) /\ input[k] = OffTable
             W == {i \in 0..m : f[i].panics <=> E(i)}
  <2>3. 0 \in W
    BY <2>1
  <2>4. ASSUME NEW i \in 0..(m - 1), i \in W PROVE i + 1 \in W
    <3>1. i + 1 \in 1..m /\ (i + 1) - 1 = i /\ i \in 0..m /\ i \in Nat
      BY <2>1
    <3>2. f[i + 1].panics <=> E(i) \/ (f[i].ok /\ input[i + 1] = OffTable)
      BY <2>1, <2>4, <3>1
    <3>3. f[i].ok <=> \A j \in 1..i : input[j] \notin Foreign
      BY <2>2, <3>1
    <3>4. E(i + 1) <=> E(i) \/ (FirstForeign(input, i + 1) /\ input[i + 1] = OffTable)
      BY <3>1
    <3>5. FirstForeign(input, i + 1) <=> input[i + 1] \in Foreign /\ \A j \in 1..i : input[j] \notin Foreign
      BY <3>1 DEF FirstForeign
    <3> QED BY <3>1, <3>2, <3>3, <3>4, <3>5 DEF Foreign
  <2> HIDE DEF W
  <2>5. 0..m \subseteq W
    BY <2>1, <2>3, <2>4, BoundedInduction
  <2>6. m \in W
    BY <2>1, <2>5
  <2> QED BY <2>6 DEF W
<1>14. f[m].buf \in Seq(0..255) /\ f[m].ok \in BOOLEAN /\ f[m].panics \in BOOLEAN
  <2>1. f[m] \in Buffers
    <3>1. m \in 0..m
      BY <1>1
    <3> QED BY <1>6, <3>1
  <2> DEFINE a == f[m]
  <2> HIDE DEF a
  <2>2. a \in Buffers => a.buf \in Seq(0..255) /\ a.ok \in BOOLEAN /\ a.panics \in BOOLEAN
    BY DEF Buffers
  <2> QED BY <2>1, <2>2 DEF a
<1> QED BY <1>6, <1>7, <1>12, <1>14, <1>13 DEF m, Foreign, NoDigit, OffTable

\* What is decoded has the number and the leading zeros of the text.
LEMMA DecodingOf ==
  ASSUME NEW input \in Seq(0..59)
  PROVE  /\ base58Decode(input).ok \in BOOLEAN
         /\ base58Decode(input).ok <=> \A j \in 1..Len(input) : input[j] \notin Foreign
         /\ base58Decode(input).bytes \in Seq(0..255)
         /\ base58Decode(input).ok =>
               /\ base58Decode(input) = Decoded(base58Decode(input).bytes)
               /\ NumberOf(base58Decode(input).bytes, 256) = NumberOf(input, 58)
               /\ LeadingZeros(base58Decode(input).bytes) = LeadingZeros(input)
         /\ ~base58Decode(input).ok => base58Decode(input) \in {Malformed, Panicked}
<1> DEFINE n == Number(input)
           w == Significant(n.buf)
           k == LeadingZeros(input)
           z == Zeros(k)
           b == 256
<1>1. n.buf \in Seq(0..255) /\ n.ok \in BOOLEAN /\ n.buf \in Seq(Nat)
      /\ (n.panics => ~n.ok)
      /\ (n.ok <=> \A j \in 1..Len(input) : input[j] \notin Foreign)
      /\ (n.ok => NumberOf(n.buf, b) = NumberOf(input, 58))
  BY NumberRead, AsNumbers DEF FirstForeign
<1>2. base58Decode(input) = Outcome(n, z \o w)
  BY DEF base58Decode
<1>3. b \in Nat \ {0} /\ 0..255 \subseteq Nat
  OBVIOUS
<1> HIDE DEF n, b
<1>4. /\ w \in Seq(0..255) /\ w \in Seq(Nat) /\ (w = <<>> \/ w[1] # 0)
      /\ NumberOf(w, b) = NumberOf(n.buf, b)
  <2> DEFINE buf == n.buf
             T == 0..255
  <2>1. buf \in Seq(T) /\ T \subseteq Nat
    BY <1>1, <1>3
  <2> HIDE DEF buf, T
  <2>2. /\ Significant(buf) \in Seq(T) /\ Significant(buf) \in Seq(Nat)
        /\ Significant(buf) = <<>> \/ Significant(buf)[1] # 0
        /\ NumberOf(Significant(buf), b) = NumberOf(buf, b)
    BY <1>3, <2>1, Stripped
  <2> QED BY <2>2 DEF buf, T
<1>5. k \in Nat
  <2>1. input \in Seq(Nat)
    BY AsNumbers
  <2>2. k \in 0..Len(input)
    BY <2>1, LeadingZerosOf DEF Leads
  <2> QED BY <2>2
<1> HIDE DEF w, k
<1>6. z \in Seq(0..255)
  BY <1>3, <1>5, ZerosAlone
<1>7. /\ NumberOf(z \o w, b) = NumberOf(w, b)
      /\ LeadingZeros(z \o w) = k
  BY <1>3, <1>4, <1>5, ZerosNumber
<1>8. z \o w \in Seq(0..255)
  BY <1>4, <1>6, ConcatProperties
<1> HIDE DEF z
<1> DEFINE u == z \o w
<1> HIDE DEF u
<1>9. u \in Seq(0..255) /\ LeadingZeros(u) = k /\ NumberOf(u, b) = NumberOf(n.buf, b)
      /\ base58Decode(input) = Outcome(n, u)
  BY <1>2, <1>4, <1>7, <1>8 DEF u
<1> DEFINE d == base58Decode(input)
           digits == \A j \in 1..Len(input) : input[j] \notin Foreign
<1>10. /\ n.ok \in BOOLEAN /\ (n.ok <=> digits)
       /\ n.ok => NumberOf(n.buf, b) = NumberOf(input, 58)
  BY <1>1
<1>11. IF n.ok THEN d = Decoded(u) ELSE d \in {Malformed, Panicked}
  BY <1>1, <1>9 DEF Outcome
<1> HIDE DEF d, digits
<1>12. CASE n.ok
  <2>1. d = Decoded(u)
    BY <1>11, <1>12
  <2>2. d.ok = TRUE /\ d.bytes = u
    BY <2>1 DEF Decoded
  <2>3. NumberOf(d.bytes, b) = NumberOf(input, 58) /\ LeadingZeros(d.bytes) = k
    BY <1>9, <1>10, <1>12, <2>2
  <2>4. d.bytes \in Seq(0..255) /\ d = Decoded(d.bytes) /\ digits
    BY <1>9, <1>10, <1>12, <2>1, <2>2
  <2> QED BY <2>2, <2>3, <2>4 DEF b, k, d, digits
<1>13. CASE ~n.ok
  <2>1. d \in {Malformed, Panicked}
    BY <1>11, <1>13
  <2>2. d.ok = FALSE /\ d.bytes = <<>>
    BY <2>1 DEF Malformed, Panicked
  <2>3. d.bytes \in Seq(0..255)
    BY <2>2, EmptySeq
  <2>4. ~digits
    BY <1>10, <1>13
  <2> QED BY <2>1, <2>2, <2>3, <2>4 DEF d, digits
<1> QED BY <1>10, <1>12, <1>13

\* base58Decode (service/did_resolver.go) undoes
\* base58Encode (service/signer.go), whatever the bytes and however many ...
THEOREM RoundTrip ==
  ASSUME NEW bytes \in Seq(0..255)
  PROVE  base58Encode(bytes) \in Seq(0..57) /\ base58Decode(base58Encode(bytes)) = Decoded(bytes)
<1> DEFINE t == base58Encode(bytes)
           d == base58Decode(t)
           b == 256
<1>1. /\ t \in Seq(0..57) /\ NumberOf(t, 58) = NumberOf(bytes, b)
      /\ LeadingZeros(t) = LeadingZeros(bytes)
  BY EncodingOf
<1> HIDE DEF t, b
<1>2. t \in Seq(0..59) /\ \A j \in 1..Len(t) : t[j] \notin Foreign
  <2>1. 0..57 \subseteq 0..59
    OBVIOUS
  <2>2. t \in Seq(0..59)
    BY <1>1, <2>1, SeqMonotonic
  <2>3. \A j \in 1..Len(t) : t[j] \in 0..57
    BY <1>1, ElementOfSeq
  <2>4. \A e \in 0..57 : e \notin Foreign
    BY DEF Foreign, NoDigit, OffTable
  <2> QED BY <2>2, <2>3, <2>4
<1>3. /\ d.ok /\ d = Decoded(d.bytes) /\ d.bytes \in Seq(0..255)
      /\ NumberOf(d.bytes, b) = NumberOf(t, 58) /\ LeadingZeros(d.bytes) = LeadingZeros(t)
  BY <1>2, DecodingOf DEF b
<1>4. d.bytes = bytes
  <2> DEFINE s == d.bytes
  <2>1. s \in Seq(0..(b - 1)) /\ bytes \in Seq(0..(b - 1)) /\ b \in Nat \ {0}
    <3>1. 256 - 1 = 255
      OBVIOUS
    <3> QED BY <1>3, <3>1 DEF b
  <2>2. LeadingZeros(s) = LeadingZeros(bytes) /\ NumberOf(s, b) = NumberOf(bytes, b)
    BY <1>1, <1>3
  <2> HIDE DEF s
  <2>3. s = bytes
    BY <2>1, <2>2, SameNumber
  <2> QED BY <2>3 DEF s
<1> QED BY <1>1, <1>3, <1>4 DEF t

\* ... and tells any two texts that it accepts apart.
THEOREM DecodesOnce ==
  ASSUME NEW t \in Seq(0..59), NEW u \in Seq(0..59), base58Decode(t).ok,
         base58Decode(u) = base58Decode(t)
  PROVE  t = u
<1> DEFINE d == base58Decode(t)
           b == 58
<1>1. /\ \A j \in 1..Len(t) : t[j] \notin Foreign
      /\ NumberOf(d.bytes, 256) = NumberOf(t, b) /\ LeadingZeros(d.bytes) = LeadingZeros(t)
  BY DecodingOf
<1>2. /\ \A j \in 1..Len(u) : u[j] \notin Foreign
      /\ NumberOf(d.bytes, 256) = NumberOf(u, b) /\ LeadingZeros(d.bytes) = LeadingZeros(u)
  BY DecodingOf
<1> HIDE DEF d, b
<1>3. ASSUME NEW s \in Seq(0..59), \A j \in 1..Len(s) : s[j] \notin Foreign PROVE s \in Seq(0..57)
  <2>1. Len(s) \in Nat /\ s \in [1..Len(s) -> 0..59]
    BY LenProperties
  <2>2. \A e \in 0..59 : e \notin Foreign => e \in 0..57
    BY DEF Foreign, NoDigit, OffTable
  <2>3. \A j \in 1..Len(s) : s[j] \in 0..57
    BY <1>3, <2>1, <2>2
  <2>4. s \in [1..Len(s) -> 0..57]
    BY <2>1, <2>3
  <2> DEFINE n == Len(s)
             T == 0..57
  <2>5. n \in Nat /\ s \in [1..n -> T]
    BY <2>1, <2>4
  <2> HIDE DEF n, T
  <2>6. s \in Seq(T)
    BY <2>5, SeqDef
  <2> QED BY <2>6 DEF T
<1>4. t \in Seq(0..(b - 1)) /\ u \in Seq(0..(b - 1)) /\ b \in Nat \ {0}
  <2>1. 58 - 1 = 57
    OBVIOUS
  <2>2. t \in Seq(0..57) /\ u \in Seq(0..57)
    BY <1>1, <1>2, <1>3
  <2> QED BY <2>1, <2>2 DEF b
<1>5. LeadingZeros(t) = LeadingZeros(u) /\ NumberOf(t, b) = NumberOf(u, b)
  BY <1>1, <1>2
<1> QED BY <1>4, <1>5, SameNumber

-------------------------------------------------------------------------------
(* Keys.                                                                   *)

\* What SubSeq takes.
LEMMA Slice ==
  ASSUME NEW T, NEW s \in Seq(T), NEW n \in Nat, NEW m \in 1..(n + 1), n \in (m - 1)..Len(s)
  PROVE  /\ SubSeq(s, m, n) \in Seq(T) /\ Len(SubSeq(s, m, n)) = (n - m) + 1
         /\ \A i \in 1..((n - m) + 1) : SubSeq(s, m, n)[i] = s[(m + i) - 1]
<1>1. Len(s) \in Nat /\ \A i \in 1..Len(s) : s[i] \in T
  BY LenProperties, ElementOfSeq
<1>2. \A i \in m..n : s[i] \in T
  BY <1>1
<1>3. /\ SubSeq(s, m, n) \in Seq(T)
      /\ Len(SubSeq(s, m, n)) = IF m =< n THEN (n - m) + 1 ELSE 0
      /\ \A i \in 1..((n - m) + 1) : SubSeq(s, m, n)[i] = s[(m + i) - 1]
  <2>1. m \in Int /\ n \in Int
    OBVIOUS
  <2> QED BY <1>2, <2>1, SubSeqProperties
<1>4. n < m => (n - m) + 1 = 0
  OBVIOUS
<1>5. m =< n \/ n < m
  OBVIOUS
<1> QED BY <1>3, <1>4, <1>5

\* A key that PublicKeyMultibase (service/signer.go) wrote is the key that
\* DecodePublicKeyMultibase (service/did_resolver.go) reads, although it accepts a
\* bare key as well.
THEOREM KeyRoundTrip ==
  ASSUME NEW key \in [1..KeySize -> 0..255]
  PROVE  DecodePublicKeyMultibase(PublicKeyMultibase(key)) = Decoded(key)
<1> DEFINE B == 0..255
           pre == Ed25519Prefix
           all == pre \o key
           d == decodeMultibaseSignature(PublicKeyMultibase(key))
<1>1. KeySize \in Nat /\ key \in Seq(B) /\ Len(key) = KeySize
  BY KeySizeAssumption
<1>2. pre \in Seq(B) /\ Len(pre) = 2 /\ pre[1] = 237 /\ pre[2] = 1
  BY DEF Ed25519Prefix
<1> HIDE DEF pre
<1>3. /\ all \in Seq(B) /\ Len(all) = 2 + KeySize
      /\ \A i \in 1..(2 + KeySize) : all[i] = IF i =< 2 THEN pre[i] ELSE key[i - 2]
  <2> HIDE DEF B
  <2>1. /\ all \in Seq(B) /\ Len(all) = Len(pre) + Len(key)
        /\ \A i \in 1..(Len(pre) + Len(key)) : all[i] = IF i =< Len(pre) THEN pre[i] ELSE key[i - Len(pre)]
    <3>1. key \in Seq(B) /\ pre \in Seq(B)
      BY <1>1, <1>2
    <3>2. all \in Seq(B)
      BY <3>1, ConcatProperties
    <3>3. Len(all) = Len(pre) + Len(key)
      BY <3>1, ConcatProperties
    <3>4. \A i \in 1..(Len(pre) + Len(key)) : all[i] = IF i =< Len(pre) THEN pre[i] ELSE key[i - Len(pre)]
      BY <3>1, ConcatProperties
    <3> QED BY <3>2, <3>3, <3>4
  <2> QED BY <1>1, <1>2, <2>1
<1> HIDE DEF all
<1>4. d = Decoded(all)
  <2>1. PublicKeyMultibase(key) = [prefix |-> "z", text |-> base58Encode(all)]
    BY DEF PublicKeyMultibase, Multibase, all, pre
  <2>2. d = base58Decode(base58Encode(all))
    BY <2>1 DEF decodeMultibaseSignature
  <2> QED BY <1>3, <2>2, RoundTrip
<1>5. d.ok /\ ~d.panics /\ d.bytes = all
  BY <1>4 DEF Decoded
<1>6. SubSeq(all, 1, 2) = Ed25519Prefix
  <2>1. /\ SubSeq(all, 1, 2) \in Seq(B) /\ Len(SubSeq(all, 1, 2)) = 2
        /\ \A i \in 1..2 : SubSeq(all, 1, 2)[i] = all[i]
    <3> DEFINE m == 1
               n == 2
    <3>1. /\ m \in 1..(n + 1) /\ n \in (m - 1)..Len(all) /\ (n - m) + 1 = 2
          /\ \A i \in 1..2 : (m + i) - 1 = i
      BY <1>1, <1>3
    <3>2. n \in Nat
      OBVIOUS
    <3> HIDE DEF m, n, B
    <3>3. SubSeq(all, m, n) \in Seq(B) /\ Len(SubSeq(all, m, n)) = (n - m) + 1
          /\ \A i \in 1..((n - m) + 1) : SubSeq(all, m, n)[i] = all[(m + i) - 1]
      BY <1>3, <3>1, <3>2, Slice
    <3> QED BY <3>1, <3>3 DEF m, n
  <2>2. \A i \in 1..2 : all[i] = pre[i]
    BY <1>1, <1>3
  <2> HIDE DEF B
  <2>3. SubSeq(all, 1, 2) = pre
    BY <1>2, <2>1, <2>2, SeqEqual
  <2> QED BY <2>3 DEF pre
<1>7. SubSeq(all, 3, KeySize + 2) = key
  <2>1. SubSeq(all, 3, KeySize + 2) \in Seq(B) /\ Len(SubSeq(all, 3, KeySize + 2)) = KeySize
        /\ \A i \in 1..KeySize : SubSeq(all, 3, KeySize + 2)[i] = all[i + 2]
    <3> DEFINE l == 3
               m == KeySize + 2
    <3>1. l \in 1..(m + 1) /\ m \in (l - 1)..Len(all) /\ (m - l) + 1 = KeySize
          /\ \A i \in 1..KeySize : (l + i) - 1 = i + 2
      BY <1>1, <1>3
    <3>2. m \in Nat
      BY <1>1
    <3> HIDE DEF l, m, B
    <3>3. SubSeq(all, l, m) \in Seq(B) /\ Len(SubSeq(all, l, m)) = (m - l) + 1
          /\ \A i \in 1..((m - l) + 1) : SubSeq(all, l, m)[i] = all[(l + i) - 1]
      BY <1>3, <3>1, <3>2, Slice
    <3> QED BY <3>1, <3>3 DEF l, m
  <2>2. \A i \in 1..KeySize : all[i + 2] = key[i]
    <3>1. \A i \in 1..KeySize : i + 2 \in 1..(2 + KeySize) /\ ~(i + 2 =< 2) /\ (i + 2) - 2 = i
      BY <1>1
    <3> QED BY <1>3, <3>1
  <2> HIDE DEF B
  <2> QED BY <1>1, <2>1, <2>2, SeqEqual
<1>8. Len(d.bytes) = KeySize + 2
  BY <1>1, <1>3, <1>5
<1> HIDE DEF d
<1> QED BY <1>1, <1>5, <1>6, <1>7, <1>8 DEF DecodePublicKeyMultibase, d

-------------------------------------------------------------------------------
(* Texts.                                                                  *)

\* What follows from a text being parsed: its leaves, in whatever order, are
\* those of the document.
Spells(text, doc) ==
    /\ doc = [q \in DOMAIN doc |-> doc[q]]
    /\ \A i \in DOMAIN text : text[i][1] \in DOMAIN doc /\ text[i][2] = doc[text[i][1]]
    /\ \A q \in DOMAIN doc : \E i \in DOMAIN text : text[i][1] = q

LEMMA ParseOf ==
  ASSUME NEW text, NEW doc, Spells(text, doc)
  PROVE  Parse(text) = doc
<1> DEFINE D == {text[i][1] : i \in DOMAIN text}
           At(q) == CHOOSE i \in DOMAIN text : text[i][1] = q
<1>1. D = DOMAIN doc
  BY DEF Spells
<1>2. ASSUME NEW q \in D PROVE text[At(q)][2] = doc[q]
  <2>1. \E i \in DOMAIN text : text[i][1] = q
    BY <1>2
  <2>2. At(q) \in DOMAIN text /\ text[At(q)][1] = q
    BY <2>1
  <2> QED BY <2>2 DEF Spells
<1>3. Parse(text) = [q \in D |-> text[At(q)][2]]
  BY DEF Parse
<1>4. doc = [q \in DOMAIN doc |-> doc[q]]
  BY DEF Spells
<1> HIDE DEF D, At
<1>5. Parse(text) = [q \in D |-> doc[q]]
  BY <1>2, <1>3
<1> QED BY <1>1, <1>4, <1>5

\* What is written in some order is what was there.
LEMMA RenderOf ==
  ASSUME NEW order, Len(order) \in Nat, DOMAIN order = 1..Len(order),
         NEW doc, doc = [q \in DOMAIN doc |-> doc[q]], DOMAIN doc \subseteq ToSet(order)
  PROVE  /\ Render(doc, order) \in Seq({<<q, doc[q]>> : q \in DOMAIN doc})
         /\ Spells(Render(doc, order), doc)
<1> DEFINE n == Len(order)
           L == {<<q, doc[q]>> : q \in DOMAIN doc}
           T == Seq(L)
           base == <<>>
           Next1(i, s) == IF order[i] \in DOMAIN doc THEN Append(s, <<order[i], doc[order[i]]>>) ELSE s
           step == [i \in 1..n |-> [s \in T |-> Next1(i, s)]]
           Solves(f) == f = [i \in 0..n |-> IF i = 0 THEN <<>> ELSE
                                IF order[i] \in DOMAIN doc
                                THEN Append(f[i - 1], <<order[i], doc[order[i]]>>) ELSE f[i - 1]]
           written == CHOOSE f : Solves(f)
<1>1. n \in Nat /\ DOMAIN order = 1..n
  OBVIOUS
<1>2. Render(doc, order) = written[n]
  BY DEF Render
<1> HIDE DEF n
<1>3. step \in [1..n -> [T -> T]] /\ base \in T
  <2>1. base \in T
    BY EmptySeq
  <2>2. ASSUME NEW i \in 1..n, NEW s \in T PROVE Next1(i, s) \in T
    <3>1. CASE order[i] \in DOMAIN doc
      <4> DEFINE e == <<order[i], doc[order[i]]>>
      <4>1. e \in L
        BY <3>1
      <4> HIDE DEF e, L
      <4>2. Append(s, e) \in T
        BY <4>1, AppendProperties
      <4> QED BY <3>1, <4>2 DEF e
    <3>2. CASE order[i] \notin DOMAIN doc
      BY <3>2
    <3> QED BY <3>1, <3>2
  <2> HIDE DEF T, base, Next1
  <2> QED BY <2>1, <2>2
<1>4. \E f : Solves(f)
  <2>1. PICK f : f \in [0..n -> T] /\ Iterates(f, n, base, step)
    <3> HIDE DEF step, base, T
    <3> QED BY <1>1, <1>3, Recursion
  <2>2. ASSUME NEW i \in 0..n PROVE f[i] = IF i = 0 THEN base ELSE Next1(i, f[i - 1])
    <3>1. CASE i = 0
      <4> HIDE DEF base
      <4> QED BY <2>1, <3>1 DEF Iterates
    <3>2. CASE i # 0
      <4>1. i \in 1..n /\ i - 1 \in 0..n
        BY <1>1, <3>2
      <4> HIDE DEF step, base, T, Next1
      <4>2. f[i - 1] \in T
        BY <2>1, <4>1
      <4>3. f[i] = step[i][f[i - 1]]
        BY <2>1, <4>1 DEF Iterates
      <4>4. step[i][f[i - 1]] = Next1(i, f[i - 1])
        BY <4>1, <4>2 DEF step
      <4> QED BY <3>2, <4>3, <4>4
    <3> QED BY <3>1, <3>2
  <2>3. f = [i \in 0..n |-> f[i]]
    <3> HIDE DEF T
    <3> QED BY <2>1
  <2>4. f = [i \in 0..n |-> IF i = 0 THEN base ELSE Next1(i, f[i - 1])]
    <3> HIDE DEF T, base, step, Next1
    <3> QED BY <2>2, <2>3
  <2> QED BY <2>4
<1>5. Solves(written)
  <2> HIDE DEF Solves
  <2> QED BY <1>4
<1> HIDE DEF written
<1>6. written = [i \in 0..n |-> IF i = 0 THEN base ELSE Next1(i, written[i - 1])]
  BY <1>5
<1> HIDE DEF base, Solves, Next1
<1>7. written[0] = base /\ \A i \in 1..n : written[i] = Next1(i, written[i - 1])
  <2>1. 0 \in 0..n /\ \A i \in 1..n : i \in 0..n /\ i # 0
    BY <1>1
  <2> QED BY <1>6, <2>1
<1>8. \A i \in 0..n : written[i] \in T
  <2>1. \A i \in 1..n : written[i - 1] \in T => written[i] = step[i][written[i - 1]]
    <3> HIDE DEF T
    <3> QED BY <1>7
  <2> HIDE DEF step, T
  <2> QED BY <1>1, <1>3, <1>7, <2>1, Iterated
<1> DEFINE Has(s, k) == \E i \in DOMAIN s : s[i][1] = order[k]
           S == {i \in 0..n : \A k \in 1..i : order[k] \in DOMAIN doc => Has(written[i], k)}
<1>9. 0 \in S
  BY <1>1
<1>10. ASSUME NEW i \in 0..(n - 1), i \in S PROVE i + 1 \in S
  <2> DEFINE s == written[i]
             u == written[i + 1]
             e == <<order[i + 1], doc[order[i + 1]]>>
  <2>1. i + 1 \in 1..n /\ (i + 1) - 1 = i /\ i \in 0..n /\ i + 1 \in 0..n
    BY <1>1
  <2>2. s \in T /\ u = Next1(i + 1, s)
    <3> HIDE DEF T
    <3> QED BY <1>7, <1>8, <2>1
  <2>3. \A k \in 1..(i + 1) : k \in 1..i \/ k = i + 1
    BY <2>1
  <2>4. \A k \in 1..i : order[k] \in DOMAIN doc => Has(s, k)
    BY <1>10
  <2> HIDE DEF s, u
  <2>5. SUFFICES \A k \in 1..(i + 1) : order[k] \in DOMAIN doc => Has(u, k)
    BY <2>1 DEF u
  <2>6. CASE order[i + 1] \in DOMAIN doc
    <3>1. u = Append(s, e)
      BY <2>2, <2>6 DEF Next1
    <3>2. e \in L /\ e[1] = order[i + 1]
      BY <2>6
    <3> HIDE DEF e, L
    <3>3. /\ u \in Seq(L) /\ Len(u) = Len(s) + 1 /\ Len(s) \in Nat
          /\ \A j \in 1..Len(s) : u[j] = s[j]
          /\ u[Len(s) + 1] = e
      BY <2>2, <3>1, <3>2, AppendProperties, LenProperties
    <3>4. DOMAIN s = 1..Len(s) /\ DOMAIN u = 1..(Len(s) + 1)
      BY <2>2, <3>3, LenProperties
    <3>5. Len(s) + 1 \in DOMAIN u /\ \A j \in DOMAIN s : j \in DOMAIN u /\ u[j] = s[j]
      BY <3>3, <3>4
    <3>6. ASSUME NEW k \in 1..i, Has(s, k) PROVE Has(u, k)
      BY <3>5, <3>6
    <3>7. Has(u, i + 1)
      BY <3>2, <3>3, <3>5
    <3> HIDE DEF Has
    <3> QED BY <2>3, <2>4, <3>6, <3>7
  <2>7. CASE order[i + 1] \notin DOMAIN doc
    <3>1. u = s
      BY <2>2, <2>7 DEF Next1
    <3> HIDE DEF Has
    <3> QED BY <2>3, <2>4, <2>7, <3>1
  <2> QED BY <2>6, <2>7
<1>11. n \in S
  <2> HIDE DEF S
  <2>1. 0..n \subseteq S
    BY <1>1, <1>9, <1>10, BoundedInduction
  <2> QED BY <1>1, <2>1
<1> DEFINE r == written[n]
<1>12. r \in Seq(L)
  <2>1. n \in 0..n
    BY <1>1
  <2> HIDE DEF L
  <2> QED BY <1>8, <2>1
<1>13. \A k \in 1..n : order[k] \in DOMAIN doc => \E i \in DOMAIN r : r[i][1] = order[k]
  BY <1>11
<1> HIDE DEF r
<1>14. \A q \in DOMAIN doc : \E i \in DOMAIN r : r[i][1] = q
  <2>1. \A q \in DOMAIN doc : \E k \in 1..n : order[k] = q
    BY <1>1 DEF ToSet
  <2> QED BY <1>13, <2>1
<1>15. \A i \in DOMAIN r : r[i][1] \in DOMAIN doc /\ r[i][2] = doc[r[i][1]]
  <2>1. \A i \in DOMAIN r : r[i] \in L
    <3> HIDE DEF L
    <3> QED BY <1>12, LenProperties, ElementOfSeq
  <2>2. \A e \in L : e[1] \in DOMAIN doc /\ e[2] = doc[e[1]]
    OBVIOUS
  <2> HIDE DEF L
  <2> QED BY <2>1, <2>2
<1>16. Spells(r, doc)
  BY <1>14, <1>15 DEF Spells
<1> QED BY <1>2, <1>12, <1>16 DEF r

\* The order of the keys is nothing that a parser sees.
LEMMA ReverseOf ==
  ASSUME NEW T, NEW text \in Seq(T), NEW doc, Spells(text, doc)
  PROVE  Reverse(text) \in Seq(T) /\ Spells(Reverse(text), doc)
<1> DEFINE n == Len(text)
           r == Reverse(text)
<1>1. n \in Nat /\ DOMAIN text = 1..n /\ \A i \in 1..n : text[i] \in T
  BY LenProperties, ElementOfSeq
<1>2. r = [i \in 1..n |-> text[(n - i) + 1]]
  BY DEF Reverse
<1> HIDE DEF n, r
<1>3. \A i \in 1..n : (n - i) + 1 \in 1..n /\ (n - ((n - i) + 1)) + 1 = i
  BY <1>1
<1>4. DOMAIN r = 1..n /\ \A i \in 1..n : r[i] = text[(n - i) + 1]
  BY <1>2
<1>5. r \in Seq(T)
  <2>1. r \in [1..n -> T]
    BY <1>1, <1>2, <1>3
  <2> QED BY <1>1, <2>1, SeqDef
<1>6. \A i \in DOMAIN r : r[i][1] \in DOMAIN doc /\ r[i][2] = doc[r[i][1]]
  <2>1. \A i \in 1..n : text[i][1] \in DOMAIN doc /\ text[i][2] = doc[text[i][1]]
    BY <1>1 DEF Spells
  <2> QED BY <1>3, <1>4, <2>1
<1>7. ASSUME NEW q \in DOMAIN doc PROVE \E i \in DOMAIN r : r[i][1] = q
  <2>1. PICK i \in 1..n : text[i][1] = q
    BY <1>1 DEF Spells
  <2>2. (n - i) + 1 \in DOMAIN r /\ r[(n - i) + 1] = text[i]
    BY <1>3, <1>4
  <2> QED BY <2>1, <2>2
<1>8. Spells(r, doc)
  BY <1>6, <1>7 DEF Spells
<1> QED BY <1>5, <1>8 DEF r

-------------------------------------------------------------------------------
(* Documents.                                                              *)

PathNames ==
    {"subject.achievement.category", "subject.achievement.criteria",
     "subject.achievement.description", "subject.achievement.id",
     "subject.achievement.image", "subject.achievement.name",
     "subject.achievement.programId", "subject.id", "subject.identifier",
     "subject.name", "subject.source", "didFallback", "id", "issuer.id",
     "issuer.name", "proof.created", "proof.proofValue", "proof.verificationMethod",
     "validFrom", "validUntil"}

\* The parser of the database and the one of the verifier know the same keys.
LEMMA OrdersNamePaths ==
  /\ Paths = PathNames
  /\ Len(SortedOrder) \in Nat /\ DOMAIN SortedOrder = 1..Len(SortedOrder) /\ ToSet(SortedOrder) = Paths
  /\ Len(StoredOrder) \in Nat /\ DOMAIN StoredOrder = 1..Len(StoredOrder) /\ ToSet(StoredOrder) = Paths
<1>1. Len(SortedOrder) = 20
  BY DEF SortedOrder
<1>2. DOMAIN SortedOrder = 1..20
  BY DEF SortedOrder
<1>3. ToSet(SortedOrder) = PathNames
  <2>1. \A i \in 1..20 : SortedOrder[i] \in PathNames
    BY DEF SortedOrder, PathNames
  <2>2. \A q \in PathNames : \E i \in 1..20 : SortedOrder[i] = q
    BY DEF SortedOrder, PathNames
  <2> QED BY <1>2, <2>1, <2>2 DEF ToSet
<1>4. Len(StoredOrder) = 20
  BY DEF StoredOrder
<1>5. DOMAIN StoredOrder = 1..20
  BY DEF StoredOrder
<1>6. ToSet(StoredOrder) = PathNames
  <2>1. \A i \in 1..20 : StoredOrder[i] \in PathNames
    BY DEF StoredOrder, PathNames
  <2>2. \A q \in PathNames : \E i \in 1..20 : StoredOrder[i] = q
    BY DEF StoredOrder, PathNames
  <2> QED BY <1>5, <2>1, <2>2 DEF ToSet
<1> QED BY <1>1, <1>2, <1>3, <1>4, <1>5, <1>6 DEF Paths

\* A document, whatever it says.
ProofValues == [prefix : {"z", "f"}, text : Seq(0..59)]

IsDoc(d) ==
    /\ d = [q \in DOMAIN d |-> d[q]]
    /\ DOMAIN d \subseteq Paths
    /\ "proof.proofValue" \in DOMAIN d => d["proof.proofValue"] \in ProofValues

LEMMA Written ==
  ASSUME NEW d, d = [q \in DOMAIN d |-> d[q]], DOMAIN d \subseteq Paths
  PROVE  /\ Spells(Render(d, SortedOrder), d) /\ Parse(Render(d, SortedOrder)) = d
         /\ Spells(Render(d, StoredOrder), d) /\ Parse(Render(d, StoredOrder)) = d
         /\ Spells(Reverse(Render(d, SortedOrder)), d)
<1> DEFINE T == {<<q, d[q]>> : q \in DOMAIN d}
<1>1. Render(d, SortedOrder) \in Seq(T) /\ Spells(Render(d, SortedOrder), d)
  BY OrdersNamePaths, RenderOf
<1>2. Spells(Render(d, StoredOrder), d)
  BY OrdersNamePaths, RenderOf
<1> HIDE DEF T
<1> QED BY <1>1, <1>2, ParseOf, ReverseOf

-------------------------------------------------------------------------------
(* What the builder writes.                                                *)

OptionalPaths ==
    {"subject.id", "subject.identifier", "subject.source", "subject.achievement.category",
     "subject.achievement.programId"}

RequiredPaths ==
    {"id", "issuer.id", "issuer.name", "validFrom", "subject.name", "subject.achievement.id",
     "subject.achievement.name", "subject.achievement.description",
     "subject.achievement.criteria", "subject.achievement.image", "didFallback"}

Leaf(p) ==
    [q \in OptionalPaths \cup RequiredPaths |->
        CASE q = "id" -> p.credentialID
          [] q = "issuer.id" -> IssuerDID
          [] q = "issuer.name" -> "issuer"
          [] q = "validFrom" -> p.now
          [] q = "subject.id" -> p.recipientDID
          [] q = "subject.name" -> p.recipientName
          [] q = "subject.identifier" -> p.studentID
          [] q = "subject.source" -> p.universityCode
          [] q = "subject.achievement.id" ->
                IF p.achievementID = "" THEN p.freshURN ELSE p.achievementID
          [] q = "subject.achievement.name" -> p.achievementName
          [] q = "subject.achievement.description" -> p.achievementDesc
          [] q = "subject.achievement.criteria" -> p.criteria
          [] q = "subject.achievement.category" -> p.programCategory
          [] q = "subject.achievement.programId" -> p.programID
          [] q = "subject.achievement.image" -> ensureImageDataURI(p.image)
          [] OTHER -> "contract"]

Given(p) == RequiredPaths \cup {q \in OptionalPaths : Leaf(p)[q] # ""}

Content(p) == [q \in Given(p) |-> Leaf(p)[q]]

LEMMA LeafValues ==
  ASSUME NEW p
  PROVE  /\ Leaf(p)["id"] = p.credentialID
         /\ Leaf(p)["issuer.id"] = IssuerDID
         /\ Leaf(p)["issuer.name"] = "issuer"
         /\ Leaf(p)["validFrom"] = p.now
         /\ Leaf(p)["subject.id"] = p.recipientDID
         /\ Leaf(p)["subject.name"] = p.recipientName
         /\ Leaf(p)["subject.identifier"] = p.studentID
         /\ Leaf(p)["subject.source"] = p.universityCode
         /\ Leaf(p)["subject.achievement.id"] = IF p.achievementID = "" THEN p.freshURN ELSE p.achievementID
         /\ Leaf(p)["subject.achievement.name"] = p.achievementName
         /\ Leaf(p)["subject.achievement.description"] = p.achievementDesc
         /\ Leaf(p)["subject.achievement.criteria"] = p.criteria
         /\ Leaf(p)["subject.achievement.category"] = p.programCategory
         /\ Leaf(p)["subject.achievement.programId"] = p.programID
         /\ Leaf(p)["subject.achievement.image"] = ensureImageDataURI(p.image)
         /\ Leaf(p)["didFallback"] = "contract"
BY DEF Leaf, OptionalPaths, RequiredPaths

LEMMA OptionalLeaf ==
  ASSUME NEW T, NEW path, NEW value, <<path, value>> \in T
  PROVE  /\ Optional(path, value) \in Seq(T)
         /\ Range(Optional(path, value)) = IF value = "" THEN {} ELSE {<<path, value>>}
<1> DEFINE e == <<path, value>>
<1>1. CASE value = ""
  <2>1. Optional(path, value) = <<>>
    BY <1>1 DEF Optional
  <2> QED BY <1>1, <2>1, EmptySeq, EmptySequence
<1>2. CASE value # ""
  <2>1. Optional(path, value) = <<e>>
    BY <1>2 DEF Optional
  <2> HIDE DEF e
  <2>2. e \in T
    BY DEF e
  <2>3. <<e>> \in Seq(T) /\ Range(<<e>>) = {e}
    BY <2>2 DEF Range
  <2> QED BY <1>2, <2>1, <2>3 DEF e
<1> QED BY <1>1, <1>2

LEMMA SpellsBy ==
  ASSUME NEW T, NEW text \in Seq(T), NEW doc, doc = [q \in DOMAIN doc |-> doc[q]],
         Range(text) = {<<q, doc[q]>> : q \in DOMAIN doc}
  PROVE  Spells(text, doc)
<1>1. \A i \in DOMAIN text : text[i] \in {<<q, doc[q]>> : q \in DOMAIN doc}
  BY DEF Range
<1>2. \A i \in DOMAIN text : text[i][1] \in DOMAIN doc /\ text[i][2] = doc[text[i][1]]
  BY <1>1
<1>3. ASSUME NEW q \in DOMAIN doc PROVE \E i \in DOMAIN text : text[i][1] = q
  <2>1. <<q, doc[q]>> \in Range(text)
    OBVIOUS
  <2>2. PICK i \in DOMAIN text : text[i] = <<q, doc[q]>>
    BY <2>1 DEF Range
  <2> QED BY <2>2
<1> QED BY <1>2, <1>3 DEF Spells

Leaves(p) == {<<q, Leaf(p)[q]>> : q \in OptionalPaths \cup RequiredPaths}

LEMMA BodyLeaves ==
  ASSUME NEW p
  PROVE  Body(p) \in Seq(Leaves(p)) /\ Range(Body(p)) = {<<q, Leaf(p)[q]>> : q \in Given(p)}
<1> DEFINE a == <<<<"id", p.credentialID>>, <<"issuer.id", IssuerDID>>, <<"issuer.name", "issuer">>,
                  <<"validFrom", p.now>>>>
           b == Optional("subject.id", p.recipientDID)
           c == <<<<"subject.name", p.recipientName>>>>
           d == Optional("subject.identifier", p.studentID)
           e == Optional("subject.source", p.universityCode)
           aid == IF p.achievementID = "" THEN p.freshURN ELSE p.achievementID
           f == <<<<"subject.achievement.id", aid>>,
                  <<"subject.achievement.name", p.achievementName>>,
                  <<"subject.achievement.description", p.achievementDesc>>,
                  <<"subject.achievement.criteria", p.criteria>>>>
           g == Optional("subject.achievement.category", p.programCategory)
           h == Optional("subject.achievement.programId", p.programID)
           img == ensureImageDataURI(p.image)
           k == <<<<"subject.achievement.image", img>>, <<"didFallback", "contract">>>>
           opt(q, v) == IF v = "" THEN {} ELSE {<<q, v>>}
<1>1. Body(p) = a \o b \o c \o d \o e \o f \o g \o h \o k
  BY DEF Body
<1>2. Leaf(p)["subject.achievement.id"] = aid /\ Leaf(p)["subject.achievement.image"] = img
  BY LeafValues
<1> DEFINE M == Leaves(p)
<1>3. ASSUME NEW q \in OptionalPaths \cup RequiredPaths PROVE <<q, Leaf(p)[q]>> \in M
  BY DEF Leaves
<1> HIDE DEF M
<1> HIDE DEF img, aid
<1>4. ASSUME NEW x \in M PROVE <<x>> \in Seq(M) /\ Range(<<x>>) = {x}
  BY DEF Range
<1>5. ASSUME NEW x \in M, NEW y \in M PROVE <<x, y>> \in Seq(M) /\ Range(<<x, y>>) = {x, y}
  BY DEF Range
<1>6. ASSUME NEW x \in M, NEW y \in M, NEW z \in M, NEW w \in M
       PROVE  <<x, y, z, w>> \in Seq(M) /\ Range(<<x, y, z, w>>) = {x, y, z, w}
  BY DEF Range
<1>7. a \in Seq(M) /\ Range(a) = {<<"id", p.credentialID>>, <<"issuer.id", IssuerDID>>, <<"issuer.name", "issuer">>,
                  <<"validFrom", p.now>>}
  <2> DEFINE x == <<"id", p.credentialID>>
             y == <<"issuer.id", IssuerDID>>
             z == <<"issuer.name", "issuer">>
             w == <<"validFrom", p.now>>
  <2>1. x \in M /\ y \in M /\ z \in M /\ w \in M
    BY <1>3, <1>2, LeafValues DEF OptionalPaths, RequiredPaths
  <2> HIDE DEF x, y, z, w
  <2>2. <<x, y, z, w>> \in Seq(M) /\ Range(<<x, y, z, w>>) = {x, y, z, w}
    BY <1>6, <2>1
  <2> QED BY <2>2 DEF x, y, z, w
<1>8. b \in Seq(M) /\ Range(b) = opt("subject.id", p.recipientDID)
  <2>1. <<"subject.id", p.recipientDID>> \in M
    BY <1>3, LeafValues DEF OptionalPaths, RequiredPaths
  <2> QED BY <2>1, OptionalLeaf
<1>9. c \in Seq(M) /\ Range(c) = {<<"subject.name", p.recipientName>>}
  <2>1. <<"subject.name", p.recipientName>> \in M
    BY <1>3, LeafValues DEF OptionalPaths, RequiredPaths
  <2> QED BY <1>4, <2>1
<1>10. d \in Seq(M) /\ Range(d) = opt("subject.identifier", p.studentID)
  <2>1. <<"subject.identifier", p.studentID>> \in M
    BY <1>3, LeafValues DEF OptionalPaths, RequiredPaths
  <2> QED BY <2>1, OptionalLeaf
<1>11. e \in Seq(M) /\ Range(e) = opt("subject.source", p.universityCode)
  <2>1. <<"subject.source", p.universityCode>> \in M
    BY <1>3, LeafValues DEF OptionalPaths, RequiredPaths
  <2> QED BY <2>1, OptionalLeaf
<1>12. f \in Seq(M) /\ Range(f) = {<<"subject.achievement.id", aid>>,
                  <<"subject.achievement.name", p.achievementName>>,
                  <<"subject.achievement.description", p.achievementDesc>>,
                  <<"subject.achievement.criteria", p.criteria>>}
  <2> DEFINE x == <<"subject.achievement.id", aid>>
             y == <<"subject.achievement.name", p.achievementName>>
             z == <<"subject.achievement.description", p.achievementDesc>>
             w == <<"subject.achievement.criteria", p.criteria>>
  <2>1. x \in M /\ y \in M /\ z \in M /\ w \in M
    BY <1>3, <1>2, LeafValues DEF OptionalPaths, RequiredPaths
  <2> HIDE DEF x, y, z, w
  <2>2. <<x, y, z, w>> \in Seq(M) /\ Range(<<x, y, z, w>>) = {x, y, z, w}
    BY <1>6, <2>1
  <2> QED BY <2>2 DEF x, y, z, w
<1>13. g \in Seq(M) /\ Range(g) = opt("subject.achievement.category", p.programCategory)
  <2>1. <<"subject.achievement.category", p.programCategory>> \in M
    BY <1>3, LeafValues DEF OptionalPaths, RequiredPaths
  <2> QED BY <2>1, OptionalLeaf
<1>14. h \in Seq(M) /\ Range(h) = opt("subject.achievement.programId", p.programID)
  <2>1. <<"subject.achievement.programId", p.programID>> \in M
    BY <1>3, LeafValues DEF OptionalPaths, RequiredPaths
  <2> QED BY <2>1, OptionalLeaf
<1>15. /\ k \in Seq(M)
       /\ Range(k) = {<<"subject.achievement.image", img>>, <<"didFallback", "contract">>}
  <2>1. <<"subject.achievement.image", img>> \in M /\ <<"didFallback", "contract">> \in M
    BY <1>3, <1>2, LeafValues DEF OptionalPaths, RequiredPaths
  <2> QED BY <1>5, <2>1
<1>16. f = <<<<"subject.achievement.id", aid>>,
                  <<"subject.achievement.name", p.achievementName>>,
                  <<"subject.achievement.description", p.achievementDesc>>,
                  <<"subject.achievement.criteria", p.criteria>>>>
  OBVIOUS
<1>17. /\ Body(p) \in Seq(M)
       /\ Range(Body(p)) = Range(a) \cup Range(b) \cup Range(c) \cup Range(d) \cup Range(e) \cup Range(f)
                              \cup Range(g) \cup Range(h) \cup Range(k)
  <2> HIDE DEF a, b, c, d, e, f, g, h, k
  <2>1. ASSUME NEW s \in Seq(M), NEW t \in Seq(M)
        PROVE  s \o t \in Seq(M) /\ Range(s \o t) = Range(s) \cup Range(t)
    BY ConcatProperties, RangeConcat
  <2>2. a \o b \in Seq(M) /\ Range(a \o b) = Range(a) \cup Range(b)
    BY <1>7, <1>8, <2>1
  <2>3. a \o b \o c \in Seq(M) /\ Range(a \o b \o c) = Range(a) \cup Range(b) \cup Range(c)
    BY <1>9, <2>1, <2>2
  <2>4. a \o b \o c \o d \in Seq(M)
        /\ Range(a \o b \o c \o d) = Range(a) \cup Range(b) \cup Range(c) \cup Range(d)
    BY <1>10, <2>1, <2>3
  <2>5. a \o b \o c \o d \o e \in Seq(M)
        /\ Range(a \o b \o c \o d \o e) = Range(a) \cup Range(b) \cup Range(c) \cup Range(d) \cup Range(e)
    BY <1>11, <2>1, <2>4
  <2> DEFINE l == a \o b \o c \o d \o e
             R == Range(a) \cup Range(b) \cup Range(c) \cup Range(d) \cup Range(e)
  <2>6. l \in Seq(M) /\ Range(l) = R
    BY <2>5
  <2>7. Body(p) = l \o f \o g \o h \o k
    BY <1>1
  <2> HIDE DEF l, R
  <2>8. l \o f \in Seq(M) /\ Range(l \o f) = R \cup Range(f)
    BY <1>12, <2>1, <2>6
  <2>9. l \o f \o g \in Seq(M) /\ Range(l \o f \o g) = R \cup Range(f) \cup Range(g)
    BY <1>13, <2>1, <2>8
  <2>10. /\ l \o f \o g \o h \in Seq(M)
         /\ Range(l \o f \o g \o h) = R \cup Range(f) \cup Range(g) \cup Range(h)
    BY <1>14, <2>1, <2>9
  <2>11. /\ l \o f \o g \o h \o k \in Seq(M)
         /\ Range(l \o f \o g \o h \o k) = R \cup Range(f) \cup Range(g) \cup Range(h) \cup Range(k)
    BY <1>15, <2>1, <2>10
  <2> QED BY <2>7, <2>11 DEF R
<1> DEFINE L(q) == <<q, Leaf(p)[q]>>
           o(q) == IF Leaf(p)[q] = "" THEN {} ELSE {L(q)}
<1>18. /\ Range(a) = {L("id"), L("issuer.id"), L("issuer.name"), L("validFrom")}
       /\ Range(b) = o("subject.id") /\ Range(c) = {L("subject.name")}
       /\ Range(d) = o("subject.identifier") /\ Range(e) = o("subject.source")
       /\ Range(f) = {L("subject.achievement.id"), L("subject.achievement.name"),
                      L("subject.achievement.description"), L("subject.achievement.criteria")}
       /\ Range(g) = o("subject.achievement.category") /\ Range(h) = o("subject.achievement.programId")
       /\ Range(k) = {L("subject.achievement.image"), L("didFallback")}
  <2> HIDE DEF a, b, c, d, e, f, g, h, k
  <2> QED BY <1>7, <1>8, <1>9, <1>10, <1>11, <1>12, <1>13, <1>14, <1>15, <1>2, LeafValues
<1>19. Range(Body(p)) = {L(q) : q \in Given(p)}
  <2> HIDE DEF a, b, c, d, e, f, g, h, k
  <2> DEFINE B == Range(Body(p))
             E == {q \in OptionalPaths : Leaf(p)[q] # ""}
  <2>1. B = {L("id"), L("issuer.id"), L("issuer.name"), L("validFrom"), L("subject.name"),
             L("subject.achievement.id"), L("subject.achievement.name"),
             L("subject.achievement.description"), L("subject.achievement.criteria"),
             L("subject.achievement.image"), L("didFallback")}
            \cup (o("subject.id") \cup o("subject.identifier") \cup o("subject.source")
                  \cup o("subject.achievement.category") \cup o("subject.achievement.programId"))
    <3> HIDE DEF L, o
    <3> QED BY <1>17, <1>18
  <2>2. {L(q) : q \in RequiredPaths} = {L("id"), L("issuer.id"), L("issuer.name"), L("validFrom"), L("subject.name"),
             L("subject.achievement.id"), L("subject.achievement.name"),
             L("subject.achievement.description"), L("subject.achievement.criteria"),
             L("subject.achievement.image"), L("didFallback")}
    <3> HIDE DEF L
    <3> QED BY DEF RequiredPaths
  <2>3. {L(q) : q \in E} = o("subject.id") \cup o("subject.identifier") \cup o("subject.source")
                  \cup o("subject.achievement.category") \cup o("subject.achievement.programId")
    <3> HIDE DEF L
    <3>1. ASSUME NEW q \in E PROVE L(q) \in o("subject.id") \cup o("subject.identifier") \cup o("subject.source")
                  \cup o("subject.achievement.category") \cup o("subject.achievement.programId")
      BY <3>1 DEF OptionalPaths
    <3>2. ASSUME NEW q \in OptionalPaths, NEW x \in o(q) PROVE q \in E /\ x = L(q)
      <4>1. CASE Leaf(p)[q] = ""
        BY <3>2, <4>1
      <4>2. CASE Leaf(p)[q] # ""
        BY <3>2, <4>2
      <4> QED BY <4>1, <4>2
    <3>3. /\ "subject.id" \in OptionalPaths /\ "subject.identifier" \in OptionalPaths
          /\ "subject.source" \in OptionalPaths /\ "subject.achievement.category" \in OptionalPaths
          /\ "subject.achievement.programId" \in OptionalPaths
      BY DEF OptionalPaths
    <3> HIDE DEF E, o
    <3> QED BY <3>1, <3>2, <3>3
  <2>4. Given(p) = RequiredPaths \cup E
    BY DEF Given
  <2> HIDE DEF B, E, L, o
  <2>5. B = {L(q) : q \in RequiredPaths} \cup {L(q) : q \in E}
    BY <2>1, <2>2, <2>3
  <2>6. B = {L(q) : q \in Given(p)}
    BY <2>4, <2>5
  <2> QED BY <2>6 DEF B
<1> QED BY <1>17, <1>19 DEF M

LEMMA BodyOf ==
  ASSUME NEW p
  PROVE  /\ Spells(Body(p), Content(p)) /\ Parse(Body(p)) = Content(p)
         /\ Content(p) = [q \in DOMAIN Content(p) |-> Content(p)[q]]
         /\ DOMAIN Content(p) = Given(p) /\ Given(p) \subseteq Paths \ ProofPaths
         /\ canonicalJSON(Body(p)) = Render(Content(p), SortedOrder)
<1> DEFINE c == Content(p)
<1>1. /\ c = [q \in DOMAIN c |-> c[q]] /\ DOMAIN c = Given(p)
      /\ \A q \in Given(p) : c[q] = Leaf(p)[q]
  BY DEF Content
<1> HIDE DEF c
<1>2. Range(Body(p)) = {<<q, c[q]>> : q \in DOMAIN c}
  BY <1>1, BodyLeaves
<1>3. Spells(Body(p), c)
  BY <1>1, <1>2, BodyLeaves, SpellsBy
<1>4. Parse(Body(p)) = c
  BY <1>3, ParseOf
<1>5. OptionalPaths \cup RequiredPaths \subseteq Paths \ ProofPaths
  BY OrdersNamePaths DEF PathNames, ProofPaths, OptionalPaths, RequiredPaths
<1>6. Given(p) \subseteq Paths \ ProofPaths
  BY <1>5 DEF Given
<1> QED BY <1>1, <1>3, <1>4, <1>6 DEF c, canonicalJSON

\* The credential: the content and the proof.
Whole(p, bytes) ==
    [q \in Given(p) \cup ProofPaths |->
        CASE q = "proof.verificationMethod" -> KeyID
          [] q = "proof.created" -> p.now
          [] q = "proof.proofValue" -> Multibase(bytes)
          [] OTHER -> Leaf(p)[q]]

LEMMA WholeValues ==
  ASSUME NEW p, NEW bytes
  PROVE  /\ Whole(p, bytes) = [q \in DOMAIN Whole(p, bytes) |-> Whole(p, bytes)[q]]
         /\ DOMAIN Whole(p, bytes) = Given(p) \cup ProofPaths
         /\ Whole(p, bytes)["proof.verificationMethod"] = KeyID
         /\ Whole(p, bytes)["proof.created"] = p.now
         /\ Whole(p, bytes)["proof.proofValue"] = Multibase(bytes)
         /\ \A q \in Given(p) : Whole(p, bytes)[q] = Leaf(p)[q]
<1> DEFINE w == Whole(p, bytes)
<1>1. /\ "proof.verificationMethod" \in ProofPaths /\ "proof.created" \in ProofPaths
      /\ "proof.proofValue" \in ProofPaths
  BY DEF ProofPaths
<1>2. DOMAIN w = Given(p) \cup ProofPaths /\ w = [q \in DOMAIN w |-> w[q]]
  BY DEF Whole
<1>3. /\ w["proof.verificationMethod"] = KeyID /\ w["proof.created"] = p.now
      /\ w["proof.proofValue"] = Multibase(bytes)
  BY <1>1 DEF Whole
<1>4. ASSUME NEW q \in Given(p) PROVE w[q] = Leaf(p)[q]
  <2>1. q \notin ProofPaths
    BY BodyOf
  <2>2. q # "proof.verificationMethod" /\ q # "proof.created" /\ q # "proof.proofValue"
    BY <1>1, <2>1
  <2> QED BY <2>2 DEF Whole
<1> QED BY <1>2, <1>3, <1>4

LEMMA BuildOf ==
  ASSUME NEW p, NEW bytes \in Seq(0..255)
  PROVE  /\ BuildCredential(p, bytes) = Whole(p, bytes)
         /\ IsDoc(Whole(p, bytes))
         /\ [q \in DOMAIN Whole(p, bytes) \ ProofPaths |-> Whole(p, bytes)[q]] = Content(p)
<1> DEFINE w == Whole(p, bytes)
           l == <<"proof.verificationMethod", KeyID>>
           m == <<"proof.created", p.now>>
           n == <<"proof.proofValue", Multibase(bytes)>>
           proof == <<l, m, n>>
           T == Leaves(p) \cup {l, m, n}
<1>1. /\ w = [q \in DOMAIN w |-> w[q]] /\ DOMAIN w = Given(p) \cup ProofPaths
      /\ w["proof.verificationMethod"] = KeyID
      /\ w["proof.created"] = p.now
      /\ w["proof.proofValue"] = Multibase(bytes)
      /\ \A q \in Given(p) : w[q] = Leaf(p)[q]
  BY WholeValues
<1>2. BuildCredential(p, bytes) = Parse(Body(p) \o proof)
  BY DEF BuildCredential
<1>3. {<<q, w[q]>> : q \in ProofPaths} = {l, m, n}
  BY <1>1 DEF ProofPaths
<1> HIDE DEF w, l, m, n
<1>4. proof \in Seq(T) /\ Range(proof) = {l, m, n}
  <2>1. proof \in Seq(T)
    OBVIOUS
  <2>2. Range(proof) = {l, m, n}
    BY DEF Range
  <2> QED BY <2>1, <2>2
<1>5. Body(p) \in Seq(T) /\ Range(Body(p)) = {<<q, w[q]>> : q \in Given(p)}
  <2>1. Leaves(p) \subseteq T
    OBVIOUS
  <2> HIDE DEF T
  <2>2. Body(p) \in Seq(T)
    BY <2>1, BodyLeaves, SeqMonotonic
  <2> QED BY <1>1, <2>2, BodyLeaves
<1> HIDE DEF T, proof
<1>6. /\ Body(p) \o proof \in Seq(T)
      /\ Range(Body(p) \o proof) = {<<q, w[q]>> : q \in Given(p)} \cup {l, m, n}
  BY <1>4, <1>5, ConcatProperties, RangeConcat
<1>7. Range(Body(p) \o proof) = {<<q, w[q]>> : q \in DOMAIN w}
  BY <1>1, <1>3, <1>6
<1>8. Spells(Body(p) \o proof, w)
  <2> DEFINE text == Body(p) \o proof
  <2>1. /\ text \in Seq(T) /\ Range(text) = {<<q, w[q]>> : q \in DOMAIN w}
        /\ w = [q \in DOMAIN w |-> w[q]]
    BY <1>1, <1>6, <1>7
  <2> HIDE DEF text
  <2>2. Spells(text, w)
    BY <2>1, SpellsBy
  <2> QED BY <2>2 DEF text
<1>9. BuildCredential(p, bytes) = w
  BY <1>2, <1>8, ParseOf
<1>10. DOMAIN w \subseteq Paths /\ DOMAIN w \ ProofPaths = Given(p)
  <2>1. ProofPaths \subseteq Paths
    BY OrdersNamePaths DEF PathNames, ProofPaths
  <2> QED BY <1>1, <2>1, BodyOf
<1>11. Multibase(bytes) \in ProofValues
  <2>1. base58Encode(bytes) \in Seq(0..57) /\ 0..57 \subseteq 0..59
    BY EncodingOf
  <2>2. base58Encode(bytes) \in Seq(0..59)
    <3> DEFINE A == 0..57
               B == 0..59
    <3>1. base58Encode(bytes) \in Seq(A) /\ A \subseteq B
      BY <2>1
    <3> HIDE DEF A, B
    <3>2. base58Encode(bytes) \in Seq(B)
      BY <3>1, SeqMonotonic
    <3> QED BY <3>2 DEF B
  <2> QED BY <2>2 DEF Multibase, ProofValues
<1>12. IsDoc(w)
  BY <1>1, <1>10, <1>11 DEF IsDoc
<1>13. [q \in DOMAIN w \ ProofPaths |-> w[q]] = Content(p)
  BY <1>1, <1>10 DEF Content
<1> QED BY <1>9, <1>12, <1>13 DEF w

\* What the verifier signs over is what was signed.
LEMMA CanonicalOf ==
  ASSUME NEW d, IsDoc(d)
  PROVE  canonicalize(d) = Render([q \in DOMAIN d \ ProofPaths |-> d[q]], SortedOrder)
<1> DEFINE c == [q \in DOMAIN d \ ProofPaths |-> d[q]]
<1>1. DOMAIN c \subseteq Paths /\ c = [q \in DOMAIN c |-> c[q]]
  BY DEF IsDoc
<1>2. canonicalize(d) = Render(Parse(Render(c, SortedOrder)), SortedOrder)
  BY DEF canonicalize, canonicalJSON
<1> HIDE DEF c
<1>3. canonicalize(d) = Render(c, SortedOrder)
  BY <1>1, <1>2, Written
<1> QED BY <1>3 DEF c

\* The signature of a credential covers its content.
LEMMA SignedContent ==
  ASSUME NEW d, IsDoc(d), NEW p, canonicalize(d) = canonicalJSON(Body(p))
  PROVE  DOMAIN d \ ProofPaths = Given(p) /\ \A q \in Given(p) : d[q] = Leaf(p)[q]
<1> DEFINE c == [q \in DOMAIN d \ ProofPaths |-> d[q]]
<1>1. DOMAIN c \subseteq Paths /\ c = [q \in DOMAIN c |-> c[q]]
      /\ DOMAIN c = DOMAIN d \ ProofPaths /\ \A q \in DOMAIN c : c[q] = d[q]
  BY DEF IsDoc
<1>2. Render(c, SortedOrder) = Render(Content(p), SortedOrder)
  BY CanonicalOf, BodyOf
<1> HIDE DEF c
<1>3. Parse(Render(c, SortedOrder)) = c /\ Parse(Render(Content(p), SortedOrder)) = Content(p)
  BY <1>1, BodyOf, Written
<1>4. c = Content(p)
  BY <1>2, <1>3
<1>5. \A q \in Given(p) : Content(p)[q] = Leaf(p)[q]
  BY DEF Content
<1> QED BY <1>1, <1>4, <1>5, BodyOf

-------------------------------------------------------------------------------
(* The inductive invariant: every row is the credential of some            *)
(* parameters that were signed, every signature is the one of a row, and   *)
(* whatever a holder has can be read.                                      *)

Made(row, p, bytes) ==
    /\ row.credentialJSON = Render(Whole(p, bytes), StoredOrder)
    /\ row.recipientName = p.recipientName
    /\ row.recipientDID = p.recipientDID
    /\ row.asked = p.achievementID

RowsAreFew == \E S : badges \in Seq(S) /\ Len(badges) =< 2

RowsAreSigned ==
    \A i \in DOMAIN badges :
        /\ badges[i].key \in Keys
        /\ \E p : \E bytes \in Signatures :
             Made(badges[i], p, bytes) /\ Signed(p, badges[i].key, bytes) \in signatures

SignaturesAreOfRows ==
    \A s \in signatures : \E i \in DOMAIN badges : \E p : \E bytes \in Signatures :
        Made(badges[i], p, bytes) /\ s = Signed(p, badges[i].key, bytes)

HolderReads ==
    /\ \E t, r, a, o : holder = [text |-> t, row |-> r, altered |-> a, route |-> o]
    /\ holder.altered \in BOOLEAN
    /\ holder.row # 0 => holder.row \in DOMAIN badges
    /\ holder.row # 0 => \E d :
         /\ IsDoc(d)
         /\ Spells(holder.text, d)
         /\ ~holder.altered => d = Parse(badges[holder.row].credentialJSON)

PlainUUIDIsKept ==
    1 \in DOMAIN badges /\ badges[1].asked = "uuid" => badges[1].achievementID = "uuid"

DocInv ==
    RowsAreFew /\ RowsAreSigned /\ SignaturesAreOfRows /\ HolderReads /\ PlainUUIDIsKept
    /\ ReissueKeepsContent

LEMMA RowReads ==
  ASSUME NEW row, NEW p, NEW bytes \in Signatures, Made(row, p, bytes)
  PROVE  /\ Parse(row.credentialJSON) = Whole(p, bytes)
         /\ Spells(row.credentialJSON, Whole(p, bytes))
         /\ IsDoc(Whole(p, bytes))
<1>1. bytes \in Seq(0..255)
  BY DocumentsAssumption
<1>2. IsDoc(Whole(p, bytes))
  BY <1>1, BuildOf
<1> DEFINE w == Whole(p, bytes)
<1>3. w = [q \in DOMAIN w |-> w[q]] /\ DOMAIN w \subseteq Paths
  BY <1>2 DEF IsDoc
<1> HIDE DEF w
<1>4. Spells(Render(w, StoredOrder), w) /\ Parse(Render(w, StoredOrder)) = w
  BY <1>3, Written
<1> QED BY <1>2, <1>4 DEF Made, w

\* A path that is not given reads as the empty text, which is why it is not given.
LEMMA FieldOf ==
  ASSUME NEW p, NEW bytes, NEW q \in OptionalPaths \cup RequiredPaths
  PROVE  Field(Whole(p, bytes), q) = Leaf(p)[q]
<1>1. q \notin ProofPaths
  BY OrdersNamePaths DEF PathNames, ProofPaths, OptionalPaths, RequiredPaths
<1>2. CASE q \in Given(p)
  BY <1>2, WholeValues DEF Field
<1>3. CASE q \notin Given(p)
  <2>1. q \in OptionalPaths /\ Leaf(p)[q] = ""
    BY <1>3 DEF Given
  <2>2. q \notin DOMAIN Whole(p, bytes)
    BY <1>1, <1>3, WholeValues
  <2> QED BY <2>1, <2>2 DEF Field
<1> QED BY <1>2, <1>3

\* What the second credential says when its parameters were read from the first.
LEMMA ReissuedContent ==
  ASSUME NEW p, NEW bytes, NEW r, NEW other,
         r.recipientName = p.recipientName, r.recipientDID = p.recipientDID,
         r.universityCode = Field(Whole(p, bytes), "subject.source"),
         r.studentID = Field(Whole(p, bytes), "subject.identifier"),
         r.achievementName = Field(Whole(p, bytes), "subject.achievement.name"),
         r.achievementDesc = Field(Whole(p, bytes), "subject.achievement.description"),
         r.criteria = Field(Whole(p, bytes), "subject.achievement.criteria"),
         r.programCategory = Field(Whole(p, bytes), "subject.achievement.category"),
         r.programID = Field(Whole(p, bytes), "subject.achievement.programId"),
         p.achievementID = "uuid" => r.achievementID = "uuid"
  PROVE  /\ DOMAIN Whole(p, bytes) = DOMAIN Whole(r, other)
         /\ \A q \in DOMAIN Whole(p, bytes)
                  \ ({"id", "validFrom", "subject.achievement.image"} \cup ProofPaths) :
              \/ Whole(p, bytes)[q] = Whole(r, other)[q]
              \/ q = "subject.achievement.id" /\ p.achievementID # "uuid"
<1>1. /\ r.universityCode = p.universityCode /\ r.studentID = p.studentID
      /\ r.achievementName = p.achievementName /\ r.achievementDesc = p.achievementDesc
      /\ r.criteria = p.criteria /\ r.programCategory = p.programCategory /\ r.programID = p.programID
  <2>1. \A q \in OptionalPaths \cup RequiredPaths : Field(Whole(p, bytes), q) = Leaf(p)[q]
    BY FieldOf
  <2>2. /\ Field(Whole(p, bytes), "subject.source") = p.universityCode
        /\ Field(Whole(p, bytes), "subject.identifier") = p.studentID
        /\ Field(Whole(p, bytes), "subject.achievement.name") = p.achievementName
        /\ Field(Whole(p, bytes), "subject.achievement.description") = p.achievementDesc
    BY <2>1, LeafValues DEF OptionalPaths, RequiredPaths
  <2>3. /\ Field(Whole(p, bytes), "subject.achievement.criteria") = p.criteria
        /\ Field(Whole(p, bytes), "subject.achievement.category") = p.programCategory
        /\ Field(Whole(p, bytes), "subject.achievement.programId") = p.programID
    BY <2>1, LeafValues DEF OptionalPaths, RequiredPaths
  <2> QED BY <2>2, <2>3
<1>2. \A q \in OptionalPaths : Leaf(p)[q] = Leaf(r)[q]
  <2>1. /\ Leaf(p)["subject.id"] = Leaf(r)["subject.id"]
        /\ Leaf(p)["subject.identifier"] = Leaf(r)["subject.identifier"]
        /\ Leaf(p)["subject.source"] = Leaf(r)["subject.source"]
        /\ Leaf(p)["subject.achievement.category"] = Leaf(r)["subject.achievement.category"]
        /\ Leaf(p)["subject.achievement.programId"] = Leaf(r)["subject.achievement.programId"]
    BY <1>1, LeafValues
  <2> QED BY <2>1 DEF OptionalPaths
<1>3. Given(p) = Given(r)
  BY <1>2 DEF Given
<1>4. \A q \in RequiredPaths \ {"id", "validFrom", "subject.achievement.image", "subject.achievement.id"} :
         Leaf(p)[q] = Leaf(r)[q]
  <2>1. /\ Leaf(p)["issuer.id"] = Leaf(r)["issuer.id"]
        /\ Leaf(p)["issuer.name"] = Leaf(r)["issuer.name"]
        /\ Leaf(p)["subject.name"] = Leaf(r)["subject.name"]
        /\ Leaf(p)["didFallback"] = Leaf(r)["didFallback"]
    BY LeafValues
  <2>2. /\ Leaf(p)["subject.achievement.name"] = Leaf(r)["subject.achievement.name"]
        /\ Leaf(p)["subject.achievement.description"] = Leaf(r)["subject.achievement.description"]
        /\ Leaf(p)["subject.achievement.criteria"] = Leaf(r)["subject.achievement.criteria"]
    BY <1>1, LeafValues
  <2> QED BY <2>1, <2>2 DEF RequiredPaths
<1>5. p.achievementID = "uuid" => Leaf(p)["subject.achievement.id"] = Leaf(r)["subject.achievement.id"]
  BY LeafValues
<1>6. /\ DOMAIN Whole(p, bytes) = Given(p) \cup ProofPaths
      /\ DOMAIN Whole(r, other) = Given(r) \cup ProofPaths
      /\ \A q \in Given(p) : Whole(p, bytes)[q] = Leaf(p)[q] /\ Whole(r, other)[q] = Leaf(r)[q]
  <2>1. /\ DOMAIN Whole(p, bytes) = Given(p) \cup ProofPaths
        /\ DOMAIN Whole(r, other) = Given(r) \cup ProofPaths
    BY WholeValues
  <2>2. \A q \in Given(p) : Whole(p, bytes)[q] = Leaf(p)[q]
    BY WholeValues
  <2>3. \A q \in Given(r) : Whole(r, other)[q] = Leaf(r)[q]
    BY WholeValues
  <2> QED BY <1>3, <2>1, <2>2, <2>3
<1>7. ASSUME NEW q \in Given(p), q \notin {"id", "validFrom", "subject.achievement.image"},
             q # "subject.achievement.id" \/ p.achievementID = "uuid"
      PROVE  Leaf(p)[q] = Leaf(r)[q]
  <2>1. q \in OptionalPaths \/ q \in RequiredPaths
    BY DEF Given
  <2>2. CASE q = "subject.achievement.id"
    BY <1>5, <1>7, <2>2
  <2>3. CASE q # "subject.achievement.id"
    BY <1>2, <1>4, <1>7, <2>1, <2>3
  <2> QED BY <2>2, <2>3
<1> QED BY <1>3, <1>6, <1>7

\* A row is added, its signature recorded and its text answered.
LEMMA SaveStep ==
  ASSUME DocInv, NEW p, NEW uuid, NEW key \in Keys, NEW bytes \in Signatures,
         SaveAndAnswer(p, uuid, key, bytes), Len(badges) =< 1,
         Len(badges) = 0 /\ p.achievementID = "uuid" => uuid = "uuid",
         \A row : badges' = Append(badges, row) /\ Len(badges) = 1 /\ Made(row, p, bytes)
                      => ReissueKeepsContent'
  PROVE  DocInv'
<1> DEFINE n == Len(badges)
           w == Whole(p, bytes)
           row == [credentialJSON |-> Render(w, StoredOrder),
                   blockchainHash |-> Render(w, SortedOrder),
                   recipientName |-> p.recipientName, recipientDID |-> p.recipientDID,
                   achievementID |-> uuid, key |-> key, asked |-> p.achievementID]
           s == Signed(p, key, bytes)
<1>1. BuildCredential(p, bytes) = w /\ IsDoc(w)
  BY DocumentsAssumption, BuildOf
<1>2. /\ badges' = Append(badges, row)
      /\ signatures' = signatures \cup {s}
      /\ holder' = [text |-> Render(w, SortedOrder), row |-> n + 1, altered |-> FALSE, route |-> "answer"]
  BY <1>1 DEF SaveAndAnswer
<1>3. /\ Made(row, p, bytes) /\ row.key = key /\ row.achievementID = uuid
      /\ row.asked = p.achievementID
  BY DEF Made
<1> HIDE DEF row, s, w
<1>4. PICK S : badges \in Seq(S) /\ n =< 1 /\ n \in Nat
  BY LenProperties DEF DocInv, RowsAreFew
<1> DEFINE T == S \cup {row}
<1>5. /\ badges \in Seq(T) /\ DOMAIN badges = 1..n
      /\ badges' \in Seq(T) /\ Len(badges') = n + 1
      /\ \A i \in 1..n : badges'[i] = badges[i]
      /\ badges'[n + 1] = row
  <2>1. badges \in Seq(T) /\ DOMAIN badges = 1..n /\ row \in T
    BY <1>4, SeqMonotonic, LenProperties
  <2> HIDE DEF T
  <2> QED BY <1>2, <2>1, AppendProperties
<1> HIDE DEF T
<1>6. DOMAIN badges' = 1..(n + 1)
  BY <1>5, LenProperties
<1>7. RowsAreFew'
  <2>1. Len(badges') =< 2
    BY <1>4, <1>5
  <2> QED BY <1>5, <2>1 DEF RowsAreFew
<1>8. /\ \A i \in 1..n : i \in 1..(n + 1)
      /\ \A i \in 1..(n + 1) : i \in 1..n \/ i = n + 1
      /\ n + 1 \in 1..(n + 1) /\ n + 1 # 0
  BY <1>4
<1>9. RowsAreSigned'
  <2> SUFFICES ASSUME NEW i \in 1..(n + 1)
               PROVE  /\ badges'[i].key \in Keys
                      /\ \E r : \E b \in Signatures :
                           Made(badges'[i], r, b) /\ Signed(r, badges'[i].key, b) \in signatures'
    BY <1>6 DEF RowsAreSigned
  <2>1. CASE i \in 1..n
    <3>1. badges'[i] = badges[i]
      BY <1>5, <2>1
    <3>2. /\ badges[i].key \in Keys
          /\ \E r : \E b \in Signatures :
               Made(badges[i], r, b) /\ Signed(r, badges[i].key, b) \in signatures
      BY <1>5, <2>1 DEF DocInv, RowsAreSigned
    <3> QED BY <1>2, <3>1, <3>2
  <2>2. CASE i = n + 1
    <3>1. badges'[i] = row
      BY <1>5, <2>2
    <3> QED BY <1>2, <1>3, <3>1 DEF s
  <2> QED BY <1>8, <2>1, <2>2
<1>10. SignaturesAreOfRows'
  <2> SUFFICES ASSUME NEW t \in signatures'
               PROVE  \E i \in 1..(n + 1) : \E r : \E b \in Signatures :
                          Made(badges'[i], r, b) /\ t = Signed(r, badges'[i].key, b)
    BY <1>6 DEF SignaturesAreOfRows
  <2>1. CASE t \in signatures
    <3>1. PICK i \in 1..n : \E r : \E b \in Signatures : Made(badges[i], r, b) /\ t = Signed(r, badges[i].key, b)
      BY <1>5, <2>1 DEF DocInv, SignaturesAreOfRows
    <3>2. badges'[i] = badges[i] /\ i \in 1..(n + 1)
      BY <1>5, <1>8
    <3> QED BY <3>1, <3>2
  <2>2. CASE t = s
    <3>1. badges'[n + 1] = row /\ n + 1 \in 1..(n + 1)
      BY <1>5, <1>8
    <3>2. Made(badges'[n + 1], p, bytes) /\ t = Signed(p, badges'[n + 1].key, bytes)
      BY <1>3, <2>2, <3>1 DEF s
    <3> QED BY <3>1, <3>2
  <2> QED BY <1>2, <2>1, <2>2
<1>11. HolderReads'
  <2>1. /\ holder'.row = n + 1 /\ holder'.text = Render(w, SortedOrder) /\ holder'.altered = FALSE
        /\ \E t, r, a, o : holder' = [text |-> t, row |-> r, altered |-> a, route |-> o]
    BY <1>2
  <2>2. n + 1 \in DOMAIN badges'
    BY <1>6, <1>8
  <2>3. Spells(Render(w, SortedOrder), w)
    BY <1>1, Written DEF IsDoc
  <2>4. w = Parse(row.credentialJSON)
    BY <1>3, RowReads DEF w
  <2>5. w = Parse(badges'[holder'.row].credentialJSON)
    BY <1>5, <2>1, <2>4
  <2> HIDE DEF n
  <2> QED BY <1>1, <2>1, <2>2, <2>3, <2>5 DEF HolderReads
<1>12. PlainUUIDIsKept'
  <2>1. CASE n = 0
    <3>1. badges'[1] = row
      BY <1>5, <2>1
    <3> QED BY <1>3, <2>1, <3>1 DEF PlainUUIDIsKept
  <2>2. CASE n = 1
    <3>1. badges'[1] = badges[1] /\ 1 \in DOMAIN badges
      BY <1>5, <2>2
    <3> QED BY <3>1 DEF DocInv, PlainUUIDIsKept
  <2>3. n = 0 \/ n = 1
    <3>1. n =< 1 /\ n \in Nat
      BY <1>4
    <3> HIDE DEF n
    <3> QED BY <3>1
  <2> QED BY <2>1, <2>2, <2>3
<1>13. ReissueKeepsContent'
  <2>1. CASE n = 0
    <3>1. Len(badges') # 2
      BY <1>5, <2>1
    <3> QED BY <3>1 DEF ReissueKeepsContent
  <2>2. CASE n = 1
    BY <1>2, <1>3, <2>2
  <2>3. n = 0 \/ n = 1
    <3>1. n =< 1 /\ n \in Nat
      BY <1>4
    <3> HIDE DEF n
    <3> QED BY <3>1
  <2> QED BY <2>1, <2>2, <2>3
<1> QED BY <1>7, <1>9, <1>10, <1>11, <1>12, <1>13 DEF DocInv

-------------------------------------------------------------------------------
(* The steps.                                                              *)

LEMMA IssueStep ==
  ASSUME DocInv, NEW key \in Keys, NEW bytes \in Signatures, IssueBadge(key, bytes)
  PROVE  DocInv'
<1>1. Len(badges) =< 1 /\ Len(badges) # 1
  <2>1. badges = <<>>
    BY DEF IssueBadge
  <2> QED BY <2>1
<1>2. PICK achievementID \in AchievementIDs, studentID \in {"", "s1"},
           programID \in {"", "p1"}, image \in Images :
        SaveAndAnswer(
             Params(1, achievementID, studentID, programID, image,
                    IF studentID # "" THEN "users:s1" ELSE "users:c1"),
             ParsedUUID(achievementID), key, bytes)
  BY DEF IssueBadge
<1> DEFINE p == Params(1, achievementID, studentID, programID, image,
                       IF studentID # "" THEN "users:s1" ELSE "users:c1")
<1>3. p.achievementID = achievementID
  BY DEF Params
<1>4. p.achievementID = "uuid" => ParsedUUID(achievementID) = "uuid"
  BY <1>3 DEF ParsedUUID
<1> HIDE DEF p
<1>5. SaveAndAnswer(p, ParsedUUID(achievementID), key, bytes)
  BY <1>2 DEF p
<1> DEFINE uuid == ParsedUUID(achievementID)
<1> HIDE DEF uuid
<1>6. SaveAndAnswer(p, uuid, key, bytes) /\ (p.achievementID = "uuid" => uuid = "uuid")
  BY <1>4, <1>5 DEF uuid
<1> QED BY <1>1, <1>6, SaveStep

LEMMA ReissueStep ==
  ASSUME DocInv, NEW key \in Keys, NEW bytes \in Signatures, NEW image,
         ReissueBadge(key, bytes, image)
  PROVE  DocInv'
<1> DEFINE first == badges[1]
           doc == Parse(first.credentialJSON)
           info == extractAchievementInfo(doc)
           cps == extractCPSIdentity(doc)
           known == IF first.achievementID = None THEN "" ELSE first.achievementID
           r == [Params(2, known, cps.studentID, info.programID, image, first.recipientDID)
                   EXCEPT !.recipientName = first.recipientName,
                          !.universityCode = cps.universityCode,
                          !.achievementName = info.achievementName,
                          !.achievementDesc = info.achievementDesc,
                          !.criteria = info.criteria,
                          !.programCategory = info.programCategory]
           uuid == first.achievementID
<1>1. Len(badges) = 1 /\ SaveAndAnswer(r, uuid, key, bytes)
  BY DEF ReissueBadge
<1>2. /\ cps.universityCode = Field(doc, "subject.source")
      /\ cps.studentID = Field(doc, "subject.identifier")
      /\ info.achievementName = Field(doc, "subject.achievement.name")
      /\ info.achievementDesc = Field(doc, "subject.achievement.description")
      /\ info.criteria = Field(doc, "subject.achievement.criteria")
      /\ info.programCategory = Field(doc, "subject.achievement.category")
      /\ info.programID = Field(doc, "subject.achievement.programId")
  BY DEF extractAchievementInfo, extractCPSIdentity
<1> HIDE DEF info, cps, doc, known
<1>3. /\ r.recipientName = first.recipientName /\ r.recipientDID = first.recipientDID
      /\ r.universityCode = cps.universityCode /\ r.studentID = cps.studentID
      /\ r.achievementName = info.achievementName /\ r.achievementDesc = info.achievementDesc
      /\ r.criteria = info.criteria /\ r.programCategory = info.programCategory
      /\ r.programID = info.programID /\ r.achievementID = known
  BY DEF Params
<1> HIDE DEF r, uuid
<1>4. 1 \in DOMAIN badges
  <2>1. PICK S : badges \in Seq(S)
    BY DEF DocInv, RowsAreFew
  <2> QED BY <1>1, <2>1, LenProperties
<1>5. PICK p : \E b \in Signatures : Made(first, p, b)
  BY <1>4 DEF DocInv, RowsAreSigned
<1>6. PICK b \in Signatures : Made(first, p, b)
  BY <1>5
<1>7. /\ doc = Whole(p, b) /\ first.recipientName = p.recipientName
      /\ first.recipientDID = p.recipientDID /\ first.asked = p.achievementID
  BY <1>6, RowReads DEF Made, doc
<1>8. p.achievementID = "uuid" => r.achievementID = "uuid"
  <2>1. None # "uuid"
    BY DocumentsAssumption DEF AchievementIDs
  <2>2. first.asked = "uuid" => first.achievementID = "uuid"
    BY <1>4 DEF DocInv, PlainUUIDIsKept
  <2> QED BY <1>3, <1>7, <2>1, <2>2 DEF known
<1>9. ASSUME NEW row, badges' = Append(badges, row), Made(row, r, bytes)
      PROVE  ReissueKeepsContent'
  <2>1. Len(badges') = 2 /\ badges'[1] = first /\ badges'[2] = row
    <3>1. PICK S : badges \in Seq(S)
      BY DEF DocInv, RowsAreFew
    <3> DEFINE T == S \cup {row}
    <3>2. badges \in Seq(T) /\ row \in T
      BY <3>1, SeqMonotonic
    <3> HIDE DEF T
    <3>3. /\ \A i \in 1..Len(badges) : Append(badges, row)[i] = badges[i]
          /\ Append(badges, row)[Len(badges) + 1] = row
          /\ Len(Append(badges, row)) = Len(badges) + 1
      BY <3>2, AppendProperties
    <3> QED BY <1>1, <1>9, <3>3
  <2>2. Parse(row.credentialJSON) = Whole(r, bytes)
    BY <1>9, RowReads
  <2> DEFINE w == Whole(p, b)
             v == Whole(r, bytes)
  <2>3. /\ DOMAIN w = DOMAIN v
        /\ \A q \in DOMAIN w \ ({"id", "validFrom", "subject.achievement.image"} \cup ProofPaths) :
              w[q] = v[q] \/ (q = "subject.achievement.id" /\ p.achievementID # "uuid")
    BY <1>2, <1>3, <1>7, <1>8, ReissuedContent
  <2> HIDE DEF w, v
  <2>4. Parse(badges'[1].credentialJSON) = w /\ Parse(badges'[2].credentialJSON) = v
        /\ badges'[1].asked = p.achievementID
    BY <1>7, <2>1, <2>2 DEF w, v, doc
  <2> QED BY <2>3, <2>4 DEF ReissueKeepsContent
<1>10. Len(badges) =< 1 /\ Len(badges) # 0
  BY <1>1
<1> HIDE DEF first
<1> QED BY <1>1, <1>9, <1>10, SaveStep

LEMMA DownloadStep ==
  ASSUME DocInv, NEW i \in DOMAIN badges, DownloadBadge(i)
  PROVE  DocInv'
<1>1. /\ badges' = badges /\ signatures' = signatures
      /\ holder' = [text |-> badges[i].credentialJSON, row |-> i, altered |-> FALSE, route |-> "download"]
  BY DEF DownloadBadge
<1>2. PICK p : \E b \in Signatures : Made(badges[i], p, b)
  BY DEF DocInv, RowsAreSigned
<1>3. PICK b \in Signatures : Made(badges[i], p, b)
  BY <1>2
<1>4. /\ Parse(badges[i].credentialJSON) = Whole(p, b)
      /\ Spells(badges[i].credentialJSON, Whole(p, b)) /\ IsDoc(Whole(p, b))
  BY <1>3, RowReads
<1>5. HolderReads'
  <2>1. /\ holder'.row = i /\ holder'.text = badges[i].credentialJSON /\ holder'.altered = FALSE
        /\ \E t, n, a, o : holder' = [text |-> t, row |-> n, altered |-> a, route |-> o]
    BY <1>1
  <2> QED BY <1>1, <1>4, <2>1 DEF HolderReads
<1>6. /\ RowsAreFew' /\ RowsAreSigned' /\ SignaturesAreOfRows' /\ PlainUUIDIsKept'
      /\ ReissueKeepsContent'
  BY <1>1 DEF DocInv, RowsAreFew, RowsAreSigned, SignaturesAreOfRows, PlainUUIDIsKept,
              ReissueKeepsContent
<1> QED BY <1>5, <1>6 DEF DocInv

LEMMA ReformatStep ==
  ASSUME DocInv, Reformat
  PROVE  DocInv'
<1>1. /\ badges' = badges /\ signatures' = signatures /\ holder.row # 0 /\ ~holder.altered
      /\ holder' = [holder EXCEPT !.text = Reverse(Render(Parse(holder.text), SortedOrder)),
                                  !.route = "tool"]
  BY DEF Reformat
<1>2. PICK d : /\ IsDoc(d) /\ Spells(holder.text, d)
               /\ d = Parse(badges[holder.row].credentialJSON)
  BY <1>1 DEF DocInv, HolderReads
<1>3. PICK t, n, a, o : holder = [text |-> t, row |-> n, altered |-> a, route |-> o]
  BY DEF DocInv, HolderReads
<1> DEFINE new == Reverse(Render(Parse(holder.text), SortedOrder))
<1>4. Spells(new, d)
  <2>1. Parse(holder.text) = d
    BY <1>2, ParseOf
  <2>2. Spells(Reverse(Render(d, SortedOrder)), d)
    BY <1>2, Written DEF IsDoc
  <2> QED BY <2>1, <2>2
<1> HIDE DEF new
<1>5. holder' = [text |-> new, row |-> n, altered |-> a, route |-> "tool"]
  BY <1>1, <1>3 DEF new
<1>6. /\ holder'.text = new /\ holder'.row = holder.row /\ holder'.altered = holder.altered
      /\ \E u, m, x, y : holder' = [text |-> u, row |-> m, altered |-> x, route |-> y]
  BY <1>3, <1>5
<1>7. holder.altered \in BOOLEAN /\ holder.row \in DOMAIN badges
  BY <1>1 DEF DocInv, HolderReads
<1>8. HolderReads'
  BY <1>1, <1>2, <1>4, <1>6, <1>7 DEF HolderReads
<1>9. /\ RowsAreFew' /\ RowsAreSigned' /\ SignaturesAreOfRows' /\ PlainUUIDIsKept'
      /\ ReissueKeepsContent'
  BY <1>1 DEF DocInv, RowsAreFew, RowsAreSigned, SignaturesAreOfRows, PlainUUIDIsKept,
              ReissueKeepsContent
<1> QED BY <1>8, <1>9 DEF DocInv

\* A forged proof value is a proof value.
LEMMA ForgedType ==
  ASSUME NEW value \in ProofValues, NEW v \in Forged("proof.proofValue", value)
  PROVE  v \in ProofValues
<1> DEFINE D == 0..59
           t == value.text
           n == Len(t)
<1>1. /\ value.prefix \in {"z", "f"} /\ t \in Seq(D)
      /\ value = [prefix |-> value.prefix, text |-> t]
  BY DEF ProofValues
<1> DEFINE Changed == {t, <<0>> \o t, Append(t, NoDigit), Append(t, OffTable), SubSeq(t, 2, n),
                       [i \in DOMAIN t |-> IF i = n THEN (t[i] + 1) % 58 ELSE t[i]]}
           Is(u) == v.prefix \in {"z", "f"} /\ v = [prefix |-> v.prefix, text |-> u]
<1>2. PICK u \in Changed : Is(u)
  <2>1. CASE v = [value EXCEPT !.prefix = "f"]
    BY <1>1, <2>1
  <2>2. CASE v = [value EXCEPT !.text = <<0>> \o t]
    BY <1>1, <2>2
  <2>3. CASE v = [value EXCEPT !.text = Append(t, NoDigit)]
    BY <1>1, <2>3
  <2>4. CASE v = [value EXCEPT !.text = Append(t, OffTable)]
    BY <1>1, <2>4
  <2>5. CASE v = [value EXCEPT !.text = SubSeq(t, 2, n)]
    BY <1>1, <2>5
  <2>6. CASE v = [value EXCEPT !.text = [i \in DOMAIN t |-> IF i = n THEN (t[i] + 1) % 58 ELSE t[i]]]
    BY <1>1, <2>6
  <2> HIDE DEF Changed, Is
  <2> QED BY <2>1, <2>2, <2>3, <2>5, <2>6, <2>4 DEF Forged
<1>3. n \in Nat /\ DOMAIN t = 1..n /\ \A i \in 1..n : t[i] \in D
  <2> HIDE DEF D
  <2> QED BY <1>1, LenProperties, ElementOfSeq
<1> HIDE DEF t, n
<1> SUFFICES u \in Seq(D)
  BY <1>2 DEF ProofValues
<1>4. CASE u = t
  BY <1>1, <1>4
<1>5. CASE u = <<0>> \o t
  <2>1. <<0>> \in Seq(D)
    OBVIOUS
  <2> DEFINE zero == <<0>>
  <2> HIDE DEF D, zero
  <2>2. zero \o t \in Seq(D)
    BY <1>1, <2>1, ConcatProperties DEF zero
  <2> QED BY <1>5, <2>2 DEF zero
<1>6. CASE u \in {Append(t, NoDigit), Append(t, OffTable)}
  <2>1. NoDigit \in D /\ OffTable \in D
    BY DEF NoDigit, OffTable
  <2> HIDE DEF D
  <2>2. Append(t, NoDigit) \in Seq(D) /\ Append(t, OffTable) \in Seq(D)
    BY <1>1, <2>1, AppendProperties
  <2> QED BY <1>6, <2>2
<1>7. CASE u = SubSeq(t, 2, n)
  <2>1. \A i \in 2..n : t[i] \in D
    BY <1>3
  <2> DEFINE two == 2
  <2>2. two \in Int /\ n \in Int /\ \A i \in two..n : t[i] \in D
    BY <1>3, <2>1
  <2> HIDE DEF D, two
  <2>3. SubSeq(t, two, n) \in Seq(D)
    BY <2>2, SubSeqProperties
  <2> QED BY <1>7, <2>3 DEF two
<1>8. CASE u = [i \in DOMAIN t |-> IF i = n THEN (t[i] + 1) % 58 ELSE t[i]]
  <2>1. \A d \in 0..59 : ((d + 1) % 58) \in 0..59
    OBVIOUS
  <2>2. u \in [1..n -> D]
    BY <1>3, <1>8, <2>1
  <2> HIDE DEF D
  <2>3. u \in Seq(D)
    BY <1>3, <2>2, SeqDef
  <2> QED BY <2>3
<1> HIDE DEF D
<1> QED BY <1>2, <1>4, <1>5, <1>6, <1>7, <1>8

LEMMA AlterStep ==
  ASSUME DocInv, Alter
  PROVE  DocInv'
<1>1. badges' = badges /\ signatures' = signatures /\ holder.row # 0 /\ ~holder.altered
  BY DEF Alter
<1>2. PICK d : /\ IsDoc(d) /\ Spells(holder.text, d)
               /\ d = Parse(badges[holder.row].credentialJSON)
  BY <1>1 DEF DocInv, HolderReads
<1>3. PICK t, n, a, o : holder = [text |-> t, row |-> n, altered |-> a, route |-> o]
  BY DEF DocInv, HolderReads
<1>4. Parse(holder.text) = d /\ holder.row \in DOMAIN badges
  BY <1>1, <1>2, ParseOf DEF DocInv, HolderReads
<1>5. "proof.proofValue" \in DOMAIN d /\ d["proof.proofValue"] \in ProofValues
  <2>1. PICK p : \E b \in Signatures : Made(badges[holder.row], p, b)
    BY <1>4 DEF DocInv, RowsAreSigned
  <2>2. PICK b \in Signatures : Made(badges[holder.row], p, b)
    BY <2>1
  <2>3. d = Whole(p, b)
    BY <1>2, <2>2, RowReads
  <2>4. "proof.proofValue" \in DOMAIN d
    BY <2>3, WholeValues DEF ProofPaths
  <2> QED BY <1>2, <2>4 DEF IsDoc
<1>6. PICK new : /\ new = [q \in DOMAIN new |-> new[q]] /\ DOMAIN new \subseteq Paths
                 /\ "proof.proofValue" \in DOMAIN new => new["proof.proofValue"] \in ProofValues
                 /\ holder' = [holder EXCEPT !.altered = TRUE, !.route = "forger",
                                             !.text = Render(new, SortedOrder)]
  <2> DEFINE Good(new) ==
                 /\ new = [q \in DOMAIN new |-> new[q]] /\ DOMAIN new \subseteq Paths
                 /\ "proof.proofValue" \in DOMAIN new => new["proof.proofValue"] \in ProofValues
             Held(new) == holder' = [holder EXCEPT !.altered = TRUE, !.route = "forger",
                                                   !.text = Render(new, SortedOrder)]
             With(doc, path, v) == [p \in DOMAIN doc \cup {path} |-> IF p = path THEN v ELSE doc[p]]
             Less(doc, path) == [p \in DOMAIN doc \ {path} |-> doc[p]]
  <2>1. PICK path \in Paths : \/ \E v \in Forged(path, Field(d, path)) : Held(With(d, path, v))
                              \/ Held(Less(d, path))
    <3> DEFINE doc == Parse(holder.text)
    <3>1. \E path \in Paths : \/ \E v \in Forged(path, Field(doc, path)) : Held(With(doc, path, v))
                              \/ Held(Less(doc, path))
      BY DEF Alter
    <3>2. doc = d
      BY <1>4
    <3> HIDE DEF doc, Held, With, Less
    <3> QED BY <3>1, <3>2
  <2>2. ASSUME NEW v \in Forged(path, Field(d, path)) PROVE Good(With(d, path, v))
    <3>1. path = "proof.proofValue" => v \in ProofValues
      BY <1>5, ForgedType DEF Field
    <3>2. DOMAIN With(d, path, v) = DOMAIN d \cup {path}
          /\ With(d, path, v)[path] = v /\ \A q \in DOMAIN d : q # path => With(d, path, v)[q] = d[q]
      OBVIOUS
    <3>3. With(d, path, v) = [q \in DOMAIN With(d, path, v) |-> With(d, path, v)[q]]
      OBVIOUS
    <3> HIDE DEF With
    <3>4. DOMAIN With(d, path, v) \subseteq Paths
      BY <1>2, <3>2 DEF IsDoc
    <3>5. With(d, path, v)["proof.proofValue"] \in ProofValues
      BY <1>5, <3>1, <3>2
    <3> QED BY <3>3, <3>4, <3>5
  <2>3. Good(Less(d, path))
    <3>1. /\ DOMAIN Less(d, path) = DOMAIN d \ {path}
          /\ \A q \in DOMAIN Less(d, path) : Less(d, path)[q] = d[q]
      OBVIOUS
    <3>2. Less(d, path) = [q \in DOMAIN Less(d, path) |-> Less(d, path)[q]]
      OBVIOUS
    <3> HIDE DEF Less
    <3>3. DOMAIN Less(d, path) \subseteq Paths
      BY <1>2, <3>1 DEF IsDoc
    <3> QED BY <1>5, <3>1, <3>2, <3>3
  <2>4. \E new : Good(new) /\ Held(new)
    <3> HIDE DEF Good, Held, With, Less
    <3> QED BY <2>1, <2>2, <2>3
  <2> QED BY <2>4
<1>7. IsDoc(new) /\ Spells(Render(new, SortedOrder), new)
  BY <1>6, Written DEF IsDoc
<1> DEFINE text == Render(new, SortedOrder)
<1> HIDE DEF text
<1>8. holder' = [text |-> text, row |-> n, altered |-> TRUE, route |-> "forger"]
  BY <1>3, <1>6 DEF text
<1>9. /\ holder'.text = text /\ holder'.row = holder.row /\ holder'.altered = TRUE
      /\ \E u, m, x, y : holder' = [text |-> u, row |-> m, altered |-> x, route |-> y]
  BY <1>3, <1>8
<1>10. HolderReads'
  BY <1>1, <1>4, <1>7, <1>9 DEF HolderReads, text
<1>11. /\ RowsAreFew' /\ RowsAreSigned' /\ SignaturesAreOfRows' /\ PlainUUIDIsKept'
       /\ ReissueKeepsContent'
  BY <1>1 DEF DocInv, RowsAreFew, RowsAreSigned, SignaturesAreOfRows, PlainUUIDIsKept,
              ReissueKeepsContent
<1> QED BY <1>10, <1>11 DEF DocInv

LEMMA DocInvInit ==
  ASSUME Init
  PROVE  DocInv
<1>1. /\ badges = <<>> /\ signatures = {}
      /\ holder = [text |-> <<>>, row |-> 0, altered |-> FALSE, route |-> None]
  BY DEF Init
<1>2. RowsAreFew
  <2>1. badges \in Seq({}) /\ Len(badges) =< 2
    BY <1>1
  <2> QED BY <2>1 DEF RowsAreFew
<1>3. DOMAIN badges = {} /\ Len(badges) # 2
  BY <1>1
<1>4. HolderReads
  <2>1. \E t, r, a, o : holder = [text |-> t, row |-> r, altered |-> a, route |-> o]
    BY <1>1
  <2>2. holder.row = 0 /\ holder.altered \in BOOLEAN
    BY <1>1
  <2> QED BY <2>1, <2>2 DEF HolderReads
<1>5. RowsAreSigned /\ SignaturesAreOfRows /\ PlainUUIDIsKept /\ ReissueKeepsContent
  BY <1>1, <1>3 DEF RowsAreSigned, SignaturesAreOfRows, PlainUUIDIsKept, ReissueKeepsContent
<1> QED BY <1>2, <1>4, <1>5 DEF DocInv

LEMMA DocInvNext ==
  ASSUME DocInv, [Next]_vars
  PROVE  DocInv'
<1>1. ASSUME NEW key \in Keys, NEW bytes \in Signatures, IssueBadge(key, bytes)
      PROVE  DocInv'
  BY <1>1, IssueStep
<1>2. ASSUME NEW key \in Keys, NEW bytes \in Signatures, NEW image \in Images,
             ReissueBadge(key, bytes, image)
      PROVE  DocInv'
  BY <1>2, ReissueStep
<1>3. ASSUME NEW i \in DOMAIN badges, DownloadBadge(i)
      PROVE  DocInv'
  BY <1>3, DownloadStep
<1>4. CASE Reformat
  BY <1>4, ReformatStep
<1>5. CASE Alter
  BY <1>5, AlterStep
<1>6. CASE UNCHANGED vars
  <2>1. badges' = badges /\ signatures' = signatures /\ holder' = holder
    BY <1>6 DEF vars
  <2>2. HolderReads'
    BY <2>1 DEF DocInv, HolderReads
  <2>3. /\ RowsAreFew' /\ RowsAreSigned' /\ SignaturesAreOfRows' /\ PlainUUIDIsKept'
        /\ ReissueKeepsContent'
    BY <2>1 DEF DocInv, RowsAreFew, RowsAreSigned, SignaturesAreOfRows, PlainUUIDIsKept,
                ReissueKeepsContent
  <2> QED BY <2>2, <2>3 DEF DocInv
<1> QED BY <1>1, <1>2, <1>3, <1>4, <1>5, <1>6 DEF Next

LEMMA DocInvariance == Spec => []DocInv
<1>1. Init => DocInv
  BY DocInvInit
<1>2. DocInv /\ [Next]_vars => DocInv'
  BY DocInvNext
<1> QED BY <1>1, <1>2, PTL DEF Spec

-------------------------------------------------------------------------------
(* The theorems.                                                           *)

\* ReissueBadge (handler/credential.go) rebuilds a badge from its columns and
\* from the text of the first one, and loses nothing of it but for what it is
\* meant to replace and the spelling of the achievement's id.
THEOREM DocumentsReissue == Spec => []ReissueKeepsContent
<1>1. DocInv => ReissueKeepsContent
  BY DEF DocInv
<1> QED BY <1>1, DocInvariance, PTL

\* Whatever way the text of an issued credential has taken, the verifier
\* (service/verifier.go) reads from it what the builder (service/credential.go)
\* signed, and from the key document the key it was signed with.
THEOREM DocumentsGenuine == Spec => []GenuineSurvivesTransport
<1>1. ASSUME DocInv, holder.row # 0, ~holder.altered
      PROVE  /\ VerifyCredential(holder.text, badges[holder.row].key).valid
             /\ \A k \in Keys : ~VerifyCredential(holder.text, k).panics
  <2> DEFINE row == badges[holder.row]
             key == row.key
             d == Parse(holder.text)
  <2>1. holder.row \in DOMAIN badges
    BY <1>1 DEF DocInv, HolderReads
  <2>2. /\ key \in Keys
        /\ \E p : \E b \in Signatures : Made(row, p, b) /\ Signed(p, key, b) \in signatures
    BY <1>1, <2>1 DEF DocInv, RowsAreSigned
  <2>3. PICK p : \E b \in Signatures : Made(row, p, b) /\ Signed(p, key, b) \in signatures
    BY <2>2
  <2>4. PICK b \in Signatures : Made(row, p, b) /\ Signed(p, key, b) \in signatures
    BY <2>3
  <2> DEFINE w == Whole(p, b)
  <2>5. d = w
    <3>1. PICK e : Spells(holder.text, e) /\ e = Parse(row.credentialJSON)
      BY <1>1 DEF DocInv, HolderReads
    <3>2. d = e
      BY <3>1, ParseOf
    <3>3. Parse(row.credentialJSON) = w
      BY <2>4, RowReads
    <3> QED BY <3>1, <3>2, <3>3
  <2>6. b \in Seq(0..255) /\ key \in [1..KeySize -> 0..255]
    BY <2>2, DocumentsAssumption
  <2>7. /\ "proof.proofValue" \in DOMAIN w \cap ProofPaths /\ w["proof.proofValue"] = Multibase(b)
        /\ "proof.verificationMethod" \in DOMAIN w /\ w["proof.verificationMethod"] = KeyID
    BY WholeValues DEF ProofPaths
  <2>8. Field(w, "issuer.id") = IssuerDID
    <3>1. "issuer.id" \in RequiredPaths
      BY DEF RequiredPaths
    <3>2. Field(w, "issuer.id") = Leaf(p)["issuer.id"]
      BY <3>1, FieldOf
    <3> QED BY <3>2, LeafValues
  <2>9. extractPublicKey(w, key) = Decoded(key)
    <3>1. Field(w, "proof.verificationMethod") = KeyID
      BY <2>7 DEF Field
    <3>2. DecodePublicKeyMultibase(PublicKeyMultibase(key)) = Decoded(key)
      BY <2>6, KeyRoundTrip
    <3> QED BY <3>1, <3>2 DEF extractPublicKey
  <2>10. decodeMultibaseSignature(w["proof.proofValue"]) = Decoded(b)
    <3>1. decodeMultibaseSignature(Multibase(b)) = base58Decode(base58Encode(b))
      BY DEF decodeMultibaseSignature, Multibase
    <3>2. base58Decode(base58Encode(b)) = Decoded(b)
      BY <2>6, RoundTrip
    <3> QED BY <2>7, <3>1, <3>2
  <2>11. canonicalize(w) = canonicalJSON(Body(p))
    <3>1. IsDoc(w) /\ [q \in DOMAIN w \ ProofPaths |-> w[q]] = Content(p)
      BY <2>6, BuildOf
    <3>2. canonicalize(w) = Render(Content(p), SortedOrder)
      BY <3>1, CanonicalOf
    <3> QED BY <3>2, BodyOf
  <2>12. [key |-> key, message |-> canonicalize(w), bytes |-> b] \in signatures
    BY <2>4, <2>11 DEF Signed
  <2> DEFINE text == holder.text
  <2> HIDE DEF w, key, d
  <2>13. /\ Decoded(key).ok /\ Decoded(key).bytes = key /\ Decoded(b).ok /\ Decoded(b).bytes = b
         /\ Decoded(b).panics = FALSE
    BY DEF Decoded
  <2>14. VerifyCredential(text, key).valid
    BY <2>5, <2>7, <2>8, <2>9, <2>10, <2>12, <2>13 DEF VerifyCredential, d
  <2>15. \A k \in Keys : ~VerifyCredential(text, k).panics
    BY <2>5, <2>10, <2>13 DEF VerifyCredential, d
  <2> QED BY <2>14, <2>15 DEF key
<1>2. DocInv => GenuineSurvivesTransport
  BY <1>1 DEF GenuineSurvivesTransport
<1> QED BY <1>2, DocInvariance, PTL

\* The verifier accepts no text that says anything else than an issued
\* credential, nor another spelling of its signature: the decoder tells any two
\* texts of base58 digits apart.
THEOREM DocumentsAltered == Spec => []AlteredNeverVerifies
<1> DEFINE covered(doc) == DOMAIN doc \ (ProofPaths \ {"proof.proofValue"})
           Same(issued, held) == /\ covered(issued) = covered(held)
                                 /\ \A q \in covered(issued) : issued[q] = held[q]
<1>1. ASSUME DocInv, NEW key \in Keys, holder.row # 0, VerifyCredential(holder.text, key).valid
      PROVE  \E i \in DOMAIN badges : Same(Parse(badges[i].credentialJSON), Parse(holder.text))
  <2>1. PICK d : IsDoc(d) /\ Spells(holder.text, d)
    BY <1>1 DEF DocInv, HolderReads
  <2>2. Parse(holder.text) = d
    BY <2>1, ParseOf
  <2> DEFINE v == d["proof.proofValue"]
             public == extractPublicKey(d, key)
             signature == decodeMultibaseSignature(v)
             s == [key |-> public.bytes, message |-> canonicalize(d), bytes |-> signature.bytes]
  <2>3. "proof.proofValue" \in DOMAIN d /\ signature.ok /\ s \in signatures
    BY <1>1, <2>2 DEF VerifyCredential
  <2>4. PICK i \in DOMAIN badges : \E p : \E b \in Signatures :
                Made(badges[i], p, b) /\ s = Signed(p, badges[i].key, b)
    BY <1>1, <2>3 DEF DocInv, SignaturesAreOfRows
  <2>5. PICK p : \E b \in Signatures : Made(badges[i], p, b) /\ s = Signed(p, badges[i].key, b)
    BY <2>4
  <2>6. PICK b \in Signatures : Made(badges[i], p, b) /\ s = Signed(p, badges[i].key, b)
    BY <2>5
  <2> HIDE DEF public, signature
  <2>7. canonicalize(d) = canonicalJSON(Body(p)) /\ signature.bytes = b
    BY <2>6 DEF Signed
  <2>8. DOMAIN d \ ProofPaths = Given(p) /\ \A q \in Given(p) : d[q] = Leaf(p)[q]
    BY <2>1, <2>7, SignedContent
  <2>9. b \in Seq(0..255)
    BY DocumentsAssumption
  <2>10. v = Multibase(b)
    <3>1. v \in ProofValues
      BY <2>1, <2>3 DEF IsDoc
    <3>2. v.text \in Seq(0..59) /\ v = [prefix |-> v.prefix, text |-> v.text]
      BY <3>1 DEF ProofValues
    <3> HIDE DEF v
    <3>3. v.prefix = "z" /\ signature = base58Decode(v.text)
      BY <2>3 DEF signature, decodeMultibaseSignature, Malformed
    <3> DEFINE t == v.text
               u == base58Encode(b)
    <3>4. base58Decode(t) = Decoded(b)
      <4>1. base58Decode(t).ok => base58Decode(t) = Decoded(base58Decode(t).bytes)
        BY <3>2, DecodingOf
      <4> QED BY <2>3, <2>7, <3>3, <4>1
    <3>5. base58Decode(u) = Decoded(b) /\ u \in Seq(0..59)
      <4>1. base58Decode(u) = Decoded(b) /\ u \in Seq(0..57)
        BY <2>9, RoundTrip
      <4> DEFINE A == 0..57
                 B == 0..59
      <4>2. u \in Seq(A) /\ A \subseteq B
        BY <4>1
      <4> HIDE DEF A, B, u
      <4>3. u \in Seq(B)
        BY <4>2, SeqMonotonic
      <4> QED BY <4>1, <4>3 DEF B
    <3>6. base58Decode(t).ok
      BY <3>4 DEF Decoded
    <3>7. t \in Seq(0..59)
      BY <3>2
    <3> HIDE DEF t, u
    <3>8. t = u
      BY <3>4, <3>5, <3>6, <3>7, DecodesOnce
    <3> QED BY <3>2, <3>3, <3>8 DEF t, u, Multibase
  <2> DEFINE w == Whole(p, b)
  <2>11. Parse(badges[i].credentialJSON) = w
    BY <2>6, RowReads
  <2>12. DOMAIN w = Given(p) \cup ProofPaths /\ w["proof.proofValue"] = Multibase(b)
         /\ \A q \in Given(p) : w[q] = Leaf(p)[q]
    BY WholeValues
  <2>13. Given(p) \cap ProofPaths = {} /\ "proof.proofValue" \in ProofPaths
    BY BodyOf DEF ProofPaths
  <2> HIDE DEF w
  <2>14. /\ covered(w) = Given(p) \cup {"proof.proofValue"}
         /\ covered(d) = Given(p) \cup {"proof.proofValue"}
    <3> HIDE DEF v
    <3> QED BY <2>3, <2>8, <2>12, <2>13
  <2>15. \A q \in Given(p) \cup {"proof.proofValue"} : w[q] = d[q]
    BY <2>8, <2>10, <2>12
  <2>16. Same(w, d)
    <3> HIDE DEF covered
    <3> QED BY <2>14, <2>15
  <2> HIDE DEF Same
  <2> QED BY <2>2, <2>11, <2>16
<1>2. DocInv => AlteredNeverVerifies
  BY <1>1 DEF AlteredNeverVerifies
<1> QED BY <1>2, DocInvariance, PTL

\* What base58Encode (service/signer.go) writes as a proof value is positional
\* notation of the signature, whatever the signature and however long.
THEOREM DocumentsAnyProofValue ==
  Spec => [](\A s \in signatures :
                 /\ NumberOf(Multibase(s.bytes).text, 58) = NumberOf(s.bytes, 256)
                 /\ LeadingZeros(Multibase(s.bytes).text) = LeadingZeros(s.bytes))
<1>1. ASSUME DocInv, NEW s \in signatures
      PROVE  /\ NumberOf(Multibase(s.bytes).text, 58) = NumberOf(s.bytes, 256)
             /\ LeadingZeros(Multibase(s.bytes).text) = LeadingZeros(s.bytes)
  <2>1. PICK i \in DOMAIN badges : \E p : \E b \in Signatures :
                Made(badges[i], p, b) /\ s = Signed(p, badges[i].key, b)
    BY <1>1 DEF DocInv, SignaturesAreOfRows
  <2>2. s.bytes \in Seq(0..255)
    BY <2>1, DocumentsAssumption DEF Signed
  <2>3. Multibase(s.bytes).text = base58Encode(s.bytes)
    BY DEF Multibase
  <2> QED BY <2>2, <2>3, EncodingOf
<1>2. DocInv => \A s \in signatures :
                    /\ NumberOf(Multibase(s.bytes).text, 58) = NumberOf(s.bytes, 256)
                    /\ LeadingZeros(Multibase(s.bytes).text) = LeadingZeros(s.bytes)
  BY <1>1
<1> QED BY <1>2, DocInvariance, PTL

\* The same of the signatures that are short enough for the run.
THEOREM DocumentsProofValue == Spec => []ProofValueIsPositional
<1>1. (\A s \in signatures :
           /\ NumberOf(Multibase(s.bytes).text, 58) = NumberOf(s.bytes, 256)
           /\ LeadingZeros(Multibase(s.bytes).text) = LeadingZeros(s.bytes))
      => ProofValueIsPositional
  BY DEF ProofValueIsPositional
<1> QED BY <1>1, DocumentsAnyProofValue, PTL

===============================================================================
