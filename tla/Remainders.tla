----------------------------- MODULE Remainders -----------------------------
(***************************************************************************)
(* Remainders: what the provers need to know of the indices of a ring and  *)
(* of numbers that wrap around.                                            *)
(***************************************************************************)
EXTENDS Integers, TLAPS

LEMMA ModDef ==
  ASSUME NEW n \in Int, NEW m \in Nat \ {0}
  PROVE  /\ n % m \in 0 .. m - 1 /\ n \div m \in Int
         /\ n = m * (n \div m) + (n % m)
  BY SMT

LEMMA ModUnique ==
  ASSUME NEW m \in Nat \ {0}, NEW n \in Int, NEW q \in Int, NEW r \in 0 .. m - 1, n = m * q + r
  PROVE  n % m = r
<1> DEFINE k == n \div m - q
<1>1. /\ n % m \in 0 .. m - 1 /\ n \div m \in Int
      /\ n = m * (n \div m) + (n % m)
  BY ModDef
<1>2. k \in Int /\ m * k = r - (n % m)
  BY <1>1, SMT
<1>3. k > -1
  <2>1. ASSUME k <= -1 PROVE FALSE
    <3>1. m * k <= m * (-1)
      BY <2>1, <1>2, SMT
    <3> QED BY <3>1, <1>1, <1>2, SMT
  <2> QED BY <2>1, <1>2
<1>4. k < 1
  <2>1. ASSUME k >= 1 PROVE FALSE
    <3>1. m * k >= m
      BY <2>1, <1>2, SMT
    <3> QED BY <3>1, <1>1, <1>2, SMT
  <2> QED BY <2>1, <1>2
<1>5. k = 0
  BY <1>2, <1>3, <1>4
<1>6. m * k = 0
  BY <1>5
<1> QED BY <1>1, <1>2, <1>6

(* Multiples do not matter.                                                *)
LEMMA ModPlusMultiple ==
  ASSUME NEW m \in Nat \ {0}, NEW n \in Int, NEW k \in Int
  PROVE  (n + m * k) % m = n % m
<1>1. /\ n % m \in 0 .. m - 1 /\ n \div m \in Int
      /\ n = m * (n \div m) + (n % m)
  BY ModDef
<1>2. n + m * k = m * (n \div m + k) + (n % m)
  <2>1. m * (n \div m + k) = m * (n \div m) + m * k
    BY <1>1, SMT
  <2> QED BY <1>1, <2>1
<1>3. n \div m + k \in Int /\ n + m * k \in Int
  BY <1>1
<1> QED BY <1>1, <1>2, <1>3, ModUnique

(* An index may be reduced before something is added to it, or taken off.  *)
LEMMA ModOfSum ==
  ASSUME NEW m \in Nat \ {0}, NEW n \in Int, NEW k \in Int
  PROVE  ((n % m) + k) % m = (n + k) % m /\ (k - (n % m)) % m = (k - n) % m
<1> DEFINE q == n \div m
<1>1. /\ n % m \in 0 .. m - 1 /\ q \in Int
      /\ n = m * q + (n % m)
  BY ModDef
<1> HIDE DEF q
<1>2. (n % m) + k + m * q = n + k
  BY <1>1, SMT
<1>3. (k - n) + m * q = k - (n % m)
  <2> DEFINE p == m * q   r == n % m
  <2>1. p \in Int /\ r \in Int /\ n = p + r
    BY <1>1, SMT
  <2> HIDE DEF p, r
  <2>2. (k - n) + p = k - r
    BY <2>1
  <2> QED BY <2>2 DEF p, r
<1>4. (n % m) + k \in Int /\ k - n \in Int
  BY <1>1
<1>5. ((n % m) + k + m * q) % m = ((n % m) + k) % m
  BY <1>1, <1>4, ModPlusMultiple, Zenon
<1>6. ((k - n) + m * q) % m = (k - n) % m
  BY <1>1, <1>4, ModPlusMultiple, Zenon
<1> QED BY <1>2, <1>3, <1>5, <1>6, Zenon

LEMMA ModSmall ==
  ASSUME NEW m \in Nat \ {0}, NEW n \in 0 .. m - 1
  PROVE  n % m = n
<1>1. n = m * 0 + n
  OBVIOUS
<1> QED BY <1>1, ModUnique

(* Numbers that differ by a multiple have the same remainder.              *)
LEMMA ModCongruent ==
  ASSUME NEW m \in Nat \ {0}, NEW n \in Int, NEW k \in Int, (n - k) % m = 0
  PROVE  n % m = k % m
<1> DEFINE q == (n - k) \div m
<1>1. q \in Int /\ n - k = m * q + ((n - k) % m)
  BY ModDef
<1> HIDE DEF q
<1>2. n = k + m * q
  BY <1>1, SMT
<1> QED BY <1>1, <1>2, ModPlusMultiple

(***************************************************************************)
(* A counter that wraps after 2 * h steps: a deadline r steps away, of     *)
(* which the code only keeps the wrapped value (now + r) % (2 * h).        *)
(***************************************************************************)
(* The signed comparison tells past from future within half the range.     *)
LEMMA WrapReached ==
  ASSUME NEW h \in Nat \ {0}, NEW now \in Int, NEW r \in -h + 1 .. h
  PROVE  (now - ((now + r) % (2 * h))) % (2 * h) < h <=> r <= 0
<1>0. PICK m \in Nat \ {0} : m = 2 * h
  OBVIOUS
<1>1. h \in Nat /\ r \in Int /\ now + r \in Int
  OBVIOUS
<1>2. (now - ((now + r) % m)) % m = (now - (now + r)) % m
  BY <1>0, <1>1, ModOfSum
<1>3. now - (now + r) = -r /\ -r \in Int
  BY <1>1
<1>4. CASE r <= 0
  <2>1. -r \in 0 .. m - 1 /\ -r < h
    BY <1>0, <1>1, <1>4
  <2>2. (-r) % m = -r
    BY <2>1, ModSmall
  <2> QED BY <1>0, <1>2, <1>3, <1>4, <2>1, <2>2
<1>5. CASE ~(r <= 0)
  <2>1. m - r \in 0 .. m - 1 /\ ~(m - r < h)
    BY <1>0, <1>1, <1>5
  <2>2. -1 \in Int /\ -r = m * (-1) + (m - r)
    BY <1>1
  <2>3. (-r) % m = m - r
    BY <1>3, <2>1, <2>2, ModUnique
  <2> QED BY <1>0, <1>2, <1>3, <1>5, <2>1, <2>3
<1> QED BY <1>4, <1>5

(* The same deadline seen from j steps later.                              *)
LEMMA WrapShift ==
  ASSUME NEW m \in Nat \ {0}, NEW now \in Int, NEW r \in Int, NEW j \in Int
  PROVE  (now + r) % m = (((now + j) % m) + (r - j)) % m
<1>1. now + j \in Int /\ r - j \in Int /\ (now + j) + (r - j) = now + r
  OBVIOUS
<1>2. (((now + j) % m) + (r - j)) % m = ((now + j) + (r - j)) % m
  BY <1>1, ModOfSum
<1> QED BY <1>1, <1>2, Zenon
=============================================================================
