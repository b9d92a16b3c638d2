-------------------------- MODULE ModularArithmetic --------------------------
(* Facts about quotients and remainders, which the proofs about wrapped    *)
(* indexes and ring slots rest on.  % and \div round towards minus         *)
(* infinity, so they hold for all integers.                                *)
EXTENDS Integers, TLAPS

(* Division with remainder, for integers: the slot and the wrapped index.  *)
LEMMA Division ==
  ASSUME NEW a \in Int, NEW r \in Nat \ {0}
  PROVE  a \div r \in Int /\ a % r \in 0 .. r - 1 /\ a = r * (a \div r) + (a % r)
  OBVIOUS

(* Quotient and remainder are unique.                                      *)
LEMMA Uniqueness ==
  ASSUME NEW r \in Nat \ {0}, NEW p \in Int, NEW q \in Int,
         NEW a \in 0 .. r - 1, NEW b \in 0 .. r - 1, r * p + a = r * q + b
  PROVE  p = q /\ a = b
  OBVIOUS

(* Dropping and setting the low bit of a word.                             *)
LEMMA Halving ==
  ASSUME NEW w \in Int
  PROVE  (2 * w) \div 2 = w /\ (2 * w + 1) \div 2 = w
  OBVIOUS

(* A multiple of r that is smaller than r is zero.                         *)
LEMMA SmallMultiple ==
  ASSUME NEW r \in Nat \ {0}, NEW q \in Int, r * q < r, -r < r * q
  PROVE  q = 0
  OBVIOUS

(* Adding a multiple of r does not change the remainder.                   *)
LEMMA AddMultiple ==
  ASSUME NEW a \in Int, NEW r \in Nat \ {0}, NEW q \in Int
  PROVE  (a + r * q) % r = a % r
<1> DEFINE b == a + r * q
<1>1. b \in Int
  OBVIOUS
<1>2. b = r * ((a \div r) + q) + (a % r)
  BY Division
<1>3. b = r * (b \div r) + (b % r) /\ b \div r \in Int /\ b % r \in 0 .. r - 1
  BY <1>1, Division
<1>4. a \div r \in Int /\ a % r \in 0 .. r - 1
  BY Division
<1>5. (a \div r) + q \in Int
  BY <1>4
<1> HIDE DEF b
<1>6. r * ((a \div r) + q) + (a % r) = r * (b \div r) + (b % r)
  BY <1>2, <1>3
<1>7. a % r = b % r
  BY <1>3, <1>4, <1>5, <1>6, Uniqueness
<1> QED
  BY <1>7 DEF b

(* The same, for numbers that are known to differ by a multiple of r.      *)
LEMMA Congruent ==
  ASSUME NEW a \in Int, NEW b \in Int, NEW r \in Nat \ {0}, NEW q \in Int,
         a = b + r * q
  PROVE  a % r = b % r
BY AddMultiple

(* Numbers with the same remainder differ by a multiple.                   *)
LEMMA SameRemainder ==
  ASSUME NEW a \in Int, NEW b \in Int, NEW r \in Nat \ {0}, a % r = b % r
  PROVE  \E q \in Int : a = b + r * q
<1>1. a = r * (a \div r) + (a % r) /\ a \div r \in Int
  BY Division
<1>2. b = r * (b \div r) + (b % r) /\ b \div r \in Int
  BY Division
<1>3. a % r \in Int /\ b % r \in Int
  BY Division
<1>4. a = b + r * ((a \div r) - (b \div r))
  BY <1>1, <1>2, <1>3
<1>5. (a \div r) - (b \div r) \in Int
  BY <1>1, <1>2
<1> QED
  BY <1>4, <1>5

(* Numbers with the same remainder, less than r apart, are equal.          *)
LEMMA SameAndNear ==
  ASSUME NEW a \in Int, NEW b \in Int, NEW r \in Nat \ {0}, a % r = b % r,
         a - b < r, b - a < r
  PROVE  a = b
<1>1. PICK q \in Int : a = b + r * q
  BY SameRemainder
<1>2. r * q \in Int
  OBVIOUS
<1>3. r * q < r /\ -r < r * q
  BY <1>1, <1>2
<1>4. q = 0
  BY <1>3, SmallMultiple
<1> QED
  BY <1>1, <1>4
==============================================================================
