--------------------------- MODULE MpmcQueueProofs ---------------------------
(* Safety of MpmcQueue for any number of threads, any capacity and any     *)
(* index width: first the arithmetic of sequence words and slots, then the *)
(* inductive invariant.                                                    *)
EXTENDS MpmcQueue, ModularArithmetic

------------------------------------------------------------------------------
(* Sequence words and slots. *)

(* How many numbers have distinct sequence words.                          *)
Half == R \div 2

(* Half the index range is a multiple of the capacity, at least twice it.  *)
LEMMA HalfRange ==
  /\ N \in Nat \ {0} /\ R \in Nat \ {0} /\ Half \in Nat \ {0}
  /\ R = 2 * Half /\ Half >= 2 * N
  /\ \E m \in Nat : Half = N * m
<1>1. N \in Nat \ {0} /\ R \in Nat \ {0} /\ R >= 4 * N /\ R % (2 * N) = 0
  BY QueueAssumption
<1> DEFINE r == 2 * N
           m == R \div r
<1>2. r \in Nat \ {0} /\ R \in Int /\ R % r = 0
  BY <1>1
<1> HIDE DEF r
<1>3. m \in Int /\ R = r * m + 0
  BY <1>2, Division
<1> HIDE DEF m
<1>4. R = 2 * (N * m) /\ N * m \in Int
  BY <1>1, <1>3 DEF r
<1>5. Half = N * m
  BY <1>4, <1>1 DEF Half
<1>6. Half >= 2 * N /\ R = 2 * Half
  BY <1>1, <1>4, <1>5
<1>7. m >= 0
  BY <1>1, <1>3, <1>5, <1>6
<1> QED
  BY <1>1, <1>3, <1>5, <1>6, <1>7

(* The sequence word of number j is j modulo Half, and the full bit.       *)
LEMMA SeqWord ==
  ASSUME NEW j \in Int
  PROVE  /\ j % Half \in 0 .. Half - 1
         /\ EmptySeq(j) = 2 * (j % Half)
         /\ FullSeq(j) = 2 * (j % Half) + 1
<1> DEFINE x == j % Half
           y == j \div Half
<1>1. R \in Nat \ {0} /\ Half \in Nat \ {0} /\ R = 2 * Half
  BY HalfRange
<1>2. x \in 0 .. Half - 1 /\ y \in Int /\ j = Half * y + x
  BY <1>1, Division
<1> HIDE DEF x, y
<1>3. 2 * j = 2 * x + R * y /\ 2 * j + 1 = (2 * x + 1) + R * y
  BY <1>1, <1>2
<1> DEFINE u == 2 * j
           v == 2 * x
           u1 == 2 * j + 1
           v1 == 2 * x + 1
<1>0. u \in Int /\ v \in Int /\ u1 \in Int /\ v1 \in Int
  BY <1>2
<1> HIDE DEF u, v, u1, v1
<1>4. u % R = v % R
  BY <1>0, <1>1, <1>2, <1>3, Congruent DEF u, v
<1>5. u1 % R = v1 % R
  BY <1>0, <1>1, <1>2, <1>3, Congruent DEF u1, v1
<1> USE DEF u, v, u1, v1
<1>6. (2 * x) % R = 2 * x /\ (2 * x + 1) % R = 2 * x + 1
  BY <1>1, <1>2
<1>7. x \in 0 .. Half - 1 /\ EmptySeq(j) = 2 * x /\ FullSeq(j) = 2 * x + 1
  BY <1>2, <1>3, <1>4, <1>5, <1>6 DEF EmptySeq, FullSeq, Wrap
<1> QED
  BY <1>7 DEF x

(* Numbers that differ by a multiple of R have the same index, the same    *)
(* sequence words and the same slot.                                       *)
LEMMA SameIndex ==
  ASSUME NEW u \in Int, NEW v \in Int, NEW z \in Int, u = v + R * z
  PROVE  /\ Wrap(u) = Wrap(v) /\ Slot(u) = Slot(v)
         /\ EmptySeq(u) = EmptySeq(v) /\ FullSeq(u) = FullSeq(v)
<1>1. R \in Nat \ {0}
  BY HalfRange
<1>2. Half \in Nat \ {0} /\ R = 2 * Half
  BY HalfRange
<1>3. N \in Nat \ {0}
  BY HalfRange
<1>4. PICK m \in Nat : Half = N * m
  BY HalfRange
<1>0. \A r \in Nat \ {0}, k \in Int : u = v + r * k => u % r = v % r
  BY Congruent, Zenon
<1>5. Wrap(u) = Wrap(v)
  BY <1>0, <1>1, Zenon DEF Wrap
<1>6. Slot(u) = Slot(v)
  <2> DEFINE q == 2 * m * z
  <2>1. q \in Int
    BY <1>4
  <2>2. R * z = N * q
    BY <1>2, <1>3, <1>4
  <2>3. u = v + N * q
    BY <2>2
  <2> HIDE DEF q
  <2> QED
    BY <1>0, <1>3, <2>1, <2>3, Zenon DEF Slot
<1>7. u % Half = v % Half
  <2> DEFINE q == 2 * z
  <2>1. q \in Int
    OBVIOUS
  <2>2. u = v + Half * q
    BY <1>2
  <2>3. Half \in Nat \ {0}
    BY <1>2
  <2> HIDE DEF q
  <2> QED
    BY <1>0, <2>1, <2>2, <2>3, Zenon
<1> QED
  BY <1>5, <1>6, <1>7, SeqWord

(* Wrapping an index changes neither its sequence words, nor its slot, nor *)
(* what comes a fixed distance after it.                                   *)
LEMMA Wrapped ==
  ASSUME NEW a \in Int
  PROVE  /\ Wrap(a) \in 0 .. R - 1
         /\ Slot(Wrap(a)) = Slot(a)
         /\ EmptySeq(Wrap(a)) = EmptySeq(a)
         /\ FullSeq(Wrap(a)) = FullSeq(a)
         /\ \A c \in Int : /\ Wrap(Wrap(a) + c) = Wrap(a + c)
                           /\ EmptySeq(Wrap(a) + c) = EmptySeq(a + c)
                           /\ FullSeq(Wrap(a) + c) = FullSeq(a + c)
<1> DEFINE y == a \div R
           z == -y
<1>1. R \in Nat \ {0}
  BY HalfRange
<1>2. a % R \in 0 .. R - 1 /\ y \in Int /\ a = R * y + (a % R)
  BY <1>1, Division
<1> HIDE DEF y
<1>3. z \in Int
  BY <1>2
<1>4. Wrap(a) = a + R * z /\ Wrap(a) \in 0 .. R - 1
  BY <1>1, <1>2 DEF Wrap
<1> HIDE DEF z
<1>5. ASSUME NEW c \in Int
      PROVE  /\ Wrap(Wrap(a) + c) = Wrap(a + c)
             /\ EmptySeq(Wrap(a) + c) = EmptySeq(a + c)
             /\ FullSeq(Wrap(a) + c) = FullSeq(a + c)
  <2>1. Wrap(a) + c \in Int /\ a + c \in Int
    BY <1>4
  <2>2. Wrap(a) + c = (a + c) + R * z
    BY <1>1, <1>3, <1>4
  <2> QED
    BY <1>3, <2>1, <2>2, SameIndex, Zenon
<1>6. Wrap(a) \in Int
  BY <1>4
<1>7. /\ Slot(Wrap(a)) = Slot(a)
      /\ EmptySeq(Wrap(a)) = EmptySeq(a)
      /\ FullSeq(Wrap(a)) = FullSeq(a)
  BY <1>3, <1>4, <1>6, SameIndex, Zenon
<1> QED
  BY <1>4, <1>5, <1>7

(* Two numbers less than Half apart with the same word are the same.       *)
LEMMA SameWord ==
  ASSUME NEW a \in Int, NEW b \in Int, a - b < Half, b - a < Half,
         a % Half = b % Half
  PROVE  a = b
BY HalfRange, SameAndNear

(* Two numbers of one window of N with the same slot are the same.         *)
LEMMA SameSlot ==
  ASSUME NEW a \in Int, NEW b \in Int, a - b < N, b - a < N, Slot(a) = Slot(b)
  PROVE  a = b
BY HalfRange, SameAndNear DEF Slot

(* Every slot serves one number of the window that starts at h.            *)
LEMMA WindowHasSlot ==
  ASSUME NEW a \in Int, NEW h \in Int
  PROVE  \E j \in h .. h + N - 1 : Slot(j) = Slot(a)
<1> DEFINE x == (a - h) % N
           y == (a - h) \div N
<1>1. N \in Nat \ {0}
  BY HalfRange
<1>2. a - h \in Int
  OBVIOUS
<1>3. x \in 0 .. N - 1 /\ y \in Int /\ a - h = N * y + x
  BY <1>1, <1>2, Division
<1> HIDE DEF x, y
<1>4. N * y \in Int
  BY <1>1, <1>3
<1>5. a = (h + x) + N * y /\ h + x \in h .. h + N - 1 /\ h + x \in Int
  BY <1>1, <1>3, <1>4
<1>6. Slot(a) = Slot(h + x)
  BY <1>1, <1>3, <1>5, AddMultiple DEF Slot
<1> QED
  BY <1>5, <1>6

(* Slots are slots.                                                        *)
LEMMA SlotRange == ASSUME NEW a \in Int PROVE Slot(a) \in 0 .. N - 1
BY HalfRange, Division DEF Slot
------------------------------------------------------------------------------
(* What a thread finds in the slot of an index it loaded earlier. *)

(* Delays are shorter than half the index range, less one round.           *)
NoAba == MaxLag + N <= Half

(* The history variables are the counts they should be.                    *)
Counts == head \in Nat /\ tail \in Nat /\ MaxLag \in Nat

(* Some number of the window is served by the slot of index b.             *)
LEMMA Served ==
  ASSUME Counts, Window, NEW b \in Int
  PROVE  \E j \in Int : /\ head <= j /\ j < head + N
                       /\ Slot(j) = Slot(b) /\ Slot(Wrap(b)) = Slot(b)
                       /\ Serves(j)
<1>0. head \in Int
  BY DEF Counts
<1>1. PICK j \in head .. head + N - 1 : Slot(j) = Slot(b)
  BY <1>0, WindowHasSlot
<1>2. j \in Int /\ head <= j /\ j < head + N
  BY HalfRange DEF Counts
<1>3. Serves(j)
  BY DEF Window
<1> QED
  BY <1>1, <1>2, <1>3, Wrapped

(* A push that loaded b: it can take the slot only if b is the tail; if    *)
(* the slot tells it to help, b is out of date; if the slot tells it the   *)
(* queue is full, b is the tail and the queue is full.                     *)
LEMMA WriteLookup ==
  ASSUME Counts, Window, NoAba,
         NEW b \in Int, b <= tail, tail - b <= MaxLag,
         NEW seq, seq = array[Slot(Wrap(b))].seq
  PROVE  /\ seq = EmptySeq(Wrap(b)) => b = tail /\ tail < head + N
         /\ WriteView(Wrap(b), seq) = "behind" => b < tail
         /\ WriteView(Wrap(b), seq) = "full" => b = tail /\ tail = head + N
<1>1. PICK j \in Int : /\ head <= j /\ j < head + N
                       /\ Slot(j) = Slot(b) /\ Slot(Wrap(b)) = Slot(b)
                       /\ Serves(j)
  BY Served
<1>2. seq = IF j < tail THEN FullSeq(j) ELSE EmptySeq(j)
  BY <1>1 DEF Serves
<1>3. /\ head \in Int /\ tail \in Int /\ MaxLag \in Int /\ N \in Int /\ Half \in Int
      /\ 1 <= N /\ head <= tail /\ tail <= head + N
      /\ MaxLag + N <= Half /\ 2 * N <= Half
  BY HalfRange DEF Counts, Window, NoAba
<1>4. /\ EmptySeq(Wrap(b)) = EmptySeq(b) /\ FullSeq(Wrap(b)) = FullSeq(b)
      /\ EmptySeq(Wrap(b) + N) = EmptySeq(b + N)
  BY <1>3, Wrapped
<1>0. b + N \in Int
  BY <1>3
<1>5. /\ j % Half \in Int /\ b % Half \in Int /\ (b + N) % Half \in Int
      /\ EmptySeq(j) = 2 * (j % Half) /\ FullSeq(j) = 2 * (j % Half) + 1
      /\ EmptySeq(b) = 2 * (b % Half) /\ FullSeq(b) = 2 * (b % Half) + 1
      /\ EmptySeq(b + N) = 2 * ((b + N) % Half)
  BY <1>0, SeqWord
<1>6. ASSUME seq = EmptySeq(Wrap(b))
      PROVE  b = tail /\ tail < head + N
  <2>1. j >= tail /\ j % Half = b % Half
    BY <1>2, <1>3, <1>4, <1>5, <1>6
  <2>2. j - b < Half /\ b - j < Half
    BY <1>1, <1>3, <2>1
  <2>3. j = b
    BY <2>1, <2>2, SameWord
  <2> QED
    BY <1>1, <1>3, <2>1, <2>3
<1>7. ASSUME seq = FullSeq(Wrap(b))
      PROVE  b < tail
  <2>1. j < tail /\ j % Half = b % Half
    BY <1>2, <1>3, <1>4, <1>5, <1>7
  <2>2. j - b < Half /\ b - j < Half
    BY <1>1, <1>3, <2>1
  <2>3. j = b
    BY <2>1, <2>2, SameWord
  <2> QED
    BY <2>1, <2>3
<1>8. ASSUME seq = EmptySeq(Wrap(b) + N)
      PROVE  b < tail
  <2>1. j >= tail /\ j % Half = (b + N) % Half
    BY <1>2, <1>3, <1>4, <1>5, <1>8
  <2>2. j - (b + N) < Half /\ (b + N) - j < Half /\ b + N \in Int
    BY <1>1, <1>3, <2>1
  <2>3. j = b + N
    BY <2>1, <2>2, SameWord
  <2> QED
    BY <1>1, <1>3, <2>3
<1>9. ASSUME Wrap(seq + 2 * N) = FullSeq(Wrap(b))
      PROVE  b = tail /\ tail = head + N
  <2>1. /\ Wrap(EmptySeq(j) + 2 * N) = EmptySeq(j + N)
        /\ Wrap(FullSeq(j) + 2 * N) = FullSeq(j + N)
    <3>1. /\ 2 * j \in Int /\ 2 * j + 1 \in Int /\ 2 * N \in Int
          /\ 2 * j + 2 * N = 2 * (j + N)
          /\ (2 * j + 1) + 2 * N = 2 * (j + N) + 1
      BY <1>3
    <3>2. /\ Wrap(Wrap(2 * j) + 2 * N) = Wrap(2 * j + 2 * N)
          /\ Wrap(Wrap(2 * j + 1) + 2 * N) = Wrap((2 * j + 1) + 2 * N)
      BY <3>1, Wrapped
    <3> QED
      BY <3>1, <3>2 DEF EmptySeq, FullSeq
  <2>0. j + N \in Int
    BY <1>3
  <2>2. /\ (j + N) % Half \in Int
        /\ EmptySeq(j + N) = 2 * ((j + N) % Half)
        /\ FullSeq(j + N) = 2 * ((j + N) % Half) + 1
    BY <2>0, SeqWord
  <2>3. j < tail /\ (j + N) % Half = b % Half
    BY <1>2, <1>3, <1>4, <1>5, <1>9, <2>1, <2>2
  <2>4. (j + N) - b < Half /\ b - (j + N) < Half /\ j + N \in Int
    BY <1>1, <1>3, <2>3
  <2>5. j + N = b
    BY <2>3, <2>4, SameWord
  <2> QED
    BY <1>1, <1>3, <2>3, <2>5
<1> QED
  BY <1>6, <1>7, <1>8, <1>9 DEF WriteView

(* A reader that loaded b: it can take the entry only if b is the head; if *)
(* the slot tells it to help, b is out of date; if the slot tells it the   *)
(* queue is empty, it is.                                                  *)
LEMMA ReadLookup ==
  ASSUME Counts, Window, NoAba,
         NEW b \in Int, b <= head, head - b <= MaxLag,
         NEW seq, seq = array[Slot(Wrap(b))].seq
  PROVE  /\ seq = FullSeq(Wrap(b)) => b = head /\ head < tail
         /\ seq = EmptySeq(Wrap(b)) => b = head /\ head = tail
         /\ \A op : View(op, Wrap(b), seq) = "behind" => b < head
<1>1. PICK j \in Int : /\ head <= j /\ j < head + N
                       /\ Slot(j) = Slot(b) /\ Slot(Wrap(b)) = Slot(b)
                       /\ Serves(j)
  BY Served
<1>2. seq = IF j < tail THEN FullSeq(j) ELSE EmptySeq(j)
  BY <1>1 DEF Serves
<1>3. /\ head \in Int /\ tail \in Int /\ MaxLag \in Int /\ N \in Int /\ Half \in Int
      /\ 1 <= N /\ head <= tail /\ tail <= head + N
      /\ MaxLag + N <= Half /\ 2 * N <= Half
  BY HalfRange DEF Counts, Window, NoAba
<1>4. /\ EmptySeq(Wrap(b)) = EmptySeq(b) /\ FullSeq(Wrap(b)) = FullSeq(b)
      /\ FullSeq(Wrap(b) + N) = FullSeq(b + N) /\ Wrap(Wrap(b) + N) = Wrap(b + N)
  BY <1>3, Wrapped
<1>0. b + N \in Int
  BY <1>3
<1>5. /\ j % Half \in 0 .. Half - 1 /\ b % Half \in Int /\ (b + N) % Half \in Int
      /\ EmptySeq(j) = 2 * (j % Half) /\ FullSeq(j) = 2 * (j % Half) + 1
      /\ EmptySeq(b) = 2 * (b % Half) /\ FullSeq(b) = 2 * (b % Half) + 1
      /\ FullSeq(b + N) = 2 * ((b + N) % Half) + 1
  BY <1>0, SeqWord
<1>6. ASSUME seq = FullSeq(Wrap(b))
      PROVE  b = head /\ head < tail
  <2>1. j < tail /\ j % Half = b % Half
    BY <1>2, <1>3, <1>4, <1>5, <1>6
  <2>2. j - b < Half /\ b - j < Half
    BY <1>1, <1>3
  <2>3. j = b
    BY <2>1, <2>2, SameWord
  <2> QED
    BY <1>1, <1>3, <2>1, <2>3
<1>7. ASSUME seq = EmptySeq(Wrap(b))
      PROVE  b = head /\ head = tail
  <2>1. j >= tail /\ j % Half = b % Half
    BY <1>2, <1>3, <1>4, <1>5, <1>7
  <2>2. j - b < Half /\ b - j < Half
    BY <1>1, <1>3
  <2>3. j = b
    BY <2>1, <2>2, SameWord
  <2> QED
    BY <1>1, <1>3, <2>1, <2>3
<1>8. ASSUME j % Half = (b + N) % Half
      PROVE  b < head
  <2>1. j - (b + N) < Half /\ (b + N) - j < Half
    BY <1>1, <1>3
  <2>2. j = b + N
    BY <1>0, <1>8, <2>1, SameWord
  <2> QED
    BY <1>1, <1>3, <2>2
<1>a. seq \div 2 = j % Half
  <2> DEFINE w == j % Half
  <2>1. w \in Int /\ (seq = 2 * w \/ seq = 2 * w + 1)
    BY <1>2, <1>3, <1>5
  <2> HIDE DEF w
  <2>2. seq \div 2 = w
    BY <2>1, Halving
  <2> QED
    BY <2>2 DEF w
<1>9. ASSUME LowBitSet(seq) = FullSeq(Wrap(b) + N)
      PROVE  b < head
  <2>1. LowBitSet(seq) = 2 * (j % Half) + 1
    BY <1>a DEF LowBitSet
  <2>2. j % Half = (b + N) % Half
    BY <1>4, <1>5, <1>9, <2>1
  <2> QED
    BY <1>8, <2>2
<1>10. ASSUME seq \div 2 = Wrap(Wrap(b) + N)
       PROVE  b < head
  <2> DEFINE x == Wrap(b + N)
  <2>2. x = j % Half
    BY <1>4, <1>10, <1>a
  <2>3. EmptySeq(x) = EmptySeq(b + N)
    BY <1>0, Wrapped
  <2>4. x \in Int
    BY <1>3, <1>5, <2>2
  <2> HIDE DEF x
  <2>5. /\ EmptySeq(x) = 2 * (x % Half) /\ x % Half \in Int
        /\ EmptySeq(b + N) = 2 * ((b + N) % Half)
    BY <1>0, <2>4, SeqWord
  <2> DEFINE p == x % Half
             q == (b + N) % Half
  <2>6. p = q
    <3>1. p \in Int /\ q \in Int /\ 2 * p = 2 * q
      BY <1>5, <2>3, <2>5
    <3> HIDE DEF p, q
    <3> QED
      BY <3>1
  <2>7. x % Half = x
    BY <1>3, <1>5, <2>2
  <2> QED
    BY <1>8, <2>2, <2>6, <2>7
<1>11. ASSUME NEW op, View(op, Wrap(b), seq) = "behind"
       PROVE  b < head
  BY <1>9, <1>10, <1>11 DEF View, ReadView, PeekView
<1> QED
  BY <1>6, <1>7, <1>11
------------------------------------------------------------------------------
(* The shared indexes. *)

(* The number behind an index that is current or one behind.               *)
LEMMA BaseOf ==
  ASSUME NEW c \in Int, NEW k \in {0, 1}
  PROVE  c - Wrap(c - Wrap(c - k)) = c - k
<1> DEFINE w == Wrap(c - k)
           y == (c - k) \div R
<1>1. R \in Nat \ {0} /\ c - k \in Int /\ R >= 4
  BY HalfRange
<1>2. w \in Int /\ y \in Int /\ c - k = R * y + w
  BY <1>1, Division DEF Wrap
<1> HIDE DEF w, y
<1>3. c - w \in Int /\ k \in Int /\ c - w = k + R * y
  BY <1>1, <1>2
<1>4. Wrap(c - w) = Wrap(k)
  BY <1>2, <1>3, SameIndex, Zenon
<1>5. Wrap(k) = k
  BY <1>1 DEF Wrap
<1>6. c - Wrap(c - w) = c - k
  BY <1>4, <1>5
<1> QED
  BY <1>6 DEF w

(* What a thread gets when it loads a shared index.                        *)
LEMMA Loads ==
  ASSUME NEW index, NEW count \in Nat,
         Current(index, count) \/ OneBehind(index, count)
  PROVE  LET b == count - Wrap(count - index)
         IN /\ b \in Nat /\ b <= count /\ count - b <= 1
            /\ index = Wrap(b)
            /\ b = count => Current(index, count)
<1> DEFINE b == count - Wrap(count - index)
<1>1. First \in Nat
  BY QueueAssumption
<1>2. CASE Current(index, count)
  <2>1. count - Wrap(count - Wrap(count - 0)) = count - 0
    BY BaseOf
  <2>2. b = count
    BY <1>2, <2>1 DEF Current
  <2> QED
    BY <1>2, <2>2 DEF Current
<1>3. CASE OneBehind(index, count)
  <2>1. count - Wrap(count - Wrap(count - 1)) = count - 1
    BY BaseOf
  <2>2. b = count - 1
    BY <1>3, <2>1 DEF OneBehind
  <2>3. b \in Nat
    BY <1>1, <1>3, <2>2 DEF OneBehind
  <2> QED
    BY <1>3, <2>2, <2>3 DEF OneBehind
<1> QED
  BY <1>2, <1>3

(* An advance by a thread whose index is out of date, but not by half the  *)
(* range, takes the shared index nowhere but to the current number.        *)
LEMMA Advances ==
  ASSUME NoAba, NEW index, NEW count \in Nat, NEW b \in Nat,
         b < count, count - b <= MaxLag,
         Current(index, count) \/ OneBehind(index, count),
         NEW new, new = IF index = Wrap(b) THEN Wrap(Wrap(b) + 1) ELSE index
  PROVE  /\ Current(new, count) \/ OneBehind(new, count)
         /\ Current(index, count) => Current(new, count)
<1>1. R \in Nat \ {0} /\ MaxLag \in Nat /\ MaxLag < R
  BY HalfRange, QueueAssumption DEF NoAba
<1>2. CASE index # Wrap(b)
  BY <1>2
<1>3. CASE index = Wrap(b) /\ Current(index, count)
  <2>1. count % R = b % R
    BY <1>3 DEF Current, Wrap
  <2>2. count - b < R /\ b - count < R /\ count \in Int /\ b \in Int
    BY <1>1
  <2>3. count = b
    BY <1>1, <2>1, <2>2, SameAndNear
  <2> QED
    BY <2>3
<1>4. CASE index = Wrap(b) /\ OneBehind(index, count) /\ ~Current(index, count)
  <2>1. (count - 1) % R = b % R
    BY <1>4 DEF OneBehind, Wrap
  <2>2. /\ (count - 1) - b < R /\ b - (count - 1) < R
        /\ count - 1 \in Int /\ b \in Int
    BY <1>1
  <2>3. count - 1 = b
    BY <1>1, <2>1, <2>2, SameAndNear
  <2>4. Wrap(Wrap(b) + 1) = Wrap(b + 1) /\ b + 1 = count
    BY <2>3, Wrapped
  <2> QED
    BY <1>4, <2>4 DEF Current
<1> QED
  BY <1>2, <1>3, <1>4
------------------------------------------------------------------------------
(* The inductive invariant. *)

(* The counts start at First and only grow.                                *)
Started == First <= head

IInv == TypeOK /\ Window /\ IndexLag /\ Registers /\ Started

(* Entries are well typed.                                                 *)
LEMMA Entries ==
  ASSUME NEW i \in Int
  PROVE  /\ EmptyEntry(i) \in Entry
         /\ \A d \in Values : FullEntry(i, d) \in Entry
<1>1. R \in Nat \ {0} /\ 2 * i \in Int /\ 2 * i + 1 \in Int
  BY HalfRange
<1>2. EmptySeq(i) \in 0 .. R - 1 /\ FullSeq(i) \in 0 .. R - 1
  BY <1>1, Division DEF EmptySeq, FullSeq, Wrap
<1> QED
  BY <1>2, QueueAssumption DEF EmptyEntry, FullEntry, Entry

(* The initial entry of the slot of j is the one of number j.              *)
LEMMA StartSlot ==
  ASSUME NEW j \in Int, First <= j, j < First + N
  PROVE  First + ((Slot(j) - First) % N) = j
<1> DEFINE y == j \div N
           s == Slot(j)
           v == j - First
           u == s - First
<1>1. N \in Nat \ {0} /\ First \in Int
  BY HalfRange, QueueAssumption
<1>2. y \in Int /\ s \in Int /\ j = N * y + s
  BY <1>1, Division DEF Slot
<1> HIDE DEF y, s
<1>3. N * y \in Int
  BY <1>1, <1>2
<1>4. v \in 0 .. N - 1 /\ v \in Int /\ u \in Int /\ v = u + N * y
  BY <1>1, <1>2, <1>3
<1>5. First + v = j
  BY <1>1
<1> HIDE DEF v, u
<1>6. v % N = u % N
  <2>1. \A r \in Nat \ {0}, k \in Int : v = u + r * k => v % r = u % r
    BY <1>4, Congruent, Zenon
  <2>2. N \in Nat \ {0}
    BY <1>1
  <2>3. y \in Int
    BY <1>2
  <2>4. v = u + N * y
    BY <1>4
  <2> QED
    BY <2>1, <2>2, <2>3, <2>4, Zenon
<1>7. v % N = v
  BY <1>1, <1>4
<1> QED
  BY <1>5, <1>6, <1>7 DEF u, s

(* The invariant holds at the start.                                       *)
LEMMA InitInv == Init => IInv
<1> SUFFICES ASSUME Init PROVE IInv
  OBVIOUS
<1>1. /\ N \in Nat \ {0} /\ R \in Nat \ {0} /\ R > 1
      /\ First \in Nat /\ First \in Int /\ Zero \in Values
  BY HalfRange, QueueAssumption
<1>2. TypeOK
  <2>1. Wrap(First) \in 0 .. R - 1 /\ 0 \in 0 .. R - 1
    BY <1>1, Wrapped
  <2>2. array \in [0 .. N - 1 -> Entry]
    <3>1. ASSUME NEW s \in 0 .. N - 1
          PROVE  EmptyEntry(First + ((s - First) % N)) \in Entry
      <4>1. s - First \in Int
        BY <1>1
      <4>2. (s - First) % N \in Int
        BY <1>1, <4>1, Division
      <4>3. First + ((s - First) % N) \in Int
        BY <1>1, <4>2
      <4> QED
        BY <4>3, Entries
    <3> QED
      BY <3>1 DEF Init
  <2>3. NoReg \in Regs /\ NoRequest \in Request /\ False \in Results
    BY <1>1, <2>1 DEF NoReg, Reg, Regs, NoRequest, Request, Ops, False, Result, Results
  <2> QED
    BY <1>1, <2>1, <2>2, <2>3 DEF Init, TypeOK, PCs
<1>3. Window
  <2>1. head = First /\ tail = First /\ head <= tail /\ tail <= head + N
    BY <1>1 DEF Init
  <2>2. ASSUME NEW j \in head .. head + N - 1
        PROVE  Serves(j)
    <3>1. j \in Int /\ First <= j /\ j < First + N /\ ~(j < tail)
      BY <1>1, <2>1
    <3>2. Slot(j) \in 0 .. N - 1 /\ First + ((Slot(j) - First) % N) = j
      BY <3>1, SlotRange, StartSlot
    <3>3. array[Slot(j)] = EmptyEntry(j)
      BY <3>2 DEF Init
    <3> QED
      BY <3>1, <3>3 DEF Serves, EmptyEntry
  <2> QED
    BY <2>1, <2>2 DEF Window
<1>4. IndexLag
  BY DEF Init, IndexLag, Current
<1>5. Registers
  BY DEF Init, Registers, WritePCs, ReadPCs
<1>6. Started
  BY <1>1 DEF Init, Started
<1> QED
  BY <1>2, <1>3, <1>4, <1>5, <1>6 DEF IInv
------------------------------------------------------------------------------
(* Type correctness is preserved. *)

(* A thread that loads an index gets well-typed registers.                 *)
LEMMA LoadTypes ==
  ASSUME TypeOK, IndexLag
  PROVE  /\ Reg(write_index, Zero, tail - Wrap(tail - write_index)) \in Regs
         /\ Reg(read_index, Zero, head - Wrap(head - read_index)) \in Regs
<1>1. /\ tail - Wrap(tail - write_index) \in Nat
      /\ head - Wrap(head - read_index) \in Nat
  BY Loads DEF TypeOK, IndexLag
<1> QED
  BY <1>1, QueueAssumption DEF TypeOK, Reg, Regs

LEMMA TypeStep == ASSUME IInv, [Next]_vars PROVE TypeOK'
<1>1. TypeOK /\ IndexLag
  BY DEF IInv
<1>2. /\ N \in Nat \ {0} /\ R \in Nat \ {0} /\ Zero \in Values
      /\ 0 \in 0 .. R - 1
  BY HalfRange, QueueAssumption
<1>3. NoReg \in Regs /\ False \in Results /\ Pending \in Results
  BY <1>2 DEF NoReg, Reg, Regs, False, Pending, Result, Results
<1>4. \A t \in Threads : /\ reg[t].idx \in 0 .. R - 1 /\ reg[t].data \in Values
                         /\ req[t].data \in Values /\ req[t].index \in 0 .. R - 1
                         /\ reg[t].idx \in Int /\ req[t].index \in Int
  BY <1>1, <1>2 DEF TypeOK, Regs, Request
<1>5. \A i \in Int : /\ Slot(i) \in 0 .. N - 1
                     /\ array[Slot(i)].seq \in 0 .. R - 1
                     /\ array[Slot(i)].data \in Values
  BY <1>1, SlotRange DEF TypeOK, Entry
<1>6. CASE UNCHANGED vars
  BY <1>1, <1>6 DEF TypeOK, vars
<1>7. ASSUME NEW t \in Threads, Call(t) PROVE TypeOK'
  <2>1. req' \in [Threads -> Request]
    BY <1>1, <1>7, RequestAssumption DEF Call, TypeOK
  <2> QED
    BY <1>1, <1>3, <1>7, <2>1
    DEF Call, TypeOK, shared, Goto, Sets, Start, PCs, WritePCs, ReadPCs
<1>8. ASSUME NEW t \in Threads, WrLoad(t) PROVE TypeOK'
  BY <1>1, <1>8, LoadTypes DEF WrLoad, TypeOK, shared, Goto, PCs, WritePCs
<1>9. ASSUME NEW t \in Threads,
             WrReady(t) \/ WrBehind(t) \/ WrMoved(t) \/ KeepFull(t) \/ WrCasFails(t)
      PROVE  TypeOK'
  BY <1>1, <1>9
  DEF WrReady, WrBehind, WrMoved, KeepFull, WrCasFails, TypeOK, shared, Goto, PCs, WritePCs
<1>10. ASSUME NEW t \in Threads, WrFull(t) \/ RdEmpty(t) \/ Refuse(t) \/ ExchangeFails(t)
       PROVE  TypeOK'
  BY <1>1, <1>3, <1>10
  DEF WrFull, RdEmpty, Refuse, ExchangeFails, TypeOK, shared, Goto, Sets, Leave, PCs
<1>11. ASSUME NEW t \in Threads, WrCas(t) PROVE TypeOK'
  <2>1. array' \in [0 .. N - 1 -> Entry]
    BY <1>1, <1>4, <1>5, <1>11, Entries DEF WrCas, TypeOK
  <2>2. res' \in [Threads -> Results]
    BY <1>1, <1>2, <1>4, <1>11 DEF WrCas, TypeOK, Sets, Result, Results
  <2>3. reg' \in [Threads -> Regs] /\ pc' \in [Threads -> PCs]
    BY <1>1, <1>3, <1>11 DEF WrCas, TypeOK, Leave, Goto, PCs, WritePCs
  <2> QED
    BY <1>1, <1>11, <2>1, <2>2, <2>3 DEF WrCas, TypeOK
<1>12. ASSUME NEW t \in Threads, WrAdv(t) \/ WrHelp(t) PROVE TypeOK'
  <2>0. reg[t].idx + 1 \in Int
    BY <1>4
  <2>1. Wrap(reg[t].idx + 1) \in 0 .. R - 1
    BY <2>0, Wrapped
  <2>2. write_index' \in 0 .. R - 1
    BY <1>1, <1>12, <2>1 DEF WrAdv, WrHelp, AdvanceWrite, TypeOK
  <2> QED
    BY <1>1, <1>3, <1>12, <2>2 DEF WrAdv, WrHelp, TypeOK, Goto, Leave, PCs
<1>13. ASSUME NEW t \in Threads, RdLoad(t) PROVE TypeOK'
  BY <1>1, <1>13, LoadTypes DEF RdLoad, TypeOK, shared, Goto, PCs, ReadPCs
<1>14. ASSUME NEW t \in Threads, RdReady(t) PROVE TypeOK'
  <2>1. reg' \in [Threads -> Regs]
    BY <1>1, <1>4, <1>5, <1>14 DEF RdReady, TypeOK, Regs
  <2> QED
    BY <1>1, <1>14, <2>1 DEF RdReady, TypeOK, shared, Goto, PCs, ReadPCs
<1>15. ASSUME NEW t \in Threads, Peek(t) PROVE TypeOK'
  BY <1>1, <1>3, <1>4, <1>5, <1>15
  DEF Peek, TypeOK, shared, Goto, Sets, Leave, PCs, Result, Results
<1>16. ASSUME NEW t \in Threads,
              RdBehind(t) \/ RdMoved(t) \/ KeepEmpty(t) \/ RdCasFails(t) \/ Continue(t)
       PROVE  TypeOK'
  BY <1>1, <1>16
  DEF RdBehind, RdMoved, KeepEmpty, RdCasFails, Continue, TypeOK, shared, Goto, PCs, ReadPCs
<1>17. ASSUME NEW t \in Threads, EmptyTest(t) PROVE TypeOK'
  BY <1>1, <1>2, <1>3, <1>17
  DEF EmptyTest, TypeOK, shared, Goto, Sets, Leave, PCs, Result, Results
<1>18. ASSUME NEW t \in Threads, RdCas(t) PROVE TypeOK'
  <2>1. N \in Int /\ reg[t].idx + N \in Int
    BY <1>2, <1>4
  <2>2. Cleared(reg[t].idx) \in Entry
    BY <2>1, Entries DEF Cleared
  <2>3. array' \in [0 .. N - 1 -> Entry]
    BY <1>1, <1>18, <2>2 DEF RdCas, TypeOK
  <2>4. Popped(t) \in Results
    BY <1>1, <1>2, <1>4 DEF Popped, TypeOK, Result, Results
  <2>5. reg' \in [Threads -> Regs] /\ pc' \in [Threads -> PCs]
    BY <1>1, <1>3, <1>18 DEF RdCas, TypeOK, AfterPop, Leave, Goto, PCs, ReadPCs
  <2>6. res' \in [Threads -> Results]
    BY <1>1, <1>18, <2>4 DEF RdCas, TypeOK, Sets
  <2>7. /\ UNCHANGED <<write_index, read_index, req, calls, tail>>
        /\ head' \in Nat
    BY <1>1, <1>18 DEF RdCas, TypeOK
  <2> QED
    BY <1>1, <2>3, <2>5, <2>6, <2>7 DEF TypeOK
<1>19. ASSUME NEW t \in Threads, RdAdv(t) \/ RdHelp(t) PROVE TypeOK'
  <2>0. reg[t].idx + 1 \in Int
    BY <1>4
  <2>1. Wrap(reg[t].idx + 1) \in 0 .. R - 1
    BY <2>0, Wrapped
  <2>2. read_index' \in 0 .. R - 1
    BY <1>1, <1>19, <2>1 DEF RdAdv, RdHelp, AdvanceRead, TypeOK
  <2> QED
    BY <1>1, <1>3, <1>19, <2>2 DEF RdAdv, RdHelp, TypeOK, AfterPop, Goto, Leave, PCs
<1>20. ASSUME NEW t \in Threads, Stop(t) PROVE TypeOK'
  BY <1>1, <1>3, <1>20 DEF Stop, TypeOK, shared, Goto, Sets, Leave, PCs, Results
<1>21. ASSUME NEW t \in Threads, Exchange(t) PROVE TypeOK'
  <2>1. array' \in [0 .. N - 1 -> Entry]
    BY <1>1, <1>4, <1>21, Entries DEF Exchange, TypeOK
  <2> QED
    BY <1>1, <1>2, <1>3, <1>21, <2>1
    DEF Exchange, TypeOK, Goto, Sets, Leave, PCs, Result, Results
<1> QED
  BY <1>6, <1>7, <1>8, <1>9, <1>10, <1>11, <1>12, <1>13, <1>14, <1>15, <1>16,
     <1>17, <1>18, <1>19, <1>20, <1>21
  DEF Next, Step, Pushing, Popping, Done
------------------------------------------------------------------------------
(* The window is preserved. *)

(* Only three steps change the elements.                                   *)
LEMMA ElementSteps ==
  ASSUME [Next]_vars
  PROVE  \/ UNCHANGED <<array, head, tail>>
         \/ \E t \in Threads : WrCas(t) \/ RdCas(t) \/ Exchange(t)
BY DEF Next, Step, Pushing, Popping, Done, vars, shared, Call, WrLoad, WrReady,
       WrBehind, WrMoved, WrFull, KeepFull, WrCasFails, WrAdv, WrHelp, RdLoad,
       RdReady, Refuse, Peek, RdBehind, RdMoved, RdEmpty, KeepEmpty, EmptyTest,
       RdCasFails, RdAdv, RdHelp, Stop, Continue, ExchangeFails

(* The numbers in play.                                                    *)
LEMMA Numbers ==
  ASSUME IInv
  PROVE  /\ Counts /\ head \in Int /\ tail \in Int /\ N \in Int
         /\ 1 <= N /\ First <= head /\ head <= tail /\ tail <= head + N
         /\ First \in Int /\ MaxLag \in Int /\ 1 <= MaxLag
         /\ \A t \in Threads : reg[t].base \in Int
BY HalfRange, QueueAssumption DEF IInv, TypeOK, Window, Started, Counts, Regs

(* A push that takes effect has the number of the tail, and finds room.    *)
LEMMA PushAtTail ==
  ASSUME NoAba, IInv, NEW t \in Threads, WrCas(t)
  PROVE  /\ reg[t].base = tail /\ tail < head + N
         /\ reg[t].idx = Wrap(tail) /\ Slot(reg[t].idx) = Slot(tail)
<1>0. pc[t] \in WritePCs
  BY DEF WrCas, WritePCs
<1>1. WriteRegister(t)
  BY <1>0 DEF IInv, Registers
<1>2. array[Slot(reg[t].idx)].seq = EmptySeq(reg[t].idx)
  BY DEF WrCas, EmptyEntry
<1> DEFINE b == reg[t].base
<1>3. /\ Counts /\ Window /\ b \in Int /\ b <= tail /\ tail - b <= MaxLag
      /\ reg[t].idx = Wrap(b)
  BY <1>1, Numbers DEF WriteRegister, IInv
<1> HIDE DEF b
<1>4. b = tail /\ tail < head + N
  BY <1>2, <1>3, WriteLookup
<1>5. Slot(Wrap(b)) = Slot(b)
  BY <1>3, Wrapped
<1> QED
  BY <1>3, <1>4, <1>5 DEF b

(* A pop that takes effect has the number of the head, and finds a value.  *)
LEMMA PopAtHead ==
  ASSUME NoAba, IInv, NEW t \in Threads, RdCas(t)
  PROVE  /\ reg[t].base = head /\ head < tail
         /\ reg[t].idx = Wrap(head) /\ Slot(reg[t].idx) = Slot(head)
<1>0. pc[t] \in ReadPCs
  BY DEF RdCas, ReadPCs
<1>1. ReadRegister(t)
  BY <1>0 DEF IInv, Registers
<1>2. array[Slot(reg[t].idx)].seq = FullSeq(reg[t].idx)
  BY DEF RdCas, Loaded, FullEntry
<1> DEFINE b == reg[t].base
<1>3. /\ Counts /\ Window /\ b \in Int /\ b <= head /\ head - b <= MaxLag
      /\ reg[t].idx = Wrap(b)
  BY <1>1, Numbers DEF ReadRegister, IInv
<1> HIDE DEF b
<1>4. b = head /\ head < tail
  BY <1>2, <1>3, ReadLookup
<1>5. Slot(Wrap(b)) = Slot(b)
  BY <1>3, Wrapped
<1> QED
  BY <1>3, <1>4, <1>5 DEF b

LEMMA WindowStep == ASSUME NoAba, IInv, [Next]_vars PROVE Window'
<1>1. /\ Counts /\ head \in Int /\ tail \in Int /\ N \in Int
      /\ 1 <= N /\ head <= tail /\ tail <= head + N
  BY Numbers
<1>2. \A j \in head .. head + N - 1 : Serves(j)
  BY DEF IInv, Window
<1>3. \A j \in Int : Slot(j) \in 0 .. N - 1
  BY SlotRange
<1>4. array \in [0 .. N - 1 -> Entry]
  BY DEF IInv, TypeOK
<1>5. CASE UNCHANGED <<array, head, tail>>
  BY <1>1, <1>2, <1>5 DEF Window, Serves
<1>6. ASSUME NEW t \in Threads, WrCas(t) PROVE Window'
  <2>1. /\ tail < head + N /\ reg[t].idx = Wrap(tail)
        /\ Slot(reg[t].idx) = Slot(tail)
    BY <1>6, PushAtTail
  <2>2. FullSeq(reg[t].idx) = FullSeq(tail)
    BY <1>1, <2>1, Wrapped
  <2>3. /\ head' = head /\ tail' = tail + 1
        /\ array' = [array EXCEPT ![Slot(tail)] = FullEntry(reg[t].idx, req[t].data)]
    BY <1>6, <2>1 DEF WrCas
  <2>4. ASSUME NEW j \in head .. head + N - 1 PROVE Serves(j)'
    <3>1. CASE Slot(j) = Slot(tail)
      <4>1. j \in Int /\ j - tail < N /\ tail - j < N
        BY <1>1, <2>1
      <4>2. j = tail
        BY <1>1, <3>1, <4>1, SameSlot
      <4>3. array'[Slot(j)].seq = FullSeq(j)
        BY <1>1, <1>3, <1>4, <2>2, <2>3, <4>2 DEF FullEntry
      <4> QED
        BY <1>1, <2>3, <4>2, <4>3 DEF Serves
    <3>2. CASE Slot(j) # Slot(tail)
      <4>1. array'[Slot(j)] = array[Slot(j)]
        BY <1>3, <1>4, <2>3, <3>2
      <4>2. j # tail /\ Serves(j) /\ j \in Int
        BY <1>1, <1>2, <3>2
      <4> QED
        BY <1>1, <2>3, <4>1, <4>2 DEF Serves
    <3> QED
      BY <3>1, <3>2
  <2> QED
    BY <1>1, <2>1, <2>3, <2>4 DEF Window
<1>7. ASSUME NEW t \in Threads, RdCas(t) PROVE Window'
  <2>1. head < tail /\ reg[t].idx = Wrap(head) /\ Slot(reg[t].idx) = Slot(head)
    BY <1>7, PopAtHead
  <2>2. EmptySeq(reg[t].idx + N) = EmptySeq(head + N)
    BY <1>1, <2>1, Wrapped
  <2>3. /\ head' = head + 1 /\ tail' = tail
        /\ array' = [array EXCEPT ![Slot(head)] = EmptyEntry(reg[t].idx + N)]
    BY <1>7, <2>1 DEF RdCas, Cleared
  <2>4. Slot(head + N) = Slot(head)
    <3> DEFINE u == head + N
    <3>1. /\ u \in Int /\ head \in Int /\ N \in Nat \ {0} /\ 1 \in Int
          /\ u = head + N * 1
      BY <1>1
    <3> HIDE DEF u
    <3>2. u % N = head % N
      BY <3>1, Congruent, Zenon
    <3> QED
      BY <3>2 DEF u, Slot
  <2>5. ASSUME NEW j \in head + 1 .. head + N PROVE Serves(j)'
    <3>1. CASE Slot(j) = Slot(head)
      <4>1. /\ j \in Int /\ head + N \in Int
            /\ j - (head + N) < N /\ (head + N) - j < N
        BY <1>1
      <4>2. j = head + N
        BY <2>4, <3>1, <4>1, SameSlot
      <4>3. /\ array'[Slot(j)].seq = EmptySeq(j)
            /\ array'[Slot(j)].data = Zero
        BY <1>1, <1>3, <1>4, <2>2, <2>3, <2>4, <4>2 DEF EmptyEntry
      <4> QED
        BY <1>1, <2>3, <4>2, <4>3 DEF Serves
    <3>2. CASE Slot(j) # Slot(head)
      <4>1. array'[Slot(j)] = array[Slot(j)]
        BY <1>3, <1>4, <2>3, <3>2
      <4>2. j # head + N /\ j \in head .. head + N - 1
        BY <1>1, <2>4, <3>2
      <4>3. Serves(j) /\ j \in Int
        BY <1>1, <1>2, <4>2
      <4> QED
        BY <1>1, <2>3, <4>1, <4>3 DEF Serves
    <3> QED
      BY <3>1, <3>2
  <2>6. head' + N - 1 = head + N
    BY <1>1, <2>3
  <2>7. head' <= tail' /\ tail' <= head' + N
    BY <1>1, <2>1, <2>3
  <2> QED
    BY <2>3, <2>5, <2>6, <2>7 DEF Window
<1>8. ASSUME NEW t \in Threads, Exchange(t) PROVE Window'
  <2> DEFINE i == req[t].index
  <2>1. i \in Int
    BY HalfRange DEF IInv, TypeOK, Request
  <2>2. /\ head' = head /\ tail' = tail /\ array[Slot(i)].seq = FullSeq(i)
        /\ array' = [array EXCEPT ![Slot(i)] = FullEntry(i, req[t].data)]
    BY <1>8 DEF Exchange, Target, FullEntry
  <2> HIDE DEF i
  <2>3. ASSUME NEW j \in head .. head + N - 1 PROVE Serves(j)'
    <3>1. CASE Slot(j) = Slot(i)
      <4>1. array'[Slot(j)].seq = array[Slot(j)].seq
        BY <1>3, <1>4, <2>1, <2>2, <3>1 DEF FullEntry
      <4>2. Serves(j) /\ j \in Int
        BY <1>1, <1>2
      <4>3. FullSeq(i) # EmptySeq(j)
        <5> DEFINE x == i % Half
                   y == j % Half
        <5>1. Half \in Int
          BY HalfRange
        <5>2. FullSeq(i) = 2 * x + 1 /\ x \in Int
          BY <2>1, <5>1, SeqWord
        <5>3. EmptySeq(j) = 2 * y /\ y \in Int
          BY <4>2, <5>1, SeqWord
        <5> HIDE DEF x, y
        <5> QED
          BY <5>2, <5>3
      <4>4. j < tail
        BY <2>2, <3>1, <4>2, <4>3 DEF Serves
      <4> QED
        BY <1>1, <2>2, <4>1, <4>2, <4>4 DEF Serves
    <3>2. CASE Slot(j) # Slot(i)
      <4>1. array'[Slot(j)] = array[Slot(j)]
        BY <1>3, <1>4, <2>2, <3>2
      <4> QED
        BY <1>2, <2>2, <4>1 DEF Serves
    <3> QED
      BY <3>1, <3>2
  <2> QED
    BY <1>1, <2>2, <2>3 DEF Window
<1> QED
  BY <1>5, <1>6, <1>7, <1>8, ElementSteps
------------------------------------------------------------------------------
(* The shared indexes stay current, or one behind. *)

(* A thread about to advance an index it knows to be out of date.          *)
LEMMA WriteAdvance ==
  ASSUME NoAba, IInv, NEW t \in Threads, WrAdv(t) \/ WrHelp(t)
  PROVE  /\ UNCHANGED <<read_index, head, tail>>
         /\ Current(write_index', tail) \/ OneBehind(write_index', tail)
         /\ Current(write_index, tail) => Current(write_index', tail)
<1> DEFINE b == reg[t].base
<1>1. pc[t] \in {"wr_adv", "wr_help"}
  BY DEF WrAdv, WrHelp
<1>2. WriteRegister(t)
  BY <1>1 DEF IInv, Registers, WritePCs
<1>3. /\ b \in Nat /\ tail \in Nat /\ b < tail /\ tail - b <= MaxLag
      /\ reg[t].idx = Wrap(b)
  BY <1>1, <1>2 DEF WriteRegister, IInv, TypeOK, Regs
<1>4. write_index' = IF write_index = Wrap(b) THEN Wrap(Wrap(b) + 1) ELSE write_index
  BY <1>3 DEF WrAdv, WrHelp, AdvanceWrite
<1>5. Current(write_index, tail) \/ OneBehind(write_index, tail)
  BY DEF IInv, IndexLag
<1> HIDE DEF b
<1>6. /\ Current(write_index', tail) \/ OneBehind(write_index', tail)
      /\ Current(write_index, tail) => Current(write_index', tail)
  BY <1>3, <1>4, <1>5, Advances
<1> QED
  BY <1>6 DEF WrAdv, WrHelp

LEMMA ReadAdvance ==
  ASSUME NoAba, IInv, NEW t \in Threads, RdAdv(t) \/ RdHelp(t)
  PROVE  /\ UNCHANGED <<write_index, head, tail>>
         /\ Current(read_index', head) \/ OneBehind(read_index', head)
         /\ Current(read_index, head) => Current(read_index', head)
<1> DEFINE b == reg[t].base
<1>1. pc[t] \in {"rd_adv", "rd_help"}
  BY DEF RdAdv, RdHelp
<1>2. ReadRegister(t)
  BY <1>1 DEF IInv, Registers, ReadPCs
<1>3. /\ b \in Nat /\ head \in Nat /\ b < head /\ head - b <= MaxLag
      /\ reg[t].idx = Wrap(b)
  BY <1>1, <1>2 DEF ReadRegister, IInv, TypeOK, Regs
<1>4. read_index' = IF read_index = Wrap(b) THEN Wrap(Wrap(b) + 1) ELSE read_index
  BY <1>3 DEF RdAdv, RdHelp, AdvanceRead
<1>5. Current(read_index, head) \/ OneBehind(read_index, head)
  BY DEF IInv, IndexLag
<1> HIDE DEF b
<1>6. /\ Current(read_index', head) \/ OneBehind(read_index', head)
      /\ Current(read_index, head) => Current(read_index', head)
  BY <1>3, <1>4, <1>5, Advances
<1> QED
  BY <1>6 DEF RdAdv, RdHelp

(* Only these steps change an index or a count.                            *)
LEMMA IndexSteps ==
  ASSUME [Next]_vars
  PROVE  \/ UNCHANGED <<write_index, read_index, head, tail>>
         \/ \E t \in Threads : \/ WrCas(t) \/ WrAdv(t) \/ WrHelp(t)
                               \/ RdCas(t) \/ RdAdv(t) \/ RdHelp(t)
BY DEF Next, Step, Pushing, Popping, Done, vars, shared, Call, WrLoad, WrReady,
       WrBehind, WrMoved, WrFull, KeepFull, WrCasFails, RdLoad, RdReady, Refuse,
       Peek, RdBehind, RdMoved, RdEmpty, KeepEmpty, EmptyTest, RdCasFails, Stop,
       Continue, Exchange, ExchangeFails

LEMMA IndexStep == ASSUME NoAba, IInv, [Next]_vars PROVE IndexLag' /\ Started'
<1>1. /\ head \in Int /\ tail \in Int /\ First \in Int
      /\ First <= head /\ head <= tail
  BY Numbers
<1>2. IndexLag
  BY DEF IInv
<1>3. CASE UNCHANGED <<write_index, read_index, head, tail>>
  BY <1>1, <1>2, <1>3 DEF IndexLag, Current, OneBehind, Started
<1>4. ASSUME NEW t \in Threads, WrCas(t) PROVE IndexLag' /\ Started'
  <2>1. WriteRegister(t)
    BY <1>4 DEF IInv, Registers, WrCas, WritePCs
  <2>2. write_index = Wrap(tail)
    BY <1>4, <2>1, PushAtTail DEF WriteRegister, Current
  <2>3. UNCHANGED <<write_index, read_index, head>> /\ tail' = tail + 1
    BY <1>4 DEF WrCas
  <2>4. OneBehind(write_index, tail)'
    BY <1>1, <2>2, <2>3 DEF OneBehind
  <2> QED
    BY <1>1, <1>2, <2>3, <2>4 DEF IndexLag, Current, OneBehind, Started
<1>5. ASSUME NEW t \in Threads, RdCas(t) PROVE IndexLag' /\ Started'
  <2>1. ReadRegister(t)
    BY <1>5 DEF IInv, Registers, RdCas, ReadPCs
  <2>2. read_index = Wrap(head)
    BY <1>5, <2>1, PopAtHead DEF ReadRegister, Current
  <2>3. UNCHANGED <<write_index, read_index, tail>> /\ head' = head + 1
    BY <1>5 DEF RdCas
  <2>4. OneBehind(read_index, head)'
    BY <1>1, <2>2, <2>3 DEF OneBehind
  <2> QED
    BY <1>1, <1>2, <2>3, <2>4 DEF IndexLag, Current, OneBehind, Started
<1>6. ASSUME NEW t \in Threads, WrAdv(t) \/ WrHelp(t) PROVE IndexLag' /\ Started'
  BY <1>1, <1>2, <1>6, WriteAdvance DEF IndexLag, Current, OneBehind, Started
<1>7. ASSUME NEW t \in Threads, RdAdv(t) \/ RdHelp(t) PROVE IndexLag' /\ Started'
  BY <1>1, <1>2, <1>7, ReadAdvance DEF IndexLag, Current, OneBehind, Started
<1> QED
  BY <1>3, <1>4, <1>5, <1>6, <1>7, IndexSteps
------------------------------------------------------------------------------
(* The registers of the threads. *)

(* How a thread gets, keeps and uses the index of a push.                  *)
LEMMA WriteThreads ==
  ASSUME TypeOK, [Next]_vars, NEW u \in Threads, pc'[u] \in WritePCs
  PROVE  \/ WrLoad(u) \/ WrBehind(u) \/ WrCas(u)
         \/ /\ pc[u] \in WritePCs
            /\ reg'[u].idx = reg[u].idx /\ reg'[u].base = reg[u].base
            /\ pc'[u] \in {"wr_adv", "wr_help"} => pc'[u] = pc[u]
            /\ \/ UNCHANGED <<write_index, tail>>
               \/ \E t \in Threads : WrAdv(t) \/ WrHelp(t)
               \/ \E t \in Threads \ {u} : WrCas(t)
<1> DEFINE Kept == /\ pc[u] \in WritePCs
                   /\ reg'[u].idx = reg[u].idx /\ reg'[u].base = reg[u].base
                   /\ pc'[u] \in {"wr_adv", "wr_help"} => pc'[u] = pc[u]
<1>1. pc \in [Threads -> PCs] /\ reg \in [Threads -> Regs]
  BY DEF TypeOK
<1>2. CASE UNCHANGED vars
  BY <1>2 DEF vars
<1>3. ASSUME NEW t \in Threads, Call(t)
      PROVE  Kept /\ UNCHANGED <<write_index, tail>>
  BY <1>1, <1>3 DEF Call, Start, Goto, shared, WritePCs
<1>4. ASSUME NEW t \in Threads, Popping(t) \/ Exchange(t) \/ ExchangeFails(t)
      PROVE  Kept /\ UNCHANGED <<write_index, tail>>
  BY <1>1, <1>4
  DEF Popping, RdLoad, RdReady, Refuse, Peek, RdBehind, RdMoved, RdEmpty,
      KeepEmpty, EmptyTest, RdCas, RdCasFails, RdAdv, RdHelp, Stop, Continue,
      Exchange, ExchangeFails, AfterPop, Goto, Leave, shared, WritePCs
<1>5. ASSUME NEW t \in Threads, WrLoad(t) \/ WrBehind(t), t # u
      PROVE  Kept /\ UNCHANGED <<write_index, tail>>
  BY <1>1, <1>5 DEF WrLoad, WrBehind, Sees, Goto, shared, WritePCs
<1>6. ASSUME NEW t \in Threads,
             WrReady(t) \/ WrMoved(t) \/ WrFull(t) \/ KeepFull(t) \/
             WrCasFails(t)
      PROVE  Kept /\ UNCHANGED <<write_index, tail>>
  BY <1>1, <1>6
  DEF WrReady, WrMoved, WrFull, KeepFull, WrCasFails, Sees, Goto, Leave,
      shared, WritePCs, Regs
<1>7. ASSUME NEW t \in Threads, WrCas(t), t # u
      PROVE  Kept
  BY <1>1, <1>7 DEF WrCas, Leave, Goto, WritePCs
<1>8. ASSUME NEW t \in Threads, WrAdv(t) \/ WrHelp(t)
      PROVE  Kept
  BY <1>1, <1>8 DEF WrAdv, WrHelp, Leave, Goto, WritePCs
<1> HIDE DEF Kept
<1>9. CASE \E t \in Threads : Pushing(t)
  BY <1>5, <1>6, <1>7, <1>8, <1>9 DEF Pushing, Kept
<1> QED
  BY <1>2, <1>3, <1>4, <1>9 DEF Next, Step, Done, Kept

LEMMA WriteStep ==
  ASSUME NoAba, IInv, [Next]_vars, NEW u \in Threads, pc'[u] \in WritePCs
  PROVE  WriteRegister(u)'
<1>1. TypeOK /\ IndexLag /\ Counts /\ Window
  BY Numbers DEF IInv
<1>2. /\ tail \in Int /\ tail \in Nat /\ MaxLag \in Int /\ 1 <= MaxLag
      /\ reg[u].base \in Int
  BY Numbers DEF Counts
<1>3. pc[u] \in WritePCs => WriteRegister(u)
  BY DEF IInv, Registers
<1>4. CASE WrLoad(u)
  <2> DEFINE b == tail - Wrap(tail - write_index)
  <2>1. /\ b <= tail /\ tail - b <= 1 /\ write_index = Wrap(b)
        /\ b = tail => Current(write_index, tail)
    BY <1>1, <1>2, Loads DEF IndexLag
  <2>2. b \in Int
    BY <1>1, <1>2, Loads DEF IndexLag
  <2>3. /\ reg'[u].idx = write_index /\ reg'[u].base = b /\ pc'[u] = "wr_seq"
        /\ write_index' = write_index /\ tail' = tail
    BY <1>1, <1>4 DEF WrLoad, Goto, shared, Reg, TypeOK
  <2> HIDE DEF b
  <2> QED
    BY <1>2, <2>1, <2>2, <2>3 DEF WriteRegister, Current
<1>5. CASE WrBehind(u)
  <2> DEFINE b == reg[u].base
             seq == array[Slot(reg[u].idx)].seq
  <2>1. /\ WriteRegister(u) /\ reg[u].idx = Wrap(b)
        /\ b \in Int /\ b <= tail /\ tail - b <= MaxLag
    BY <1>2, <1>3, <1>5 DEF WrBehind, Sees, WritePCs, WriteRegister
  <2>2. WriteView(Wrap(b), seq) = "behind"
    BY <1>5, <2>1 DEF WrBehind, Sees
  <2>3. seq = array[Slot(Wrap(b))].seq
    BY <2>1
  <2>4. /\ reg' = reg /\ UNCHANGED <<write_index, tail>>
    BY <1>5 DEF WrBehind, shared
  <2> HIDE DEF b, seq
  <2>5. b < tail
    BY <1>1, <2>1, <2>2, <2>3, WriteLookup
  <2> QED
    BY <2>1, <2>4, <2>5 DEF WriteRegister, Current, b
<1>6. CASE WrCas(u)
  <2>1. reg[u].base = tail /\ reg[u].idx = Wrap(tail)
    BY <1>6, PushAtTail
  <2>2. tail' = tail + 1
    BY <1>6 DEF WrCas
  <2>3. reg'[u] = reg[u]
    BY <1>1, <1>6 DEF WrCas, Leave, Goto, WritePCs, TypeOK
  <2> QED
    BY <1>2, <2>1, <2>2, <2>3 DEF WriteRegister
<1>7. ASSUME pc[u] \in WritePCs,
             reg'[u].idx = reg[u].idx, reg'[u].base = reg[u].base,
             pc'[u] \in {"wr_adv", "wr_help"} => pc'[u] = pc[u],
             \/ UNCHANGED <<write_index, tail>>
             \/ \E t \in Threads : WrAdv(t) \/ WrHelp(t)
             \/ \E t \in Threads \ {u} : WrCas(t)
      PROVE  WriteRegister(u)'
  <2>1. WriteRegister(u)
    BY <1>3, <1>7
  <2>2. CASE UNCHANGED <<write_index, tail>>
    BY <1>7, <2>1, <2>2 DEF WriteRegister, Current
  <2>3. ASSUME NEW t \in Threads, WrAdv(t) \/ WrHelp(t)
        PROVE  WriteRegister(u)'
    <3>1. tail' = tail /\ (Current(write_index, tail) => Current(write_index', tail))
      BY <2>3, WriteAdvance
    <3> QED
      BY <1>7, <2>1, <3>1 DEF WriteRegister, Current
  <2>4. ASSUME NEW t \in Threads \ {u}, WrCas(t)
        PROVE  WriteRegister(u)'
    <3>1. tail' = tail + 1 /\ (tail + 1) - reg[u].base <= MaxLag
      BY <1>7, <2>4 DEF WrCas, Timely
    <3> QED
      BY <1>2, <1>7, <2>1, <3>1 DEF WriteRegister
  <2> QED
    BY <1>7, <2>2, <2>3, <2>4
<1> QED
  BY <1>1, <1>4, <1>5, <1>6, <1>7, WriteThreads

(* How a thread gets, keeps and uses the index of a pop.                   *)
LEMMA ReadThreads ==
  ASSUME TypeOK, [Next]_vars, NEW u \in Threads, pc'[u] \in ReadPCs
  PROVE  \/ RdLoad(u) \/ RdBehind(u) \/ RdCas(u)
         \/ /\ pc[u] \in ReadPCs
            /\ reg'[u].idx = reg[u].idx /\ reg'[u].base = reg[u].base
            /\ pc'[u] \in {"rd_adv", "rd_help"} => pc'[u] = pc[u]
            /\ \/ UNCHANGED <<read_index, head>>
               \/ \E t \in Threads : RdAdv(t) \/ RdHelp(t)
               \/ \E t \in Threads \ {u} : RdCas(t)
<1> DEFINE Kept == /\ pc[u] \in ReadPCs
                   /\ reg'[u].idx = reg[u].idx /\ reg'[u].base = reg[u].base
                   /\ pc'[u] \in {"rd_adv", "rd_help"} => pc'[u] = pc[u]
<1>1. pc \in [Threads -> PCs] /\ reg \in [Threads -> Regs]
  BY DEF TypeOK
<1>2. CASE UNCHANGED vars
  BY <1>2 DEF vars
<1>3. ASSUME NEW t \in Threads, Call(t)
      PROVE  Kept /\ UNCHANGED <<read_index, head>>
  BY <1>1, <1>3 DEF Call, Start, Goto, shared, ReadPCs
<1>4. ASSUME NEW t \in Threads, Pushing(t) \/ Exchange(t) \/ ExchangeFails(t)
      PROVE  Kept /\ UNCHANGED <<read_index, head>>
  BY <1>1, <1>4
  DEF Pushing, WrLoad, WrReady, WrBehind, WrMoved, WrFull, KeepFull, WrCas,
      WrCasFails, WrAdv, WrHelp, Exchange, ExchangeFails, Goto, Leave, shared,
      ReadPCs
<1>5. ASSUME NEW t \in Threads, RdLoad(t) \/ RdBehind(t), t # u
      PROVE  Kept /\ UNCHANGED <<read_index, head>>
  BY <1>1, <1>5 DEF RdLoad, RdBehind, Finds, Goto, shared, ReadPCs
<1>6. ASSUME NEW t \in Threads,
             RdReady(t) \/ Refuse(t) \/ Peek(t) \/ RdMoved(t) \/ RdEmpty(t) \/
             KeepEmpty(t) \/ EmptyTest(t) \/ RdCasFails(t) \/ Stop(t) \/
             Continue(t)
      PROVE  Kept /\ UNCHANGED <<read_index, head>>
  BY <1>1, <1>6
  DEF RdReady, Refuse, Peek, RdMoved, RdEmpty, KeepEmpty, EmptyTest,
      RdCasFails, Stop, Continue, Finds, Goto, Leave, shared, ReadPCs, Regs
<1>7. ASSUME NEW t \in Threads, RdCas(t), t # u
      PROVE  Kept
  BY <1>1, <1>7 DEF RdCas, AfterPop, Leave, Goto, ReadPCs
<1>8. ASSUME NEW t \in Threads, RdAdv(t) \/ RdHelp(t)
      PROVE  Kept
  BY <1>1, <1>8 DEF RdAdv, RdHelp, AfterPop, Leave, Goto, ReadPCs
<1> HIDE DEF Kept
<1>9. CASE \E t \in Threads : Popping(t)
  BY <1>5, <1>6, <1>7, <1>8, <1>9 DEF Popping, Kept
<1> QED
  BY <1>2, <1>3, <1>4, <1>9 DEF Next, Step, Done, Kept

LEMMA ReadStep ==
  ASSUME NoAba, IInv, [Next]_vars, NEW u \in Threads, pc'[u] \in ReadPCs
  PROVE  ReadRegister(u)'
<1>1. TypeOK /\ IndexLag /\ Counts /\ Window
  BY Numbers DEF IInv
<1>2. /\ head \in Int /\ head \in Nat /\ MaxLag \in Int /\ 1 <= MaxLag
      /\ reg[u].base \in Int
  BY Numbers DEF Counts
<1>3. pc[u] \in ReadPCs => ReadRegister(u)
  BY DEF IInv, Registers
<1>4. CASE RdLoad(u)
  <2> DEFINE b == head - Wrap(head - read_index)
  <2>1. /\ b <= head /\ head - b <= 1 /\ read_index = Wrap(b)
        /\ b = head => Current(read_index, head)
    BY <1>1, <1>2, Loads DEF IndexLag
  <2>2. b \in Int
    BY <1>1, <1>2, Loads DEF IndexLag
  <2>3. /\ reg'[u].idx = read_index /\ reg'[u].base = b /\ pc'[u] = "rd_entry"
        /\ read_index' = read_index /\ head' = head
    BY <1>1, <1>4 DEF RdLoad, Goto, shared, Reg, TypeOK
  <2> HIDE DEF b
  <2> QED
    BY <1>2, <2>1, <2>2, <2>3 DEF ReadRegister, Current
<1>5. CASE RdBehind(u)
  <2> DEFINE b == reg[u].base
             seq == array[Slot(reg[u].idx)].seq
  <2>1. /\ ReadRegister(u) /\ reg[u].idx = Wrap(b)
        /\ b \in Int /\ b <= head /\ head - b <= MaxLag
    BY <1>2, <1>3, <1>5 DEF RdBehind, Finds, ReadPCs, ReadRegister
  <2>2. View(req[u].op, Wrap(b), seq) = "behind"
    BY <1>5, <2>1 DEF RdBehind, Finds
  <2>3. seq = array[Slot(Wrap(b))].seq
    BY <2>1
  <2>4. /\ reg' = reg /\ UNCHANGED <<read_index, head>>
    BY <1>5 DEF RdBehind, shared
  <2> HIDE DEF b, seq
  <2>5. b < head
    BY <1>1, <2>1, <2>2, <2>3, ReadLookup
  <2> QED
    BY <2>1, <2>4, <2>5 DEF ReadRegister, Current, b
<1>6. CASE RdCas(u)
  <2>1. reg[u].base = head /\ reg[u].idx = Wrap(head)
    BY <1>6, PopAtHead
  <2>2. head' = head + 1
    BY <1>6 DEF RdCas
  <2>3. reg'[u] = reg[u]
    BY <1>1, <1>6 DEF RdCas, AfterPop, Leave, Goto, ReadPCs, TypeOK
  <2> QED
    BY <1>2, <2>1, <2>2, <2>3 DEF ReadRegister
<1>7. ASSUME pc[u] \in ReadPCs,
             reg'[u].idx = reg[u].idx, reg'[u].base = reg[u].base,
             pc'[u] \in {"rd_adv", "rd_help"} => pc'[u] = pc[u],
             \/ UNCHANGED <<read_index, head>>
             \/ \E t \in Threads : RdAdv(t) \/ RdHelp(t)
             \/ \E t \in Threads \ {u} : RdCas(t)
      PROVE  ReadRegister(u)'
  <2>1. ReadRegister(u)
    BY <1>3, <1>7
  <2>2. CASE UNCHANGED <<read_index, head>>
    BY <1>7, <2>1, <2>2 DEF ReadRegister, Current
  <2>3. ASSUME NEW t \in Threads, RdAdv(t) \/ RdHelp(t)
        PROVE  ReadRegister(u)'
    <3>1. head' = head /\ (Current(read_index, head) => Current(read_index', head))
      BY <2>3, ReadAdvance
    <3> QED
      BY <1>7, <2>1, <3>1 DEF ReadRegister, Current
  <2>4. ASSUME NEW t \in Threads \ {u}, RdCas(t)
        PROVE  ReadRegister(u)'
    <3>1. head' = head + 1 /\ (head + 1) - reg[u].base <= MaxLag
      BY <1>7, <2>4 DEF RdCas, Timely
    <3> QED
      BY <1>2, <1>7, <2>1, <3>1 DEF ReadRegister
  <2> QED
    BY <1>7, <2>2, <2>3, <2>4
<1> QED
  BY <1>1, <1>4, <1>5, <1>6, <1>7, ReadThreads
------------------------------------------------------------------------------
(* The theorems. *)

(* The invariant is inductive.                                             *)
LEMMA StepInv == ASSUME NoAba, IInv, [Next]_vars PROVE IInv'
<1>1. TypeOK'
  BY TypeStep
<1>2. Window'
  BY WindowStep
<1>3. IndexLag' /\ Started'
  BY IndexStep
<1>4. Registers'
  <2>1. ASSUME NEW u \in Threads, pc'[u] \in WritePCs PROVE WriteRegister(u)'
    BY <2>1, WriteStep
  <2>2. ASSUME NEW u \in Threads, pc'[u] \in ReadPCs PROVE ReadRegister(u)'
    BY <2>2, ReadStep
  <2> QED
    BY <2>1, <2>2 DEF Registers, WritePCs, ReadPCs
<1> QED
  BY <1>1, <1>2, <1>3, <1>4 DEF IInv

(* The four invariants together hold in every execution in which no thread *)
(* holds a loaded index for half the index range (push, push_keep_n, pop,  *)
(* peek, pop_if, consume, exchange, eager or lazy).                        *)
THEOREM Safety == ASSUME NoAba PROVE Spec => []IInv
<1>1. Init => IInv
  BY InitInv
<1>2. IInv /\ [Next]_vars => IInv'
  BY StepInv
<1> QED
  BY <1>1, <1>2, PTL DEF Spec

(* Every index, sequence word and result is a value of its C++ type: each  *)
(* index_type computation in mpmc_queue.h has been reduced to its width.   *)
THEOREM TypeSafety == ASSUME NoAba PROVE Spec => []TypeOK
<1>1. IInv => TypeOK
  BY DEF IInv
<1> QED
  BY <1>1, Safety, PTL

(* No push, pop or exchange ever loses, overwrites, duplicates or reorders *)
(* an element: the slots always serve the N numbers from the head.         *)
THEOREM WindowSafety == ASSUME NoAba PROVE Spec => []Window
<1>1. IInv => Window
  BY DEF IInv
<1> QED
  BY <1>1, Safety, PTL

(* The cooperative advance of write_index and read_index never skips a     *)
(* number and is never two behind, however many threads help.              *)
THEOREM IndexSafety == ASSUME NoAba PROVE Spec => []IndexLag
<1>1. IInv => IndexLag
  BY DEF IInv
<1> QED
  BY <1>1, Safety, PTL

(* The index a thread loaded is a past value of the shared one, and really *)
(* out of date when the thread advances the shared one because of it.      *)
THEOREM RegisterSafety == ASSUME NoAba PROVE Spec => []Registers
<1>1. IInv => Registers
  BY DEF IInv
<1> QED
  BY <1>1, Safety, PTL
==============================================================================
