----------------------------- MODULE HarnessProofs -----------------------------
(* What the programs find out at their end, for any number of threads, any *)
(* capacity and any number of elements: that the hashes agree in the tests *)
(* hash2 and hash3 and in QTiming::run, and that the counts agree and the  *)
(* queue is empty in the programs that count, wait or send a last element. *)
EXTENDS BandwidthProofs

------------------------------------------------------------------------------
(* Hashes.  With one consumer the queue keeps the order; with several      *)
(* (hash3) the test for the element's turn does.                           *)

(* The number of an element in its producer's output, and back: the last   *)
(* element of QTiming is a 0.                                              *)
Number(e) == IF e.n = 0 THEN Last ELSE e.n
Value(i) == IF i = Last THEN 0 ELSE i

(* The elements of p in q are those after lo up to hi, in order.           *)
At(q, p) == { i \in DOMAIN q : q[i].from = p }

Line(q, p, lo, hi) ==
  /\ lo <= hi
  /\ \A i \in At(q, p) : lo < Number(q[i]) /\ Number(q[i]) <= hi
  /\ \A x \in lo + 1 .. hi : \E i \in At(q, p) : Number(q[i]) = x
  /\ \A i, j \in At(q, p) : i < j => Number(q[i]) < Number(q[j])

(* A consumer of hash2 and hash3 between its pop and its use of the        *)
(* element.                                                                *)
Hands == {"lock", "hash", "yield", "add", "state"}
Holding(c) == pc[c] \in Hands
Holds(c, p) == Holding(c) /\ held[c].from = p

(* The elements of p that have left the queue.                             *)
Popped(p) == IF \E c \in Consumers : Holds(c, p) THEN Len(out[p]) + 1
             ELSE Len(out[p])

Hashing == {"timing", "hash2", "hash3"}
Elements == [from : Producers, n : 0 .. Items]

(* Only QTiming sends a 0, and its reader needs no lock.                   *)
Ranges ==
  IF program = "timing"
  THEN \A c \in Consumers : pc[c] \in {"new", "start", "done"}
  ELSE /\ \A i \in DOMAIN queue : queue[i].n # 0
       /\ \A c \in Consumers : Holding(c) => held[c].n # 0

HTypeOK ==
  /\ DOMAIN pc = Threads
  /\ queue \in Seq(Elements)
  /\ sent \in [Producers -> 0 .. Quota]
  /\ out \in [Producers -> Seq(Nat)]
  /\ DOMAIN held = Consumers
  /\ \A c \in Consumers : Holding(c) => held[c] \in Elements

(* One consumer at most takes part.                                        *)
Single == \A c, d \in Consumers : pc[c] # "done" /\ pc[d] # "done" => c = d

(* The elements of p go through the queue, the consumer's hands and into   *)
(* the hash in one line.                                                   *)
InLine(p) == /\ Line(queue, p, Popped(p), sent[p])
             /\ \A c \in Consumers : Holds(c, p) => Number(held[c]) = Popped(p)

Ordered == program # "hash3" => Single /\ \A p \in Producers : InLine(p)

(* What the hash of p's output is made of.                                 *)
Agrees(p) == \A i \in DOMAIN out[p] : out[p][i] = Value(i)

HashInv == HTypeOK /\ Ranges /\ Ordered /\ \A p \in Producers : Agrees(p)

(* A consumer that has the spin lock of a hash.                            *)
Inner == {"hash", "yield", "add", "state", "tally", "unlock"}
Inside(c) == pc[c] \in Inner
Source(c) == held[c].from

LTypeOK == /\ lock \in [Producers -> Consumers \cup {None}]
           /\ hash_count \in [Producers -> Int]
           /\ \A c \in Consumers : Inside(c) => Source(c) \in Producers

Mutex == \A c \in Consumers : Inside(c) => lock[Source(c)] = c

(* The count of a hash and its value are updated one after the other, and  *)
(* differ only in between; whoever is about to update the value of a hash  *)
(* of hash3 has its next element.                                          *)
Knows(c) ==
  LET length == Len(out[Source(c)])
      count == hash_count[Source(c)]
  IN  /\ pc[c] = "state" => count = length + 1
      /\ pc[c] = "tally" => count + 1 = length
      /\ pc[c] \in Inner \ {"state", "tally"} => count = length
      /\ pc[c] \in {"add", "state"} /\ program = "hash3" => held[c].n = length + 1

Idle == \A p \in Producers : lock[p] = None => hash_count[p] = Len(out[p])

LockInv == LTypeOK /\ Mutex /\ Idle /\ \A c \in Consumers : Inside(c) => Knows(c)
------------------------------------------------------------------------------
(* Lines of elements. *)

LEMMA Numbers ==
  ASSUME NEW e \in Elements
  PROVE  /\ Number(e) \in Nat /\ e.n = Value(Number(e))
         /\ e.n # 0 => Number(e) = e.n /\ Value(e.n) = e.n
BY HarnessAssumption DEF Elements, Number, Value, Last

LEMMA LineAppend ==
  ASSUME NEW q \in Seq(Elements), NEW e \in Elements, NEW p,
         NEW lo \in Nat, NEW hi \in Nat, Line(q, p, lo, hi)
  PROVE  /\ e.from # p => Line(Append(q, e), p, lo, hi)
         /\ e.from = p /\ Number(e) = hi + 1 => Line(Append(q, e), p, lo, hi + 1)
<1> DEFINE r == Append(q, e)
           m == Len(q) + 1
<1>1. /\ DOMAIN r = 1 .. m /\ DOMAIN q = 1 .. Len(q) /\ Len(q) \in Nat
      /\ \A i \in DOMAIN q : r[i] = q[i]
      /\ r[m] = e
  OBVIOUS
<1>2. /\ e.from # p => At(r, p) = At(q, p)
      /\ e.from = p => At(r, p) = At(q, p) \cup {m}
      /\ \A i \in At(q, p) : i \in 1 .. Len(q) /\ r[i] = q[i]
  BY <1>1 DEF At
<1>3. \A i \in At(q, p) : Number(q[i]) \in Nat
  BY Numbers DEF At
<1> HIDE DEF r, m
<1>4. CASE e.from # p
  BY <1>2, <1>4 DEF Line, r
<1>5. CASE e.from = p /\ Number(e) = hi + 1
  <2>1. \A i \in At(r, p) : \/ i \in At(q, p) /\ i < m /\ r[i] = q[i]
                            \/ i = m /\ Number(r[i]) = hi + 1
    BY <1>1, <1>2, <1>5 DEF m
  <2>2. \A i \in At(r, p) : lo < Number(r[i]) /\ Number(r[i]) <= hi + 1
    BY <1>3, <2>1 DEF Line
  <2>3. \A x \in lo + 1 .. hi + 1 : \E i \in At(r, p) : Number(r[i]) = x
    <3> SUFFICES ASSUME NEW x \in lo + 1 .. hi + 1
                 PROVE  \E i \in At(r, p) : Number(r[i]) = x
      OBVIOUS
    <3>1. CASE x = hi + 1
      BY <1>1, <1>2, <1>5, <3>1
    <3>2. CASE x \in lo + 1 .. hi
      BY <1>2, <1>5, <3>2 DEF Line
    <3> QED
      BY <3>1, <3>2
  <2>4. ASSUME NEW i \in At(r, p), NEW j \in At(r, p), i < j
        PROVE  Number(r[i]) < Number(r[j])
    <3>1. i \in At(q, p) /\ r[i] = q[i]
      <4>1. CASE i = m
        BY <1>1, <2>1, <2>4, <4>1 DEF m, At
      <4> QED
        BY <2>1, <2>4, <4>1
    <3>2. CASE j \in At(q, p)
      BY <1>2, <2>4, <3>1, <3>2 DEF Line
    <3>3. CASE Number(r[j]) = hi + 1
      BY <1>3, <3>1, <3>3 DEF Line
    <3> QED
      BY <2>1, <3>2, <3>3
  <2>5. Line(r, p, lo, hi + 1)
    <3>1. lo <= hi + 1
      BY DEF Line
    <3> QED
      BY <2>2, <2>3, <2>4, <3>1 DEF Line
  <2> QED
    BY <1>5, <2>5 DEF r
<1> QED
  BY <1>4, <1>5 DEF r

LEMMA LineTail ==
  ASSUME NEW q \in Seq(Elements), q # << >>, NEW p,
         NEW lo \in Nat, NEW hi \in Nat, Line(q, p, lo, hi)
  PROVE  /\ Head(q).from # p => Line(Tail(q), p, lo, hi)
         /\ Head(q).from = p => /\ Number(Head(q)) = lo + 1 /\ lo < hi
                                /\ Line(Tail(q), p, lo + 1, hi)
<1> DEFINE r == Tail(q)
<1>1. /\ DOMAIN q = 1 .. Len(q) /\ Len(q) \in Nat \ {0} /\ Head(q) = q[1]
      /\ DOMAIN r = 1 .. Len(q) - 1
      /\ \A i \in DOMAIN r : r[i] = q[i + 1]
  OBVIOUS
<1>2. /\ \A i \in At(r, p) : i \in Nat /\ i + 1 \in At(q, p) /\ r[i] = q[i + 1]
      /\ \A i \in At(q, p) : i \in Nat \ {0}
      /\ \A i \in At(q, p) \ {1} : i - 1 \in At(r, p) /\ r[i - 1] = q[i]
      /\ 1 \in At(q, p) <=> Head(q).from = p
  BY <1>1 DEF At
<1>3. \A i \in At(q, p) : Number(q[i]) \in Nat
  BY Numbers DEF At
<1> HIDE DEF r
<1>4. \A i, j \in At(r, p) : i < j => Number(r[i]) < Number(r[j])
  BY <1>2 DEF Line
<1>5. CASE Head(q).from # p
  <2>1. \A i \in At(q, p) : i - 1 \in At(r, p) /\ r[i - 1] = q[i]
    BY <1>2, <1>5
  <2>2. \A x \in lo + 1 .. hi : \E i \in At(r, p) : Number(r[i]) = x
    BY <2>1 DEF Line
  <2>3. \A i \in At(r, p) : lo < Number(r[i]) /\ Number(r[i]) <= hi
    BY <1>2 DEF Line
  <2> QED
    BY <1>4, <1>5, <2>2, <2>3 DEF Line, r
<1>6. CASE Head(q).from = p
  <2> DEFINE first == Number(q[1])
  <2>1. /\ 1 \in At(q, p) /\ first \in Nat /\ lo < first /\ first <= hi
        /\ \A i \in At(q, p) \ {1} : first < Number(q[i])
    BY <1>2, <1>3, <1>6 DEF Line
  <2> HIDE DEF first
  <2>2. PICK i \in At(q, p) : Number(q[i]) = lo + 1
    BY <2>1 DEF Line
  <2>3. first = lo + 1
    <3>1. CASE i = 1
      BY <2>2, <3>1 DEF first
    <3>2. CASE i # 1
      BY <2>1, <2>2, <3>2
    <3> QED
      BY <3>1, <3>2
  <2>4. ASSUME NEW x \in lo + 1 + 1 .. hi
        PROVE  \E j \in At(r, p) : Number(r[j]) = x
    <3>1. x \in lo + 1 .. hi /\ x # lo + 1
      OBVIOUS
    <3>2. PICK j \in At(q, p) : Number(q[j]) = x
      BY <3>1 DEF Line
    <3>3. j # 1
      BY <2>3, <3>1, <3>2 DEF first
    <3> QED
      BY <1>2, <3>2, <3>3
  <2>5. ASSUME NEW j \in At(r, p)
        PROVE  lo + 1 < Number(r[j]) /\ Number(r[j]) <= hi
    <3>1. j + 1 \in At(q, p) /\ j + 1 # 1 /\ r[j] = q[j + 1]
      <4>1. j \in DOMAIN r
        BY DEF At
      <4> QED
        BY <1>1, <1>2, <4>1
    <3>2. first < Number(q[j + 1]) /\ Number(q[j + 1]) <= hi
      BY <2>1, <3>1 DEF Line
    <3> QED
      BY <2>3, <3>1, <3>2
  <2>6. Line(r, p, lo + 1, hi)
    <3>1. lo + 1 <= hi
      BY <2>1, <2>3
    <3> QED
      BY <1>4, <2>4, <2>5, <3>1 DEF Line
  <2> QED
    BY <1>1, <1>6, <2>1, <2>3, <2>6 DEF first, r
<1> QED
  BY <1>5, <1>6
------------------------------------------------------------------------------
(* Steps. *)

LEMMA HashInit ==
  ASSUME Producers # {}, HInit, program \in Hashing
  PROVE  HashInv
<1>1. /\ queue = << >> /\ DOMAIN queue = {}
      /\ sent = [p \in Producers |-> 0] /\ out = [p \in Producers |-> << >>]
      /\ pc = [t \in Threads |-> IF t = Main THEN "main"
                                 ELSE IF t \in Team(program) THEN "new" ELSE "done"]
      /\ DOMAIN held = Consumers
  BY DEF HInit, Zeros
<1>2. \A c \in Consumers :
        /\ c \in Threads /\ c # Main
        /\ pc[c] = IF c \in Team(program) THEN "new" ELSE "done"
  BY <1>1, HarnessAssumption DEF Threads
<1>3. 0 \in 0 .. Quota
  BY HarnessAssumption DEF Quota, Last
<1>4. HTypeOK
  <2>1. /\ queue \in Seq(Elements) /\ sent \in [Producers -> 0 .. Quota]
        /\ out \in [Producers -> Seq(Nat)]
    BY <1>1, <1>3
  <2>2. DOMAIN pc = Threads
    BY <1>1
  <2>3. \A c \in Consumers : ~Holding(c)
    BY <1>2 DEF Holding, Hands
  <2> QED
    BY <1>1, <2>1, <2>2, <2>3 DEF HTypeOK
<1>5. Ranges
  BY <1>1, <1>2 DEF Ranges, Holding, Hands
<1>6. program # "hash3" => \A c \in Consumers : c \in Team(program) => c = First(Consumers)
  <2>1. CASE program = "timing"
    <3>1. Team(program) = {First(Producers), First(Consumers)}
      BY <2>1 DEF Team
    <3>2. First(Producers) \in Producers
      BY DEF First
    <3> QED
      BY <3>1, <3>2, HarnessAssumption
  <2>2. CASE program = "hash2"
    <3>1. Team(program) = Producers \cup {First(Consumers)}
      BY <2>2 DEF Team
    <3> QED
      BY <3>1, HarnessAssumption
  <2> QED
    BY <2>1, <2>2 DEF Hashing
<1>7. Single \/ program = "hash3"
  BY <1>2, <1>6 DEF Single
<1>8. ASSUME NEW p \in Producers PROVE InLine(p) /\ Agrees(p)
  <2>1. At(queue, p) = {} /\ Len(out[p]) = 0 /\ DOMAIN out[p] = {} /\ sent[p] = 0
    BY <1>1 DEF At
  <2>2. \A c \in Consumers : ~Holds(c, p)
    BY <1>2 DEF Holds, Holding, Hands
  <2>3. Popped(p) = 0
    BY <2>1, <2>2 DEF Popped
  <2> QED
    BY <2>1, <2>2, <2>3 DEF InLine, Agrees, Line
<1> QED
  BY <1>4, <1>5, <1>7, <1>8 DEF HashInv, Ordered

(* A step that moves no element.                                           *)
LEMMA QuietStep ==
  ASSUME HashInv, UNCHANGED <<program, queue, sent, out>>,
         DOMAIN pc' = Threads, DOMAIN held' = Consumers,
         \A c \in Consumers :
           /\ Holding(c)' <=> Holding(c)
           /\ Holding(c) => held'[c] = held[c]
           /\ pc[c] = "done" => pc'[c] = "done"
           /\ program = "timing" => pc'[c] \in {"new", "start", "done"}
  PROVE  HashInv'
<1>1. HTypeOK'
  BY DEF HashInv, HTypeOK, Quota
<1>2. Ranges'
  BY DEF HashInv, Ranges
<1>3. ASSUME NEW p \in Producers
      PROVE  /\ Agrees(p)'
             /\ \A c \in Consumers : Holds(c, p)' <=> Holds(c, p)
             /\ Popped(p)' = Popped(p)
  <2>1. Agrees(p)'
    BY DEF HashInv, Agrees
  <2>2. \A c \in Consumers : Holds(c, p)' <=> Holds(c, p)
    BY DEF Holds
  <2> QED
    BY <2>1, <2>2 DEF Popped
<1>4. ASSUME program # "hash3" PROVE Single' /\ \A p \in Producers : InLine(p)'
  <2>1. Single /\ \A p \in Producers : InLine(p)
    BY <1>4 DEF HashInv, Ordered
  <2>2. Single'
    BY <2>1 DEF Single
  <2>3. ASSUME NEW p \in Producers PROVE InLine(p)'
    <3>1. Line(queue, p, Popped(p), sent[p])'
      BY <1>3, <2>1 DEF InLine
    <3>2. \A c \in Consumers : Holds(c, p)' => Number(held[c])' = Popped(p)'
      BY <1>3, <2>1 DEF InLine, Holds
    <3> QED
      BY <3>1, <3>2 DEF InLine
  <2> QED
    BY <2>2, <2>3
<1> QED
  BY <1>1, <1>2, <1>3, <1>4 DEF HashInv, Ordered

LEMMA PoppedType ==
  ASSUME HTypeOK, NEW p \in Producers
  PROVE  Popped(p) \in Nat /\ Len(out[p]) \in Nat /\ sent[p] \in Nat
BY HarnessAssumption DEF HTypeOK, Popped, Quota, Last

LEMMA PushStep ==
  ASSUME HashInv, UNCHANGED <<program, pc, held, out>>,
         NEW p \in Producers, NEW e \in Elements, sent[p] < Quota,
         e.from = p, Number(e) = sent[p] + 1, program # "timing" => e.n # 0,
         queue' = Append(queue, e), sent' = [sent EXCEPT ![p] = @ + 1]
  PROVE  HashInv'
<1>1. /\ HTypeOK /\ queue \in Seq(Elements) /\ Len(queue) \in Nat
      /\ sent[p] \in 0 .. Quota /\ Quota \in Nat
      /\ \A u \in Producers : sent'[u] = IF u = p THEN sent[u] + 1 ELSE sent[u]
  BY HarnessAssumption DEF HashInv, HTypeOK, Quota, Last
<1>2. HTypeOK'
  <2>1. queue' \in Seq(Elements)
    BY <1>1
  <2>2. sent[p] + 1 \in 0 .. Quota
    BY <1>1
  <2>3. sent' \in [Producers -> 0 .. Quota]
    BY <1>1, <2>2 DEF HTypeOK
  <2> QED
    BY <1>1, <2>1, <2>3 DEF HTypeOK, Holding, Hands, Quota
<1>3. Ranges'
  <2>1. \A i \in DOMAIN queue' : \/ i \in DOMAIN queue /\ queue'[i] = queue[i]
                                 \/ queue'[i] = e
    BY <1>1
  <2> QED
    BY <2>1 DEF HashInv, Ranges, Holding, Hands
<1>4. ASSUME NEW u \in Producers PROVE Agrees(u)'
  BY DEF HashInv, Agrees
<1>5. ASSUME program # "hash3", NEW u \in Producers PROVE InLine(u)'
  <2>1. InLine(u) /\ Popped(u) \in Nat /\ sent[u] \in Nat
    BY <1>1, <1>5, PoppedType DEF HashInv, Ordered
  <2>2. /\ \A c \in Consumers : Holds(c, u)' <=> Holds(c, u)
        /\ Popped(u)' = Popped(u)
    BY DEF Holds, Holding, Hands, Popped
  <2>3. Line(Append(queue, e), u, Popped(u), sent'[u])
    BY <1>1, <2>1, LineAppend DEF InLine
  <2>4. Line(queue, u, Popped(u), sent[u])'
    BY <2>2, <2>3
  <2> QED
    BY <2>1, <2>2, <2>4 DEF InLine
<1>6. program # "hash3" => Single'
  BY DEF HashInv, Ordered, Single
<1> QED
  BY <1>2, <1>3, <1>4, <1>5, <1>6 DEF HashInv, Ordered

(* A pop of hash2 or hash3.                                                *)
LEMMA HPopStep ==
  ASSUME HashInv, program \in Hashing \ {"timing"}, NEW c \in Consumers,
         Pop(c), held' = [held EXCEPT ![c] = Head(queue)], Go(c, "pop", "lock"),
         UNCHANGED <<program, out>>
  PROVE  HashInv'
<1> DEFINE e == Head(queue)
<1>1. /\ HTypeOK /\ queue \in Seq(Elements) /\ queue # << >> /\ queue' = Tail(queue)
      /\ sent' = sent /\ DOMAIN held = Consumers
  BY DEF HashInv, HTypeOK, Pop
<1>2. /\ DOMAIN queue = 1 .. Len(queue) /\ Len(queue) \in Nat \ {0}
      /\ e = queue[1] /\ e \in Elements /\ 1 \in DOMAIN queue
      /\ queue' \in Seq(Elements)
      /\ \A i \in DOMAIN queue' : i + 1 \in DOMAIN queue /\ queue'[i] = queue[i + 1]
  BY <1>1
<1>3. e.n # 0 /\ \A i \in DOMAIN queue' : queue'[i].n # 0
  BY <1>2 DEF HashInv, Ranges
<1>4. /\ DOMAIN pc' = Threads /\ DOMAIN held' = Consumers
      /\ c \in Threads /\ pc[c] = "pop" /\ pc'[c] = "lock" /\ held'[c] = e
      /\ \A d \in Consumers \ {c} : d \in Threads /\ pc'[d] = pc[d] /\ held'[d] = held[d]
  BY <1>1 DEF Go, HTypeOK, Threads
<1> HIDE DEF e
<1>5. /\ ~Holding(c) /\ Holding(c)'
      /\ \A d \in Consumers \ {c} : Holding(d)' <=> Holding(d)
  BY <1>4 DEF Holding, Hands
<1>6. HTypeOK'
  BY <1>1, <1>2, <1>4, <1>5 DEF HTypeOK, Quota
<1>7. Ranges'
  BY <1>3, <1>4, <1>5 DEF HashInv, Ranges
<1>8. ASSUME NEW u \in Producers PROVE Agrees(u)'
  BY DEF HashInv, Agrees
<1>9. ASSUME program # "hash3" PROVE Single' /\ \A u \in Producers : InLine(u)'
  <2>1. Single /\ \A u \in Producers : InLine(u)
    BY <1>9 DEF HashInv, Ordered
  <2>2. Single'
    BY <1>4, <2>1 DEF Single
  <2>3. \A d \in Consumers \ {c} : ~Holding(d)
    BY <1>4, <2>1 DEF Single, Holding, Hands
  <2>4. ASSUME NEW u \in Producers PROVE InLine(u)'
    <3>1. /\ Popped(u) = Len(out[u])
          /\ Popped(u)' = IF e.from = u THEN Popped(u) + 1 ELSE Popped(u)
      <4>1. \A d \in Consumers : ~Holds(d, u)
        BY <1>5, <2>3 DEF Holds
      <4>2. (\E d \in Consumers : Holds(d, u)') <=> e.from = u
        BY <1>4, <1>5, <2>3 DEF Holds
      <4>3. Popped(u) = Len(out[u]) /\ Len(out[u]) \in Nat
        BY <1>1, <4>1, PoppedType, Zenon DEF Popped
      <4>4. Popped(u)' = IF e.from = u THEN Len(out[u]) + 1 ELSE Len(out[u])
        BY <1>1, <4>2, Zenon DEF Popped
      <4> QED
        BY <4>3, <4>4
    <3>2. Line(queue, u, Popped(u), sent[u]) /\ Popped(u) \in Nat /\ sent[u] \in Nat
      BY <1>1, <2>1, PoppedType DEF InLine
    <3>3. /\ e.from # u => Line(queue', u, Popped(u), sent[u])
          /\ e.from = u => /\ Number(e) = Popped(u) + 1
                           /\ Line(queue', u, Popped(u) + 1, sent[u])
      BY <1>1, <3>2, LineTail DEF e
    <3>4. Line(queue, u, Popped(u), sent[u])'
      BY <1>1, <3>1, <3>3
    <3>5. ASSUME NEW d \in Consumers, Holds(d, u)'
          PROVE  Number(held[d])' = Popped(u)'
      <4>1. d = c
        BY <1>5, <2>3, <3>5 DEF Holds
      <4>2. e.from = u /\ Number(held[d])' = Number(e)
        BY <1>4, <3>5, <4>1 DEF Holds, Number
      <4> QED
        BY <3>1, <3>3, <4>2
    <3> QED
      BY <3>4, <3>5 DEF InLine
  <2> QED
    BY <2>2, <2>4
<1> QED
  BY <1>6, <1>7, <1>8, <1>9 DEF HashInv, Ordered

(* What comes next in the line of its producer goes to the end of its hash.*)
LEMMA Extends ==
  ASSUME NEW s \in Seq(Nat), NEW x \in Nat, x = Value(Len(s) + 1),
         \A i \in DOMAIN s : s[i] = Value(i)
  PROVE  /\ Append(s, x) \in Seq(Nat) /\ Len(Append(s, x)) = Len(s) + 1
         /\ \A i \in DOMAIN Append(s, x) : Append(s, x)[i] = Value(i)
<1>1. /\ DOMAIN s = 1 .. Len(s) /\ Len(s) \in Nat
      /\ Append(s, x) \in Seq(Nat) /\ Len(Append(s, x)) = Len(s) + 1
      /\ DOMAIN Append(s, x) = 1 .. Len(s) + 1
      /\ \A i \in 1 .. Len(s) : Append(s, x)[i] = s[i]
      /\ Append(s, x)[Len(s) + 1] = x
  OBVIOUS
<1> QED
  BY <1>1

(* The reader of QTiming pops an element and uses it at once.              *)
LEMMA CPopStep ==
  ASSUME HashInv, program = "timing", NEW c \in Consumers, CPop(c), program' = program
  PROVE  HashInv'
<1> DEFINE e == Head(queue)
<1>1. /\ HTypeOK /\ queue \in Seq(Elements) /\ queue # << >> /\ queue' = Tail(queue)
      /\ sent' = sent /\ held' = held /\ out \in [Producers -> Seq(Nat)]
      /\ out' = [out EXCEPT ![e.from] = Append(@, e.n)]
      /\ pc[c] = "start"
      /\ pc' = [pc EXCEPT ![c] = "done"] \/ pc' = pc
  BY DEF HashInv, HTypeOK, CPop, Pop, Go
<1>2. e \in Elements /\ queue' \in Seq(Elements)
  BY <1>1
<1>3. e.from \in Producers /\ e.n \in Nat
  BY <1>2 DEF Elements
<1>4. /\ DOMAIN pc' = Threads
      /\ \A d \in Consumers : /\ pc[d] = "done" => pc'[d] = "done"
                              /\ pc'[d] \in {"new", "start", "done"}
                              /\ pc[d] \in {"new", "start", "done"}
  BY <1>1 DEF HashInv, HTypeOK, Ranges, Threads
<1> HIDE DEF e
<1>5. \A d \in Consumers : ~Holding(d) /\ ~Holding(d)'
  BY <1>4 DEF Holding, Hands
<1>6. \A u \in Producers : /\ Popped(u) = Len(out[u]) /\ Popped(u)' = Len(out'[u])
                           /\ \A d \in Consumers : ~Holds(d, u)'
  <2> TAKE u \in Producers
  <2>1. \A d \in Consumers : ~Holds(d, u) /\ ~Holds(d, u)'
    BY <1>5 DEF Holds
  <2> QED
    BY <2>1, Zenon DEF Popped
<1>7. Single /\ Single' /\ \A u \in Producers : InLine(u)
  <2>1. Single /\ \A u \in Producers : InLine(u)
    BY DEF HashInv, Ordered
  <2> QED
    BY <1>4, <2>1 DEF Single
<1>8. ASSUME NEW u \in Producers, u # e.from
      PROVE  Agrees(u)' /\ InLine(u)'
  <2>1. out'[u] = out[u]
    BY <1>1, <1>8
  <2>2. Line(queue', u, Popped(u), sent[u])
    BY <1>1, <1>7, <1>8, LineTail, PoppedType DEF InLine, e
  <2>3. Line(queue, u, Popped(u), sent[u])'
    BY <1>1, <1>6, <2>1, <2>2
  <2> QED
    BY <1>6, <2>1, <2>3 DEF InLine, HashInv, Agrees
<1>9. ASSUME NEW u \in Producers, u = e.from
      PROVE  Agrees(u)' /\ InLine(u)'
  <2>1. /\ out[u] \in Seq(Nat) /\ out'[u] = Append(out[u], e.n)
        /\ \A i \in DOMAIN out[u] : out[u][i] = Value(i)
    BY <1>1, <1>9 DEF HashInv, Agrees
  <2>2. /\ Number(e) = Popped(u) + 1
        /\ Line(queue', u, Popped(u) + 1, sent[u])
    BY <1>1, <1>7, <1>9, LineTail, PoppedType DEF InLine, e
  <2>3. Popped(u) = Len(out[u]) /\ Popped(u)' = Len(out'[u])
    BY <1>6
  <2>4. e.n = Value(Len(out[u]) + 1)
    BY <1>2, <2>2, <2>3, Numbers
  <2>5. /\ Len(out'[u]) = Len(out[u]) + 1
        /\ \A i \in DOMAIN out'[u] : out'[u][i] = Value(i)
    BY <1>3, <2>1, <2>4, Extends
  <2>6. Line(queue, u, Popped(u), sent[u])'
    BY <1>1, <2>2, <2>3, <2>5
  <2> QED
    BY <1>6, <2>5, <2>6 DEF InLine, Agrees
<1>10. HTypeOK'
  <2>1. out' \in [Producers -> Seq(Nat)]
    BY <1>1, <1>3
  <2> QED
    BY <1>1, <1>2, <1>4, <1>5, <2>1 DEF HTypeOK, Quota
<1>11. Ranges'
  BY <1>4 DEF Ranges
<1> QED
  BY <1>7, <1>8, <1>9, <1>10, <1>11 DEF HashInv, Ordered

(* A consumer of hash2 or hash3 uses its element.                          *)
LEMMA HAddStep ==
  ASSUME HashInv, LockInv, program \in Hashing \ {"timing"}, NEW c \in Consumers,
         HAddState(c), program' = program
  PROVE  HashInv'
<1> DEFINE e == held[c]
<1>1. /\ HTypeOK /\ queue' = queue /\ sent' = sent /\ held' = held
      /\ out \in [Producers -> Seq(Nat)]
      /\ out' = [out EXCEPT ![e.from] = Append(@, e.n)]
      /\ pc[c] \in {"add", "state"}
      /\ pc' = [pc EXCEPT ![c] = "tally"] \/ pc' = [pc EXCEPT ![c] = "unlock"]
  BY DEF HashInv, HTypeOK, HAddState, Go, channel, counts
<1>2. Holding(c) /\ e \in Elements /\ e.n # 0
  BY <1>1 DEF HashInv, HTypeOK, Ranges, Holding, Hands
<1>3. e.from \in Producers /\ e.n \in Nat /\ Number(e) = e.n /\ Value(e.n) = e.n
  BY <1>2, Numbers DEF Elements
<1>4. /\ DOMAIN pc' = Threads /\ pc'[c] \in {"tally", "unlock"}
      /\ \A d \in Consumers \ {c} : pc'[d] = pc[d]
  BY <1>1 DEF HTypeOK, Threads
<1>5. /\ ~Holding(c)'
      /\ \A d \in Consumers \ {c} : Holding(d)' <=> Holding(d)
  BY <1>4 DEF Holding, Hands
<1> HIDE DEF e
<1>6. e.n = Len(out[e.from]) + 1
  <2>1. CASE program = "hash2"
    <3>1. Popped(e.from) = Len(out[e.from]) + 1
      <4>1. Holds(c, e.from)
        BY <1>2 DEF Holds, e
      <4> QED
        BY <4>1, Zenon DEF Popped
    <3>2. Number(e) = Popped(e.from)
      BY <1>2, <1>3, <2>1 DEF HashInv, Ordered, InLine, Holds, e
    <3> QED
      BY <1>3, <3>1, <3>2
  <2>2. CASE program = "hash3"
    <3>1. Knows(c)
      BY <1>1 DEF LockInv, Inside, Inner
    <3> QED
      BY <1>1, <2>2, <3>1 DEF Knows, Source, e
  <2> QED
    BY <2>1, <2>2 DEF Hashing
<1>7. ASSUME NEW u \in Producers PROVE Agrees(u)'
  <2>1. CASE u = e.from
    <3>1. /\ out[u] \in Seq(Nat) /\ out'[u] = Append(out[u], e.n)
          /\ \A i \in DOMAIN out[u] : out[u][i] = Value(i)
      BY <1>1, <2>1 DEF HashInv, Agrees
    <3>2. e.n = Value(Len(out[u]) + 1)
      BY <1>3, <1>6, <2>1
    <3>3. \A i \in DOMAIN out'[u] : out'[u][i] = Value(i)
      BY <1>3, <3>1, <3>2, Extends
    <3> QED
      BY <3>3 DEF Agrees
  <2>2. CASE u # e.from
    <3>1. out'[u] = out[u]
      BY <1>1, <2>2
    <3> QED
      BY <3>1 DEF HashInv, Agrees
  <2> QED
    BY <2>1, <2>2
<1>8. ASSUME program # "hash3" PROVE Single' /\ \A u \in Producers : InLine(u)'
  <2>1. Single /\ \A u \in Producers : InLine(u)
    BY <1>8 DEF HashInv, Ordered
  <2>2. Single'
    BY <1>1, <1>4, <2>1 DEF Single
  <2>3. \A d \in Consumers : ~Holding(d)'
    BY <1>1, <1>4, <1>5, <2>1 DEF Single, Holding, Hands
  <2>4. ASSUME NEW u \in Producers PROVE InLine(u)'
    <3>1. \A d \in Consumers : ~Holds(d, u)'
      BY <2>3 DEF Holds
    <3>2. Popped(u)' = Popped(u)
      <4>1. out'[u] \in Seq(Nat) /\ out[u] \in Seq(Nat)
        BY <1>1, <1>3
      <4>2. Popped(u)' = Len(out'[u])
        BY <3>1, Zenon DEF Popped
      <4>3. CASE u = e.from
        <5>1. Holds(c, u)
          BY <1>2, <4>3 DEF Holds, e
        <5>2. Popped(u) = Len(out[u]) + 1
          BY <5>1, Zenon DEF Popped
        <5>3. Len(out'[u]) = Len(out[u]) + 1
          BY <1>1, <1>3, <4>1, <4>3
        <5> QED
          BY <4>2, <5>2, <5>3
      <4>4. CASE u # e.from
        <5>1. \A d \in Consumers : ~Holds(d, u)
          BY <1>2, <1>5, <2>3, <4>4 DEF Holds, e
        <5>2. Popped(u) = Len(out[u])
          BY <5>1, Zenon DEF Popped
        <5> QED
          BY <1>1, <4>2, <4>4, <5>2
      <4> QED
        BY <4>3, <4>4
    <3>3. Line(queue, u, Popped(u), sent[u])'
      BY <1>1, <2>1, <3>2 DEF InLine
    <3> QED
      BY <3>1, <3>3 DEF InLine
  <2> QED
    BY <2>2, <2>4
<1>9. HTypeOK'
  <2>1. out' \in [Producers -> Seq(Nat)]
    BY <1>1, <1>3
  <2> QED
    BY <1>1, <1>4, <1>5, <2>1 DEF HTypeOK, Quota
<1>10. Ranges'
  BY <1>1, <1>5 DEF HashInv, Ranges
<1> QED
  BY <1>7, <1>8, <1>9, <1>10 DEF HashInv, Ordered

(* Main creates and joins threads.                                         *)
LEMMA MainStepQuiet ==
  ASSUME HashInv, program \in Hashing, UNCHANGED <<program, queue, sent, out, held>>,
         NEW ts, NEW from, NEW to, Spawn(ts, from, to) \/ Join(from)
  PROVE  HashInv'
<1>1. HTypeOK /\ \A c \in Consumers : c \in Threads /\ c # Main
  BY HarnessAssumption DEF HashInv, Threads
<1>2. /\ DOMAIN pc' = Threads
      /\ \A c \in Consumers : pc'[c] # pc[c] => pc[c] = "new" /\ pc'[c] = "start"
  <2>1. CASE Spawn(ts, from, to)
    BY <1>1, <2>1 DEF Spawn
  <2>2. CASE Join(from)
    BY <1>1, <2>2 DEF Join, Go, HTypeOK
  <2> QED
    BY <2>1, <2>2
<1>3. \A c \in Consumers :
        /\ Holding(c)' <=> Holding(c)
        /\ pc[c] = "done" => pc'[c] = "done"
        /\ program = "timing" => pc'[c] \in {"new", "start", "done"}
  BY <1>2 DEF Holding, Hands, HashInv, Ranges
<1> QED
  BY <1>1, <1>2, <1>3, QuietStep DEF HTypeOK

(* A step of one thread that moves no element.                             *)
LEMMA ThreadStepQuiet ==
  ASSUME HashInv, UNCHANGED <<program, queue, sent, out>>, NEW t \in Producers \cup Consumers,
         NEW from, NEW to, Go(t, from, to),
         t \in Consumers => /\ from # "done"
                            /\ program = "timing" => to \in {"start", "done"}
                            /\ from \in Hands <=> to \in Hands,
         \/ held' = held
         \/ t \in Consumers /\ from = "unlock" /\ held' = [held EXCEPT ![t] = None]
  PROVE  HashInv'
<1>1. /\ HTypeOK /\ DOMAIN pc' = Threads /\ DOMAIN held' = Consumers
      /\ t \in Threads /\ pc[t] = from /\ pc'[t] = to
      /\ \A c \in Consumers : c \in Threads
      /\ \A c \in Consumers \ {t} : pc'[c] = pc[c] /\ held'[c] = held[c]
  BY DEF HashInv, HTypeOK, Go, Threads
<1>2. \A c \in Consumers :
        /\ Holding(c)' <=> Holding(c)
        /\ Holding(c) => held'[c] = held[c]
        /\ pc[c] = "done" => pc'[c] = "done"
        /\ program = "timing" => pc'[c] \in {"new", "start", "done"}
  BY <1>1 DEF Holding, Hands, HashInv, Ranges
<1> QED
  BY <1>1, <1>2, QuietStep

(* A step of hash2 or hash3.                                               *)
LEMMA HStep ==
  ASSUME HashInv, LockInv, program \in Hashing \ {"timing"}, HNext, program' = program
  PROVE  HashInv'
<1>1. CASE HMain
  BY <1>1, MainStepQuiet
  DEF HMain, HSpawnProducers, HSpawnConsumers, HJoin, channel, counts, hashing
<1>2. ASSUME NEW p \in Producers, HPush(p)
      PROVE  HashInv'
  <2> DEFINE e == Element(p, sent[p] + 1)
  <2>1. /\ sent[p] \in 0 .. Quota /\ sent[p] < Items /\ Quota = Items
        /\ queue' = Append(queue, e) /\ sent' = [sent EXCEPT ![p] = @ + 1]
        /\ UNCHANGED <<pc, held, out>>
    BY <1>2 DEF HPush, Push, HashInv, HTypeOK, Quota, hashing
  <2>2. /\ e \in Elements /\ e.from = p /\ e.n = sent[p] + 1 /\ e.n # 0
    BY <2>1, HarnessAssumption DEF Elements, Element
  <2>3. Number(e) = sent[p] + 1
    BY <2>2, Numbers
  <2> HIDE DEF e
  <2> QED
    BY <2>1, <2>2, <2>3, PushStep
<1>3. ASSUME NEW p \in Producers, HPushed(p)
      PROVE  HashInv'
  <2>1. p \notin Consumers
    BY HarnessAssumption
  <2> QED
    BY <1>3, <2>1, ThreadStepQuiet DEF HPushed, channel, counts, hashing
<1>4. ASSUME NEW c \in Consumers, HConsume(c)
      PROVE  HashInv'
  <2>1. CASE \/ HEmpty(c) \/ HCount(c) \/ HLock(c) \/ HHash(c)
             \/ HYield(c) \/ HUnlock(c)
    BY <2>1, ThreadStepQuiet
    DEF HEmpty, HCount, HLock, HHash, HYield, HUnlock, Hands, channel, counts, hashing
  <2>2. CASE HPop(c)
    <3>1. CASE /\ Pop(c)
               /\ held' = [held EXCEPT ![c] = Head(queue)]
               /\ Go(c, "pop", "lock")
               /\ UNCHANGED <<flags, reports, lock, out, hash_count>>
      BY <3>1, HPopStep
    <3>2. CASE /\ PopFails
               /\ Go(c, "pop", "start")
               /\ UNCHANGED <<flags, counts, reports, hashing>>
      BY <3>2, ThreadStepQuiet DEF PopFails, Hands, counts, hashing
    <3> QED
      BY <2>2, <3>1, <3>2 DEF HPop
  <2>3. CASE HAddState(c)
    BY <2>3, HAddStep
  <2>4. CASE HAddCount(c)
    BY <2>4, ThreadStepQuiet DEF HAddCount, Hands, channel, counts
  <2> QED
    BY <1>4, <2>1, <2>2, <2>3, <2>4 DEF HConsume
<1> QED
  BY <1>1, <1>2, <1>3, <1>4 DEF HNext, HProduce

(* A step of QTiming::run.                                                 *)
LEMMA CStep ==
  ASSUME HashInv, program = "timing", CNext, program' = program
  PROVE  HashInv'
<1>1. CASE CMain
  <2>1. program \in Hashing
    BY DEF Hashing
  <2> QED
    BY <1>1, <2>1, MainStepQuiet
    DEF CMain, CSpawn, CWarmUp, CJoin, channel, counts, hashing
<1>2. ASSUME NEW p \in Producers, CPush(p)
      PROVE  HashInv'
  <2> DEFINE e == Element(p, IF sent[p] + 1 = Last THEN 0 ELSE sent[p] + 1)
  <2>1. /\ sent[p] \in 0 .. Quota /\ sent[p] < Quota /\ Quota = Last
        /\ queue' = Append(queue, e) /\ sent' = [sent EXCEPT ![p] = @ + 1]
        /\ UNCHANGED <<pc, held, out>>
    BY <1>2 DEF CPush, Push, HashInv, HTypeOK, Quota, hashing
  <2>2. /\ e \in Elements /\ e.from = p /\ Number(e) = sent[p] + 1
    BY <2>1, HarnessAssumption DEF Elements, Element, Last, Number
  <2> HIDE DEF e
  <2> QED
    BY <2>1, <2>2, PushStep
<1>3. ASSUME NEW p \in Producers, CPushed(p)
      PROVE  HashInv'
  <2>1. p \notin Consumers
    BY HarnessAssumption
  <2> QED
    BY <1>3, <2>1, ThreadStepQuiet DEF CPushed, channel, counts, hashing
<1>4. ASSUME NEW c \in Consumers, CPop(c)
      PROVE  HashInv'
  BY <1>4, CPopStep
<1>5. ASSUME NEW c \in Consumers, CPopFails(c)
      PROVE  HashInv'
  <2>1. UNCHANGED <<queue, sent, out, held, pc>>
    BY <1>5 DEF CPopFails, PopFails, counts, hashing
  <2>2. HTypeOK /\ Ranges
    BY DEF HashInv
  <2> QED
    BY <2>1, <2>2, QuietStep DEF HTypeOK, Ranges, Holding, Hands
<1> QED
  BY <1>1, <1>2, <1>3, <1>4, <1>5 DEF CNext, CProduce, CConsume

------------------------------------------------------------------------------
(* The lock of a hash. *)

LEMMA LockInit == ASSUME HInit PROVE LockInv
<1>1. \A c \in Consumers : ~Inside(c)
  BY HarnessAssumption DEF HInit, Threads, Inside, Inner
<1>2. LTypeOK /\ Mutex /\ Idle
  BY <1>1 DEF HInit, LTypeOK, Mutex, Idle, Zeros
<1> QED
  BY <1>1, <1>2 DEF LockInv

(* A step that neither changes the locks and hashes nor moves anybody who  *)
(* has a lock.                                                             *)
LEMMA LockQuiet ==
  ASSUME LockInv, UNCHANGED <<program, lock, out, hash_count>>,
         \A c \in Consumers :
           Inside(c)' => Inside(c) /\ pc'[c] = pc[c] /\ held'[c] = held[c]
  PROVE  LockInv'
<1>1. ASSUME NEW c \in Consumers, Inside(c)'
      PROVE  /\ Inside(c) /\ Source(c)' = Source(c) /\ Source(c) \in Producers
             /\ lock'[Source(c)] = c /\ Knows(c)'
  <2>1. Inside(c) /\ pc'[c] = pc[c] /\ held'[c] = held[c] /\ Source(c)' = Source(c)
    BY <1>1 DEF Source
  <2>2. Source(c) \in Producers /\ lock[Source(c)] = c /\ Knows(c)
    BY <2>1 DEF LockInv, LTypeOK, Mutex
  <2>3. Knows(c)'
    BY <2>1, <2>2 DEF Knows
  <2> QED
    BY <2>1, <2>2, <2>3
<1>2. LTypeOK' /\ Mutex' /\ Idle'
  BY <1>1 DEF LockInv, LTypeOK, Mutex, Idle
<1> QED
  BY <1>1, <1>2 DEF LockInv

(* A step of one consumer: what the others know of their hashes remains.   *)
LEMMA OthersKnow ==
  ASSUME LockInv, DOMAIN pc = Threads, DOMAIN held = Consumers,
         program' = program, NEW c \in Consumers, NEW p \in Producers,
         \A d \in Consumers \ {c} : pc'[d] = pc[d] /\ held'[d] = held[d],
         \A d \in Consumers \ {c} : Inside(d) => Source(d) # p,
         \A u \in Producers \ {p} : /\ lock'[u] = lock[u] /\ out'[u] = out[u]
                                    /\ hash_count'[u] = hash_count[u]
  PROVE  \A d \in Consumers \ {c} :
           Inside(d)' => /\ Source(d)' \in Producers /\ lock'[Source(d)'] = d
                         /\ Knows(d)'
<1> SUFFICES ASSUME NEW d \in Consumers \ {c}, Inside(d)'
             PROVE  /\ Source(d)' \in Producers /\ lock'[Source(d)'] = d
                    /\ Knows(d)'
  OBVIOUS
<1>1. Inside(d) /\ pc'[d] = pc[d] /\ held'[d] = held[d] /\ Source(d)' = Source(d)
  BY DEF Inside, Source
<1>2. Source(d) \in Producers \ {p} /\ lock[Source(d)] = d /\ Knows(d)
  BY <1>1 DEF LockInv, LTypeOK, Mutex
<1>3. Knows(d)'
  BY <1>1, <1>2 DEF Knows
<1> QED
  BY <1>1, <1>2, <1>3

(* Taking the lock.                                                        *)
LEMMA LockTaken ==
  ASSUME HashInv, LockInv, NEW c \in Consumers, HLock(c), program' = program
  PROVE  LockInv'
<1> DEFINE p == Source(c)
<1>1. /\ pc[c] = "lock" /\ pc' = [pc EXCEPT ![c] = "hash"] /\ lock[p] = None
      /\ lock' = [lock EXCEPT ![p] = c] /\ UNCHANGED <<held, out, hash_count>>
      /\ DOMAIN pc = Threads /\ DOMAIN held = Consumers /\ c \in Threads
  BY DEF HLock, Go, Source, HashInv, HTypeOK, Threads
<1>2. p \in Producers
  <2>1. held[c] \in Elements
    BY <1>1 DEF HashInv, HTypeOK, Holding, Hands
  <2> QED
    BY <2>1 DEF Elements, Source
<1>3. LTypeOK /\ None \notin Consumers
  BY HarnessAssumption DEF LockInv, None
<1>4. \A d \in Consumers \ {c} : Inside(d) => Source(d) # p
  BY <1>1, <1>3 DEF LockInv, Mutex
<1>5. Source(c)' = p
  BY <1>1 DEF Source
<1> HIDE DEF p
<1>6. \A d \in Consumers \ {c} :
        Inside(d)' => /\ Source(d)' \in Producers /\ lock'[Source(d)'] = d
                      /\ Knows(d)'
  <2>1. /\ \A d \in Consumers \ {c} : pc'[d] = pc[d] /\ held'[d] = held[d]
        /\ \A u \in Producers \ {p} : /\ lock'[u] = lock[u] /\ out'[u] = out[u]
                                      /\ hash_count'[u] = hash_count[u]
    BY <1>1, <1>3 DEF LTypeOK, Threads
  <2> QED
    BY <1>1, <1>2, <1>4, <2>1, OthersKnow
<1>7. lock'[p] = c /\ hash_count[p] = Len(out[p]) /\ pc'[c] = "hash"
  BY <1>1, <1>2, <1>3 DEF LockInv, Idle, LTypeOK
<1>8. Knows(c)'
  BY <1>1, <1>5, <1>7 DEF Knows, Inner
<1>9. LTypeOK' /\ Mutex'
  BY <1>1, <1>2, <1>3, <1>5, <1>6, <1>7 DEF LTypeOK, Mutex
<1>10. Idle'
  BY <1>1, <1>2, <1>3, <1>7 DEF LockInv, Idle, LTypeOK
<1> QED
  BY <1>6, <1>8, <1>9, <1>10 DEF LockInv

(* Releasing it.                                                           *)
LEMMA LockFreed ==
  ASSUME HashInv, LockInv, NEW c \in Consumers, HYield(c) \/ HUnlock(c), program' = program
  PROVE  LockInv'
<1> DEFINE p == Source(c)
<1>1. /\ pc[c] \in {"yield", "unlock"} /\ lock' = [lock EXCEPT ![p] = None]
      /\ UNCHANGED <<out, hash_count>>
      /\ DOMAIN pc = Threads /\ DOMAIN held = Consumers /\ c \in Threads
      /\ pc' = [pc EXCEPT ![c] = "lock"] \/ pc' = [pc EXCEPT ![c] = "start"]
      /\ held' = held \/ held' = [held EXCEPT ![c] = None]
  BY DEF HYield, HUnlock, Unlock, Go, Source, HashInv, HTypeOK, Threads
<1>2. Inside(c) /\ ~Inside(c)'
  BY <1>1 DEF Inside, Inner
<1>3. LTypeOK /\ p \in Producers /\ lock[p] = c /\ hash_count[p] = Len(out[p])
  BY <1>1, <1>2 DEF LockInv, LTypeOK, Mutex, Knows, Inner
<1>4. \A d \in Consumers \ {c} : Inside(d) => Source(d) # p
  BY <1>3 DEF LockInv, Mutex
<1> HIDE DEF p
<1>5. \A d \in Consumers \ {c} :
        Inside(d)' => /\ Source(d)' \in Producers /\ lock'[Source(d)'] = d
                      /\ Knows(d)'
  <2>1. /\ \A d \in Consumers \ {c} : pc'[d] = pc[d] /\ held'[d] = held[d]
        /\ \A u \in Producers \ {p} : /\ lock'[u] = lock[u] /\ out'[u] = out[u]
                                      /\ hash_count'[u] = hash_count[u]
    BY <1>1, <1>3 DEF LTypeOK, Threads
  <2> QED
    BY <1>1, <1>3, <1>4, <2>1, OthersKnow
<1>6. LTypeOK' /\ Mutex'
  BY <1>1, <1>2, <1>3, <1>5 DEF LTypeOK, Mutex
<1>7. Idle'
  BY <1>1, <1>3 DEF LockInv, Idle, LTypeOK
<1> QED
  BY <1>2, <1>5, <1>6, <1>7 DEF LockInv

(* What is done under it.                                                  *)
LEMMA LockKept ==
  ASSUME HashInv, LockInv, program \in {"hash2", "hash3"}, NEW c \in Consumers,
         HHash(c) \/ HAddState(c) \/ HAddCount(c), program' = program
  PROVE  LockInv'
<1> DEFINE p == Source(c)
<1>1. /\ UNCHANGED <<held, lock>>
      /\ DOMAIN pc = Threads /\ DOMAIN held = Consumers /\ c \in Threads
      /\ out \in [Producers -> Seq(Nat)]
  BY DEF HHash, HAddState, HAddCount, hashing, HashInv, HTypeOK, Threads
<1>2. Inside(c) /\ \A d \in Consumers \ {c} : pc'[d] = pc[d]
  BY <1>1 DEF HHash, HAddState, HAddCount, Go, Inside, Inner, Threads
<1>3. LTypeOK /\ p \in Producers /\ lock[p] = c /\ Knows(c) /\ c # None
  BY <1>2, HarnessAssumption DEF LockInv, LTypeOK, Mutex, None
<1>4. \A d \in Consumers \ {c} : Inside(d) => Source(d) # p
  BY <1>3 DEF LockInv, Mutex
<1>5. Source(c)' = p /\ held[c].from = p
  BY <1>1 DEF Source
<1> DEFINE l == Len(out[p])
           n == hash_count[p]
<1>6. l \in Nat /\ n \in Int
  BY <1>1, <1>3 DEF LTypeOK
<1> HIDE DEF p
<1>7. /\ out' \in [Producers -> Seq(Nat)] \/ out' = out
      /\ hash_count' \in [Producers -> Int] /\ Inside(c)' /\ Knows(c)'
      /\ \A u \in Producers \ {p} : out'[u] = out[u] /\ hash_count'[u] = hash_count[u]
  <2>1. CASE HHash(c)
    <3>1. /\ pc[c] = "hash" /\ UNCHANGED <<out, hash_count>>
          /\ pc'[c] \in {"add", "yield"} /\ (pc'[c] = "add" => MyTurn(c))
      BY <1>1, <2>1 DEF HHash, Go, hashing
    <3>2. n = l
      BY <1>3, <3>1 DEF Knows, Inner, p
    <3>3. pc'[c] = "add" /\ program = "hash3" => held[c].n = l + 1
      BY <1>5, <3>1, <3>2 DEF MyTurn
    <3>4. Knows(c)'
      BY <1>1, <1>5, <3>1, <3>2, <3>3 DEF Knows, Inner
    <3> QED
      BY <1>3, <3>1, <3>4 DEF LTypeOK, Inside, Inner
  <2>2. CASE HAddState(c)
    <3>1. /\ hash_count' = hash_count /\ out' = [out EXCEPT ![p] = Append(@, held[c].n)]
          /\ \/ pc[c] = "add" /\ pc'[c] = "tally"
             \/ pc[c] = "state" /\ pc'[c] = "unlock"
      BY <1>1, <1>5, <2>2 DEF HAddState, Go
    <3>2. Len(out'[p]) = l + 1
      BY <1>1, <1>3, <3>1
    <3>3. /\ pc'[c] = "tally" => n + 1 = l + 1
          /\ pc'[c] = "unlock" => n = l + 1
      BY <1>3, <3>1 DEF Knows, Inner, p
    <3> HIDE DEF l, n
    <3>4. Knows(c)'
      BY <1>5, <3>1, <3>2, <3>3 DEF Knows, Inner, n
    <3>5. /\ out' \in [Producers -> Seq(Nat)]
          /\ \A u \in Producers \ {p} : out'[u] = out[u]
      <4>1. held[c].n \in Nat
        BY <3>1 DEF HashInv, HTypeOK, Holding, Hands, Elements
      <4> QED
        BY <1>1, <1>3, <3>1, <4>1
    <3> QED
      BY <1>3, <3>1, <3>4, <3>5 DEF LTypeOK, Inside, Inner
  <2>3. CASE HAddCount(c)
    <3>1. /\ out' = out /\ hash_count' = [hash_count EXCEPT ![p] = @ + 1]
          /\ \/ pc[c] = "add" /\ pc'[c] = "state"
             \/ pc[c] = "tally" /\ pc'[c] = "unlock"
      BY <1>1, <1>5, <2>3 DEF HAddCount, Go
    <3>2. hash_count'[p] = n + 1
      BY <1>3, <3>1 DEF LTypeOK
    <3>3. /\ pc'[c] = "state" => n = l /\ (program = "hash3" => held[c].n = l + 1)
          /\ pc'[c] = "unlock" => n + 1 = l
      BY <1>3, <3>1 DEF Knows, Inner, p
    <3> HIDE DEF l, n
    <3>4. Knows(c)'
      BY <1>1, <1>5, <3>1, <3>2, <3>3 DEF Knows, Inner, l
    <3>5. /\ hash_count' \in [Producers -> Int]
          /\ \A u \in Producers \ {p} : hash_count'[u] = hash_count[u]
      BY <1>3, <3>1 DEF LTypeOK
    <3> QED
      BY <3>1, <3>4, <3>5 DEF Inside, Inner
  <2> QED
    BY <2>1, <2>2, <2>3
<1>8. \A d \in Consumers \ {c} :
        Inside(d)' => /\ Source(d)' \in Producers /\ lock'[Source(d)'] = d
                      /\ Knows(d)'
  BY <1>1, <1>2, <1>3, <1>4, <1>7, OthersKnow
<1>9. LTypeOK' /\ Mutex'
  BY <1>1, <1>3, <1>5, <1>7, <1>8 DEF LTypeOK, Mutex
<1>10. Idle'
  BY <1>1, <1>3, <1>7 DEF LockInv, Idle
<1> QED
  BY <1>7, <1>8, <1>9, <1>10 DEF LockInv

LEMMA LockInvStep ==
  ASSUME HashInv, LockInv, program \in {"hash2", "hash3"}, HNext, program' = program
  PROVE  LockInv'
<1>1. DOMAIN pc = Threads /\ DOMAIN held = Consumers
      /\ \A c \in Consumers : c \in Threads /\ c # Main /\ c \notin Producers
  BY HarnessAssumption DEF HashInv, HTypeOK, Threads
<1>2. CASE HMain
  <2>1. /\ UNCHANGED <<held, lock, out, hash_count>>
        /\ \A c \in Consumers : pc'[c] = pc[c] \/ pc'[c] = "start"
    BY <1>1, <1>2 DEF HMain, HSpawnProducers, HSpawnConsumers, HJoin, Spawn, Join, Go, hashing
  <2> QED
    BY <2>1, LockQuiet DEF Inside, Inner
<1>3. ASSUME NEW p \in Producers, HProduce(p)
      PROVE  LockInv'
  <2>1. /\ UNCHANGED <<held, lock, out, hash_count>>
        /\ \A c \in Consumers : pc'[c] = pc[c]
    BY <1>1, <1>3 DEF HProduce, HPush, HPushed, Go, hashing
  <2> QED
    BY <2>1, LockQuiet DEF Inside
<1>4. ASSUME NEW c \in Consumers, HConsume(c)
      PROVE  LockInv'
  <2>1. CASE HEmpty(c) \/ HCount(c) \/ HPop(c)
    <3>1. /\ UNCHANGED <<lock, out, hash_count>>
          /\ pc'[c] \in {"count", "pop", "done", "start", "lock"}
          /\ \A d \in Consumers \ {c} : pc'[d] = pc[d] /\ held'[d] = held[d]
      BY <1>1, <2>1 DEF HEmpty, HCount, HPop, Go, hashing
    <3> QED
      BY <3>1, LockQuiet DEF Inside, Inner
  <2>2. CASE HLock(c)
    BY <2>2, LockTaken
  <2>3. CASE HHash(c) \/ HAddState(c) \/ HAddCount(c)
    BY <2>3, LockKept
  <2>4. CASE HYield(c) \/ HUnlock(c)
    BY <2>4, LockFreed
  <2> QED
    BY <1>4, <2>1, <2>2, <2>3, <2>4 DEF HConsume
<1> QED
  BY <1>2, <1>3, <1>4 DEF HNext

(* With no producer there is nothing to hash.                              *)
HashSafe == program \in Hashing /\ Producers # {} =>
              HashInv /\ (program # "timing" => LockInv)

LEMMA HashStep == ASSUME HashSafe, [HarnessNext]_hvars PROVE HashSafe'
<1> SUFFICES ASSUME program' \in Hashing, Producers # {}
             PROVE  HashInv' /\ (program # "timing" => LockInv')
  <2>1. program' = program
    BY DEF HarnessNext, Advance, hvars
  <2> QED
    BY <2>1 DEF HashSafe
<1>1. program' = program
  BY DEF HarnessNext, Advance, hvars
<1>2. HashInv /\ program \in Hashing /\ (program # "timing" => LockInv)
  BY <1>1 DEF HashSafe
<1>3. CASE UNCHANGED <<queue, sent, pc, hashing>>
  <2>1. HashInv'
    BY <1>1, <1>2, <1>3, QuietStep DEF HashInv, HTypeOK, Ranges, Holding, Hands, hashing
  <2> QED
    BY <1>1, <1>2, <1>3, <2>1, LockQuiet DEF Inside, hashing
<1>4. CASE program = "timing" /\ CNext
  BY <1>1, <1>2, <1>4, CStep
<1>5. CASE program \in {"hash2", "hash3"} /\ HNext
  BY <1>1, <1>2, <1>5, HStep, LockInvStep DEF Hashing
<1> QED
  BY <1>2, <1>3, <1>4, <1>5 DEF HarnessNext, Advance, hvars, counts, channel, Hashing

(* Every element of hash2, hash3 and QTiming::run gets through the queue,  *)
(* the hands of its consumer and the lock to the hash of its producer, in  *)
(* the order of the pushes: one consumer at a time is at a hash, and       *)
(* outside of the lock its count is its length.                            *)
THEOREM HashSafety == HarnessSpec => []HashSafe
<1>1. HInit => HashSafe
  BY HashInit, LockInit DEF HashSafe
<1>2. HashSafe /\ [HarnessNext]_hvars => HashSafe'
  BY HashStep
<1> QED
  BY <1>1, <1>2, PTL DEF HarnessSpec

(* What QTiming::run, hash2 and hash3 hash on the consumers' side is what  *)
(* the producers pushed, in their order, each element once.                *)
THEOREM HashesEqual == HarnessSpec => []HashesAgree
<1>1. HashSafe => HashesAgree
  <2> SUFFICES ASSUME HashSafe, program \in Hashing,
                      NEW p \in Producers, NEW i \in 1 .. Len(out[p])
               PROVE  out[p][i] = (IF i = Items + 1 THEN 0 ELSE i)
    BY DEF HashesAgree, Hashing
  <2>1. HashInv
    BY DEF HashSafe
  <2>2. i \in DOMAIN out[p]
    BY <2>1 DEF HashInv, HTypeOK
  <2> QED
    BY <2>1, <2>2 DEF HashInv, Agrees, Value, Last
<1> QED
  BY <1>1, HashSafety, PTL
------------------------------------------------------------------------------
(* Counts. *)

(* What Total counts.                                                      *)
Units(f) == UNION { {t} \X (1 .. f[t]) : t \in DOMAIN f }

LEMMA UnitsAre ==
  ASSUME NEW S, NEW f \in [S -> Nat], NEW u
  PROVE  u \in Units(f) <=> \E t \in S : \E i \in 1 .. f[t] : u = <<t, i>>
BY DEF Units

LEMMA TotalIs == ASSUME NEW f PROVE Total(f) = Cardinality(Units(f))
BY DEF Total, Units

LEMMA OneMore ==
  ASSUME NEW S, NEW f \in [S -> Nat], NEW s \in S, IsFiniteSet(Units(f)),
         NEW g \in [S -> Nat], g[s] = f[s] + 1, \A t \in S \ {s} : g[t] = f[t]
  PROVE  IsFiniteSet(Units(g)) /\ Total(g) = Total(f) + 1
<1> DEFINE u == <<s, f[s] + 1>>
<1>1. /\ DOMAIN g = S /\ DOMAIN f = S
      /\ \A t \in S : f[t] \in Nat /\ g[t] = IF t = s THEN f[t] + 1 ELSE f[t]
  OBVIOUS
<1>2. \A t \in S : \A i : i \in 1 .. g[t] <=> \/ i \in 1 .. f[t]
                                              \/ t = s /\ i = f[s] + 1
  BY <1>1
<1>3. u \notin Units(f)
  BY <1>1, UnitsAre
<1>4. \A x : x \in Units(g) <=> x \in Units(f) \/ x = u
  <2> TAKE x
  <2>1. x \in Units(g) <=> \E t \in S : \E i \in 1 .. g[t] : x = <<t, i>>
    BY UnitsAre
  <2>2. x \in Units(f) <=> \E t \in S : \E i \in 1 .. f[t] : x = <<t, i>>
    BY UnitsAre
  <2> QED
    BY <1>2, <2>1, <2>2
<1>5. Units(g) = Units(f) \cup {u}
  BY <1>4
<1> QED
  BY <1>3, <1>5, FS_AddElement, TotalIs

LEMMA TotalZero ==
  ASSUME NEW S, NEW f, f = [t \in S |-> 0]
  PROVE  f \in [S -> Nat] /\ IsFiniteSet(Units(f)) /\ Total(f) = 0
<1>1. Units(f) = {}
  BY UnitsAre
<1> QED
  BY <1>1, FS_EmptySet, TotalIs

(* A thread's portion times the threads.                                   *)
LEMMA TotalEqual ==
  ASSUME NEW S, IsFiniteSet(S), NEW m \in Nat, NEW f \in [S -> Nat], \A t \in S : f[t] = m
  PROVE  Total(f) = Cardinality(S) * m
<1>1. Units(f) = S \X (1 .. m)
  <2>1. \A x : x \in Units(f) <=> x \in S \X (1 .. m)
    <3> TAKE x
    <3>1. x \in Units(f) <=> \E t \in S : \E i \in 1 .. m : x = <<t, i>>
      BY UnitsAre
    <3> QED
      BY <3>1
  <2> QED
    BY <2>1
<1>2. IsFiniteSet(1 .. m) /\ Cardinality(1 .. m) = m
  BY FS_Interval
<1> QED
  BY <1>1, <1>2, FS_Product, TotalIs

Counting == {"bandwidth", "counted", "timing"}
Sent == [from : Producers, n : Nat]

(* What has been pushed has been popped or is in the queue.                *)
Balanced ==
  /\ queue \in Seq(Sent)
  /\ sent \in [Producers -> Nat] /\ got \in [Consumers -> Nat]
  /\ IsFiniteSet(Units(sent)) /\ IsFiniteSet(Units(got))
  /\ Total(sent) \in Nat /\ Total(got) \in Nat
  /\ Total(sent) = Total(got) + Len(queue)

LEMMA BalancedInit == HInit => Balanced
<1> SUFFICES ASSUME HInit PROVE Balanced
  OBVIOUS
<1>1. /\ queue = << >> /\ sent = [p \in Producers |-> 0] /\ got = [c \in Consumers |-> 0]
  BY DEF HInit, Zeros
<1> QED
  BY <1>1, TotalZero DEF Balanced

(* What a step does to the queue.                                          *)
Transfer == \/ UNCHANGED <<queue, sent, got>>
            \/ \E p \in Producers, n \in Nat : Push(p, Element(p, n))
            \/ \E c \in Consumers : Pop(c)

LEMMA BalancedStep == ASSUME Balanced, Transfer PROVE Balanced'
<1>1. CASE UNCHANGED <<queue, sent, got>>
  BY <1>1 DEF Balanced, Units, Total
<1>2. ASSUME NEW p \in Producers, NEW n \in Nat, Push(p, Element(p, n))
      PROVE  Balanced'
  <2>1. /\ queue' = Append(queue, Element(p, n)) /\ got' = got
        /\ sent' = [sent EXCEPT ![p] = @ + 1] /\ Element(p, n) \in Sent
    BY <1>2 DEF Push, Element, Sent
  <2>2. queue' \in Seq(Sent) /\ Len(queue') = Len(queue) + 1 /\ Len(queue) \in Nat
    BY <2>1 DEF Balanced
  <2>3. /\ sent' \in [Producers -> Nat] /\ IsFiniteSet(Units(sent'))
        /\ Total(sent') = Total(sent) + 1
    <3>1. sent \in [Producers -> Nat] /\ IsFiniteSet(Units(sent))
      BY DEF Balanced
    <3>2. /\ sent' \in [Producers -> Nat] /\ sent'[p] = sent[p] + 1
          /\ \A q \in Producers \ {p} : sent'[q] = sent[q]
      BY <2>1, <3>1
    <3> QED
      BY <3>1, <3>2, OneMore
  <2>4. IsFiniteSet(Units(got')) /\ Total(got') = Total(got)
    BY <2>1 DEF Balanced
  <2> HIDE DEF Total
  <2> QED
    BY <2>1, <2>2, <2>3, <2>4 DEF Balanced
<1>3. ASSUME NEW c \in Consumers, Pop(c)
      PROVE  Balanced'
  <2>1. /\ queue # << >> /\ queue' = Tail(queue) /\ sent' = sent
        /\ got' = [got EXCEPT ![c] = @ + 1]
    BY <1>3 DEF Pop
  <2>2. queue' \in Seq(Sent) /\ Len(queue') = Len(queue) - 1 /\ Len(queue) \in Nat \ {0}
    BY <2>1 DEF Balanced
  <2>3. /\ got' \in [Consumers -> Nat] /\ IsFiniteSet(Units(got'))
        /\ Total(got') = Total(got) + 1
    <3>1. got \in [Consumers -> Nat] /\ IsFiniteSet(Units(got))
      BY DEF Balanced
    <3>2. /\ got' \in [Consumers -> Nat] /\ got'[c] = got[c] + 1
          /\ \A d \in Consumers \ {c} : got'[d] = got[d]
      BY <2>1, <3>1
    <3> QED
      BY <3>1, <3>2, OneMore
  <2>4. IsFiniteSet(Units(sent')) /\ Total(sent') = Total(sent)
    BY <2>1 DEF Balanced
  <2> QED
    BY <2>1, <2>2, <2>3, <2>4 DEF Balanced
<1> QED
  BY <1>1, <1>2, <1>3 DEF Transfer

LEMMA Transfers ==
  ASSUME Balanced, HarnessNext, program \in Counting
  PROVE  Transfer
<1>1. CASE program = "bandwidth" /\ BNext
  <2>1. CASE BMain \/ BTimeout
    BY <2>1
    DEF BMain, BTimeout, BSpawn, BReset, BStart, BStop, BProducersLeft, BGiveUp,
        BConsumersLeft, BAbort, BJoin, BSet, channel, counts, Transfer
  <2>2. ASSUME NEW p \in Producers, BProduce(p)
        PROVE  Transfer
    <3>1. CASE BPush(p) /\ Push(p, Element(p, sent[p] + 1))
      <4>1. sent[p] + 1 \in Nat
        BY DEF Balanced
      <4> QED
        BY <3>1, <4>1 DEF Transfer
    <3>2. CASE ~Push(p, Element(p, sent[p] + 1))
      BY <2>2, <3>2
      DEF BProduce, BProducerIn, BBegin, BLoop, BPush, BPushed, BProducerOut,
          channel, counts, Transfer
    <3>3. CASE ~BPush(p)
      BY <2>2, <3>3
      DEF BProduce, BProducerIn, BBegin, BLoop, BPushed, BProducerOut,
          channel, counts, Transfer
    <3> QED
      BY <3>1, <3>2, <3>3
  <2>3. ASSUME NEW c \in Consumers, BConsume(c)
        PROVE  Transfer
    BY <2>3
    DEF BConsume, BConsumerIn, BBegin, BTest, BPop, PopFails, BPopped, BConsumerOut,
        channel, counts, Transfer
  <2> QED
    BY <1>1, <2>1, <2>2, <2>3 DEF BNext
<1>2. CASE program \in {"counted", "timing"} /\ CNext
  <2>1. CASE CMain
    BY <2>1 DEF CMain, CSpawn, CWarmUp, CJoin, channel, counts, Transfer
  <2>2. ASSUME NEW p \in Producers, CPush(p)
        PROVE  Transfer
    <3>1. (IF sent[p] + 1 = Last THEN 0 ELSE sent[p] + 1) \in Nat
      BY DEF Balanced
    <3> QED
      BY <2>2, <3>1 DEF CPush, Transfer
  <2>3. ASSUME NEW p \in Producers, CPushed(p)
        PROVE  Transfer
    BY <2>3 DEF CPushed, channel, counts, Transfer
  <2>4. ASSUME NEW c \in Consumers, CConsume(c)
        PROVE  Transfer
    BY <2>4 DEF CConsume, CPop, CPopFails, PopFails, counts, Transfer
  <2> QED
    BY <1>2, <2>1, <2>2, <2>3, <2>4 DEF CNext, CProduce
<1>3. CASE Advance
  BY <1>3 DEF Advance, counts, Transfer
<1> QED
  BY <1>1, <1>2, <1>3 DEF HarnessNext, Counting

(* Main joins the threads when they have ended, and then nobody moves.     *)
AllJoined == pc[Main] = "done" => \A t \in Everyone : pc[t] = "done"

(* QBandwidth: what a thread has reported is its count, once it is leaving.*)
Reported ==
  /\ push_counter \in [Producers -> Nat] /\ pop_counter \in [Consumers -> Nat]
  /\ \A p \in Producers : pc[p] \in {"leave", "done"} => push_counter[p] = sent[p]
  /\ \A c \in Consumers : pc[c] \in {"leave", "done"} => pop_counter[c] = got[c]

(* A count ends at Items.                                                  *)
Portions ==
  /\ \A p \in Producers : sent[p] <= Items /\ (pc[p] = "done" => sent[p] = Items)
  /\ \A c \in Consumers : IF pc[c] = "done" THEN got[c] = Items ELSE got[c] < Items

(* QTiming: the reader ends with the writer's last element.                *)
LastSeen ==
  LET writer == First(Producers)
      reader == First(Consumers)
  IN /\ \A p \in Producers \ {writer} : pc[p] = "done" /\ sent[p] = 0
     /\ \A c \in Consumers \ {reader} : pc[c] = "done"
     /\ pc[reader] = "done" => Len(out[writer]) = Last

CountInv ==
  /\ DOMAIN pc = Threads /\ Balanced /\ AllJoined
  /\ program = "bandwidth" => Reported
  /\ program = "counted" => Portions
  /\ program = "timing" => LastSeen

LEMMA CountInit ==
  ASSUME HInit, program \in Counting, Producers # {}, Consumers # {}
  PROVE  CountInv
<1>1. /\ DOMAIN pc = Threads /\ pc[Main] = "main"
      /\ \A t \in Everyone : pc[t] = IF t \in Team(program) THEN "new" ELSE "done"
  BY HarnessAssumption DEF HInit, Threads, Everyone
<1>2. /\ sent = [p \in Producers |-> 0] /\ got = [c \in Consumers |-> 0]
      /\ push_counter = [p \in Producers |-> 0] /\ pop_counter = [c \in Consumers |-> 0]
  BY DEF HInit, Zeros
<1>3. CASE program \in {"bandwidth", "counted"}
  <2>1. Team(program) = Everyone
    BY <1>3 DEF Team, Everyone
  <2>2. \A t \in Everyone : pc[t] = "new"
    BY <1>1, <2>1
  <2>3. Reported /\ Portions
    BY <1>2, <2>2, HarnessAssumption DEF Reported, Portions, Everyone
  <2> QED
    BY <1>1, <1>3, <2>3, BalancedInit DEF CountInv, AllJoined
<1>4. CASE program = "timing"
  <2>1. /\ Team(program) = {First(Producers), First(Consumers)}
        /\ First(Producers) \in Producers /\ First(Consumers) \in Consumers
    BY <1>4 DEF Team, First
  <2>2. /\ \A p \in Producers \ {First(Producers)} : pc[p] = "done"
        /\ \A c \in Consumers \ {First(Consumers)} : pc[c] = "done"
        /\ pc[First(Consumers)] = "new"
    BY <1>1, <2>1, HarnessAssumption DEF Everyone
  <2>3. LastSeen
    BY <1>2, <2>2 DEF LastSeen
  <2> QED
    BY <1>1, <1>4, <2>3, BalancedInit DEF CountInv, AllJoined
<1> QED
  BY <1>3, <1>4 DEF Counting

(* A step of one of the threads, or of main.                               *)
LEMMA Moved ==
  ASSUME DOMAIN pc = Threads, NEW t \in Threads, NEW from, NEW to, Go(t, from, to)
  PROVE  /\ DOMAIN pc' = Threads /\ pc[t] = from /\ pc'[t] = to
         /\ \A u \in Threads \ {t} : pc'[u] = pc[u]
BY DEF Go

LEMMA EveryThread == /\ Threads = Everyone \cup {Main} /\ Main \notin Everyone
                     /\ Everyone = Producers \cup Consumers
BY HarnessAssumption DEF Threads, Everyone

LEMMA BandwidthMainCounts ==
  ASSUME Inv, AllJoined, Reported, DOMAIN pc = Threads, BMain \/ BTimeout
  PROVE  DOMAIN pc' = Threads /\ AllJoined' /\ Reported'
<1>1. CASE BSpawn
  <2>1. /\ DOMAIN pc' = Threads /\ pc'[Main] = "reset"
        /\ \A t \in Everyone : pc[t] = "new" /\ pc'[t] = "start"
    BY <1>1, EveryThread DEF BSpawn, Spawn, Inv, Barrier
  <2>2. push_counter' \in [Producers -> Nat] /\ pop_counter' \in [Consumers -> Nat]
    BY <1>1 DEF BSpawn, Zeros
  <2> QED
    BY <2>1, <2>2, EveryThread DEF AllJoined, Reported
<1>2. CASE BReset
  <2>1. /\ DOMAIN pc' = Threads /\ pc[Main] = "reset" /\ pc'[Main] = "gather"
        /\ \A t \in Everyone : pc'[t] = pc[t]
    BY <1>2, Moved, EveryThread DEF BReset
  <2>2. \A t \in Everyone : pc[t] \in {"new", "start", "wait"}
    BY <2>1 DEF Inv, Flag, Barrier
  <2>3. push_counter' \in [Producers -> Nat] /\ pop_counter' \in [Consumers -> Nat]
    BY <1>2 DEF BReset, Zeros
  <2> QED
    BY <2>1, <2>2, <2>3, EveryThread DEF AllJoined, Reported
<1>3. CASE BStart \/ BStop \/ BProducersLeft \/ BGiveUp \/ BConsumersLeft \/ BAbort \/ BJoin
  <2>1. /\ DOMAIN pc' = Threads /\ \A t \in Everyone : pc'[t] = pc[t]
        /\ pc'[Main] = "done" => \A t \in Everyone : pc[t] = "done"
    BY <1>3, Moved, EveryThread
    DEF BStart, BStop, BProducersLeft, BGiveUp, BConsumersLeft, BAbort, BJoin, BSet, Join
  <2>2. UNCHANGED <<push_counter, pop_counter, sent, got>>
    BY <1>3
    DEF BStart, BStop, BProducersLeft, BGiveUp, BConsumersLeft, BAbort, BJoin, BSet,
        counts, reports
  <2> QED
    BY <2>1, <2>2, EveryThread DEF AllJoined, Reported
<1> QED
  BY <1>1, <1>2, <1>3 DEF BMain, BTimeout

LEMMA BandwidthProducerCounts ==
  ASSUME Balanced, AllJoined, Reported, DOMAIN pc = Threads, NEW p \in Producers, BProduce(p)
  PROVE  DOMAIN pc' = Threads /\ AllJoined' /\ Reported'
<1>1. \A q \in Producers \ {p} : sent'[q] = sent[q] /\ push_counter'[q] = push_counter[q]
  BY DEF BProduce, BProducerIn, BBegin, BLoop, BPush, Push, BPushed, BProducerOut,
         counts, reports, Balanced, Reported
<1>2. /\ got' = got /\ pop_counter' = pop_counter /\ push_counter' \in [Producers -> Nat]
  BY DEF BProduce, BProducerIn, BBegin, BLoop, BPush, Push, BPushed, BProducerOut,
         counts, reports, Balanced, Reported
<1>3. \E from, to \in ProducerPlaces :
        /\ Go(p, from, to) /\ from # "done"
        /\ to \in {"leave", "done"} => push_counter'[p] = sent'[p]
  <2>1. CASE BProducerIn(p) \/ BBegin(p, "loop") \/ BLoop(p) \/ BPush(p)
    BY <2>1 DEF BProducerIn, BBegin, BLoop, BPush, ProducerPlaces
  <2>2. CASE BPushed(p)
    <3>1. push_counter'[p] = sent'[p]
      BY <2>2 DEF BPushed, counts, Reported
    <3> QED
      BY <2>2, <3>1 DEF BPushed, ProducerPlaces
  <2>3. CASE BProducerOut(p)
    <3>1. push_counter'[p] = sent'[p]
      BY <2>3 DEF BProducerOut, Go, counts, reports, Reported
    <3> QED
      BY <2>3, <3>1 DEF BProducerOut, ProducerPlaces
  <2> QED
    BY <2>1, <2>2, <2>3 DEF BProduce
<1>4. PICK from, to \in ProducerPlaces :
        /\ Go(p, from, to) /\ from # "done"
        /\ to \in {"leave", "done"} => push_counter'[p] = sent'[p]
  BY <1>3
<1>5. /\ DOMAIN pc' = Threads /\ pc[p] = from /\ pc'[p] = to
      /\ \A u \in Threads \ {p} : pc'[u] = pc[u]
  BY <1>4, Moved, EveryThread
<1>6. AllJoined'
  BY <1>4, <1>5, EveryThread DEF AllJoined
<1>7. Reported'
  BY <1>1, <1>2, <1>4, <1>5, EveryThread, HarnessAssumption DEF Reported
<1> QED
  BY <1>5, <1>6, <1>7

LEMMA BandwidthConsumerCounts ==
  ASSUME Balanced, AllJoined, Reported, DOMAIN pc = Threads, NEW c \in Consumers, BConsume(c)
  PROVE  DOMAIN pc' = Threads /\ AllJoined' /\ Reported'
<1>1. CASE BPop(c) /\ pc' = pc
  <2>1. /\ pc[c] = "pop" /\ sent' = sent /\ UNCHANGED reports
        /\ \A d \in Consumers \ {c} : got'[d] = got[d]
    BY <1>1 DEF BPop, Pop, counts, Balanced
  <2> QED
    BY <1>1, <2>1, EveryThread DEF AllJoined, Reported, reports
<1>2. CASE ~(BPop(c) /\ pc' = pc)
  <2>1. UNCHANGED <<sent, got, push_counter>>
    BY <1>2
    DEF BConsume, BConsumerIn, BBegin, BTest, BPop, BPopped, BConsumerOut, counts, reports
  <2>2. /\ pop_counter' \in [Consumers -> Nat]
        /\ \A d \in Consumers \ {c} : pop_counter'[d] = pop_counter[d]
    BY <1>2
    DEF BConsume, BConsumerIn, BBegin, BTest, BPop, BPopped, BConsumerOut, counts, reports,
        Balanced, Reported
  <2>3. \E from, to \in ConsumerPlaces :
          /\ Go(c, from, to) /\ from # "done"
          /\ to \in {"leave", "done"} => pop_counter'[c] = got[c]
    <3>1. CASE BConsumerIn(c) \/ BBegin(c, "state") \/ BPop(c)
      BY <1>2, <3>1 DEF BConsumerIn, BBegin, BPop, ConsumerPlaces
    <3>2. ASSUME NEW test \in {"state", "count", "empty"}, BTest(c, test)
          PROVE  \E from, to \in ConsumerPlaces :
                   /\ Go(c, from, to) /\ from # "done"
                   /\ to \in {"leave", "done"} => pop_counter'[c] = got[c]
      BY <3>2 DEF BTest, NextTest, ConsumerPlaces
    <3>3. CASE BPopped(c)
      <4>1. pop_counter'[c] = got[c]
        BY <3>3 DEF BPopped, Reported
      <4> QED
        BY <3>3, <4>1 DEF BPopped, ConsumerPlaces
    <3>4. CASE BConsumerOut(c)
      <4>1. pop_counter'[c] = got[c]
        BY <3>4 DEF BConsumerOut, Go, reports, Reported
      <4> QED
        BY <3>4, <4>1 DEF BConsumerOut, ConsumerPlaces
    <3> QED
      BY <3>1, <3>2, <3>3, <3>4 DEF BConsume
  <2>4. PICK from, to \in ConsumerPlaces :
          /\ Go(c, from, to) /\ from # "done"
          /\ to \in {"leave", "done"} => pop_counter'[c] = got[c]
    BY <2>3
  <2>5. /\ DOMAIN pc' = Threads /\ pc[c] = from /\ pc'[c] = to
        /\ \A u \in Threads \ {c} : pc'[u] = pc[u]
    BY <2>4, Moved, EveryThread
  <2>6. AllJoined'
    BY <2>4, <2>5, EveryThread DEF AllJoined
  <2>7. Reported'
    BY <2>1, <2>2, <2>4, <2>5, EveryThread, HarnessAssumption DEF Reported
  <2> QED
    BY <2>5, <2>6, <2>7
<1> QED
  BY <1>1, <1>2

(* The creation of the threads of the other programs, and their end.       *)
LEMMA CMainMoves ==
  ASSUME DOMAIN pc = Threads, AllJoined, CMain
  PROVE  /\ DOMAIN pc' = Threads /\ AllJoined' /\ UNCHANGED <<queue, sent, got, out>>
         /\ \A t \in Everyone : pc'[t] # pc[t] => pc[t] = "new" /\ pc'[t] = "start"
<1>1. CASE CSpawn \/ CWarmUp
  <2>1. /\ DOMAIN pc' = Threads /\ pc'[Main] = "join"
        /\ \A t \in Everyone : pc'[t] # pc[t] => pc[t] = "new" /\ pc'[t] = "start"
    BY <1>1, EveryThread DEF CSpawn, CWarmUp, Spawn
  <2>2. UNCHANGED <<queue, sent, got, out>>
    BY <1>1 DEF CSpawn, CWarmUp, channel, counts, hashing
  <2> QED
    BY <2>1, <2>2 DEF AllJoined
<1>2. CASE CJoin
  <2>1. /\ DOMAIN pc' = Threads /\ \A t \in Everyone : pc'[t] = pc[t] /\ pc[t] = "done"
    BY <1>2, Moved, EveryThread DEF CJoin, Join
  <2>2. UNCHANGED <<queue, sent, got, out>>
    BY <1>2 DEF CJoin, channel, counts, hashing
  <2> QED
    BY <2>1, <2>2 DEF AllJoined
<1> QED
  BY <1>1, <1>2 DEF CMain

(* A thread that is at work stays or ends.                                 *)
LEMMA CMoves ==
  ASSUME DOMAIN pc = Threads, AllJoined, NEW t \in Everyone, pc[t] = "start",
         pc' = pc \/ Go(t, "start", "done")
  PROVE  /\ DOMAIN pc' = Threads /\ AllJoined'
         /\ \A u \in Everyone \ {t} : pc'[u] = pc[u]
<1>1. CASE pc' = pc
  BY <1>1 DEF AllJoined
<1>2. CASE Go(t, "start", "done")
  BY <1>2, Moved, EveryThread DEF AllJoined
<1> QED
  BY <1>1, <1>2

LEMMA CountedStep ==
  ASSUME Balanced, AllJoined, Portions, DOMAIN pc = Threads, program = "counted", CNext
  PROVE  DOMAIN pc' = Threads /\ AllJoined' /\ Portions'
<1>1. Quota = Items /\ Items \in Nat \ {0}
  BY HarnessAssumption DEF Quota
<1>2. CASE CMain
  BY <1>2, CMainMoves, EveryThread DEF Portions
<1>3. ASSUME NEW p \in Producers, CPush(p)
      PROVE  DOMAIN pc' = Threads /\ AllJoined' /\ Portions'
  <2>1. /\ pc[p] = "start" /\ sent[p] < Items /\ UNCHANGED <<pc, got>>
        /\ sent' = [sent EXCEPT ![p] = @ + 1]
    BY <1>1, <1>3 DEF CPush, Push
  <2>2. /\ sent'[p] = sent[p] + 1 /\ sent[p] + 1 <= Items
        /\ \A q \in Producers \ {p} : sent'[q] = sent[q]
    BY <1>1, <2>1 DEF Balanced
  <2> QED
    BY <2>1, <2>2 DEF AllJoined, Portions
<1>4. ASSUME NEW p \in Producers, CPushed(p)
      PROVE  DOMAIN pc' = Threads /\ AllJoined' /\ Portions'
  <2>1. /\ pc[p] = "start" /\ sent[p] = Items /\ UNCHANGED <<sent, got>>
        /\ Go(p, "start", "done")
    BY <1>1, <1>4 DEF CPushed, Go, counts
  <2>2. /\ DOMAIN pc' = Threads /\ AllJoined'
        /\ \A u \in Everyone \ {p} : pc'[u] = pc[u]
    BY <2>1, CMoves, EveryThread
  <2>3. p \notin Consumers
    BY HarnessAssumption
  <2> QED
    BY <2>1, <2>2, <2>3, EveryThread DEF Portions
<1>5. ASSUME NEW c \in Consumers, CPop(c)
      PROVE  DOMAIN pc' = Threads /\ AllJoined' /\ Portions'
  <2>1. /\ pc[c] = "start" /\ sent' = sent /\ got' = [got EXCEPT ![c] = @ + 1]
        /\ IF got[c] + 1 = Items THEN Go(c, "start", "done") ELSE pc' = pc
    BY <1>5 DEF CPop, Pop, LastPop
  <2>2. /\ DOMAIN pc' = Threads /\ AllJoined'
        /\ \A u \in Everyone \ {c} : pc'[u] = pc[u]
    BY <2>1, CMoves, EveryThread
  <2>3. /\ got'[c] = got[c] + 1 /\ got[c] \in Nat /\ got[c] < Items
        /\ \A d \in Consumers \ {c} : got'[d] = got[d]
    BY <2>1 DEF Balanced, Portions
  <2>4. IF pc'[c] = "done" THEN got'[c] = Items ELSE got'[c] < Items
    <3>1. CASE got[c] + 1 = Items
      BY <2>1, <2>3, <3>1, EveryThread DEF Go
    <3>2. CASE got[c] + 1 # Items
      BY <1>1, <2>1, <2>3, <3>2
    <3> QED
      BY <3>1, <3>2
  <2>5. c \notin Producers
    BY HarnessAssumption
  <2> QED
    BY <2>1, <2>2, <2>3, <2>4, <2>5, EveryThread DEF Portions
<1>6. ASSUME NEW c \in Consumers, CPopFails(c)
      PROVE  DOMAIN pc' = Threads /\ AllJoined' /\ Portions'
  BY <1>6 DEF CPopFails, counts, AllJoined, Portions
<1> QED
  BY <1>2, <1>3, <1>4, <1>5, <1>6 DEF CNext, CProduce, CConsume

LEMMA TimingStep ==
  ASSUME Balanced, AllJoined, LastSeen, HashInv, DOMAIN pc = Threads, program = "timing", CNext,
         Producers # {}, Consumers # {}
  PROVE  DOMAIN pc' = Threads /\ AllJoined' /\ LastSeen'
<1> DEFINE writer == First(Producers)
           reader == First(Consumers)
<1>1. writer \in Producers /\ reader \in Consumers
  BY DEF First
<1>2. /\ \A p \in Producers \ {writer} : pc[p] = "done" /\ sent[p] = 0
      /\ \A c \in Consumers \ {reader} : pc[c] = "done"
      /\ pc[reader] = "done" => Len(out[writer]) = Last
  BY DEF LastSeen
<1> HIDE DEF writer, reader
<1>3. CASE CMain
  <2>1. LastSeen'
    BY <1>1, <1>2, <1>3, CMainMoves, EveryThread DEF LastSeen, writer, reader
  <2> QED
    BY <1>3, <2>1, CMainMoves
<1>4. ASSUME NEW p \in Producers, CPush(p)
      PROVE  DOMAIN pc' = Threads /\ AllJoined' /\ LastSeen'
  <2>1. /\ p = writer /\ UNCHANGED <<pc, out>>
        /\ \A q \in Producers \ {p} : sent'[q] = sent[q]
    BY <1>2, <1>4 DEF CPush, Push, hashing, Balanced
  <2> QED
    BY <1>2, <2>1 DEF AllJoined, LastSeen, writer, reader
<1>5. ASSUME NEW p \in Producers, CPushed(p)
      PROVE  DOMAIN pc' = Threads /\ AllJoined' /\ LastSeen'
  <2>1. /\ pc[p] = "start" /\ UNCHANGED <<sent, out>> /\ Go(p, "start", "done")
    BY <1>5 DEF CPushed, Go, counts, hashing
  <2>2. /\ DOMAIN pc' = Threads /\ AllJoined'
        /\ \A u \in Everyone \ {p} : pc'[u] = pc[u]
    BY <2>1, CMoves, EveryThread
  <2>3. p = writer /\ p \notin Consumers
    BY <1>2, <2>1, HarnessAssumption
  <2> QED
    BY <1>1, <1>2, <2>1, <2>2, <2>3, EveryThread DEF LastSeen, writer, reader
<1>6. ASSUME NEW c \in Consumers, CPop(c)
      PROVE  DOMAIN pc' = Threads /\ AllJoined' /\ LastSeen'
  <2> DEFINE e == Head(queue)
  <2>1. /\ pc[c] = "start" /\ sent' = sent /\ queue # << >>
        /\ out' = [out EXCEPT ![e.from] = Append(@, e.n)]
        /\ IF e.n = 0 THEN Go(c, "start", "done") ELSE pc' = pc
    BY <1>6 DEF CPop, Pop, LastPop
  <2>2. c = reader /\ c \notin Producers
    BY <1>2, <2>1, HarnessAssumption
  <2>3. /\ DOMAIN pc' = Threads /\ AllJoined'
        /\ \A u \in Everyone \ {c} : pc'[u] = pc[u]
    BY <2>1, CMoves, EveryThread
  <2>4. /\ queue \in Seq(Elements) /\ HTypeOK /\ out \in [Producers -> Seq(Nat)]
        /\ \A p \in Producers : InLine(p)
    BY DEF HashInv, HTypeOK, Ordered
  <2>5. e \in Elements /\ e.from \in Producers /\ e.n \in Nat
    <3>1. e \in Elements
      BY <2>1, <2>4
    <3> QED
      BY <3>1 DEF Elements
  <2>6. /\ Popped(e.from) \in Nat /\ sent[e.from] \in Nat
        /\ Line(queue, e.from, Popped(e.from), sent[e.from])
    BY <2>4, <2>5, PoppedType DEF InLine
  <2>7. Number(e) = Popped(e.from) + 1 /\ Popped(e.from) < sent[e.from]
    BY <2>1, <2>4, <2>6, LineTail
  <2> HIDE DEF e
  <2>8. e.from = writer
    <3>1. sent[e.from] # 0
      BY <2>6, <2>7
    <3> QED
      BY <1>2, <2>5, <3>1
  <2>9. Popped(writer) = Len(out[writer])
    <3>1. \A d \in Consumers : ~Holds(d, writer)
      BY DEF HashInv, Ranges, Holds, Holding, Hands
    <3> QED
      BY <3>1, Zenon DEF Popped
  <2>10. pc'[reader] = "done" => Len(out'[writer]) = Last
    <3>1. CASE e.n = 0
      <4>1. Number(e) = Last
        BY <3>1 DEF Number
      <4>2. Len(out'[writer]) = Len(out[writer]) + 1
        BY <1>1, <2>1, <2>4, <2>5, <2>8
      <4> QED
        BY <2>7, <2>8, <2>9, <4>1, <4>2
    <3>2. CASE e.n # 0
      BY <2>1, <2>2, <3>2
    <3> QED
      BY <3>1, <3>2
  <2> QED
    BY <1>1, <1>2, <2>1, <2>2, <2>3, <2>10, EveryThread DEF LastSeen, writer, reader
<1>7. ASSUME NEW c \in Consumers, CPopFails(c)
      PROVE  DOMAIN pc' = Threads /\ AllJoined' /\ LastSeen'
  BY <1>7 DEF CPopFails, counts, hashing, AllJoined, LastSeen
<1> QED
  BY <1>3, <1>4, <1>5, <1>6, <1>7 DEF CNext, CProduce, CConsume

(* The hypothesis on the numbers of threads: somebody on either side, and  *)
(* in the programs that count as many pops as pushes.                      *)
Matched == /\ Producers # {} /\ Consumers # {}
           /\ "counted" \in Programs => Cardinality(Producers) = Cardinality(Consumers)

CountSafe == /\ program \in Programs
             /\ program \in Counting => CountInv

LEMMA CountStep ==
  ASSUME Matched, CountSafe, BInv, HashSafe, [HarnessNext]_hvars
  PROVE  CountSafe'
<1>1. program' = program
  BY DEF HarnessNext, Advance, hvars
<1> SUFFICES ASSUME program \in Counting PROVE CountInv'
  BY <1>1 DEF CountSafe
<1>2. CountInv
  BY DEF CountSafe
<1>3. CASE UNCHANGED <<queue, sent, got, pc, reports, out>>
  <2>1. Balanced'
    BY <1>2, <1>3, BalancedStep DEF CountInv, Transfer
  <2>2. /\ DOMAIN pc' = Threads /\ AllJoined'
        /\ Reported => Reported'
        /\ Portions => Portions'
        /\ LastSeen => LastSeen'
    BY <1>2, <1>3 DEF CountInv, AllJoined, Reported, Portions, LastSeen, reports
  <2> QED
    BY <1>1, <1>2, <2>1, <2>2 DEF CountInv
<1>4. ASSUME HarnessNext PROVE Balanced'
  BY <1>2, <1>4, Transfers, BalancedStep DEF CountInv
<1>5. CASE program = "bandwidth" /\ BNext
  <2>1. /\ Inv /\ Balanced /\ AllJoined /\ Reported /\ DOMAIN pc = Threads
    BY <1>2, <1>5 DEF CountInv, BInv
  <2>2. DOMAIN pc' = Threads /\ AllJoined' /\ Reported'
    BY <1>5, <2>1, BandwidthMainCounts, BandwidthProducerCounts, BandwidthConsumerCounts
    DEF BNext
  <2>3. HarnessNext
    BY <1>1, <1>5 DEF HarnessNext
  <2> QED
    BY <1>1, <1>4, <1>5, <2>2, <2>3 DEF CountInv
<1>6. CASE program = "counted" /\ CNext
  <2>1. DOMAIN pc' = Threads /\ AllJoined' /\ Portions'
    BY <1>2, <1>6, CountedStep DEF CountInv
  <2>2. HarnessNext
    BY <1>1, <1>6 DEF HarnessNext
  <2> QED
    BY <1>1, <1>4, <1>6, <2>1, <2>2 DEF CountInv
<1>7. CASE program = "timing" /\ CNext
  <2>1. HashInv
    BY <1>7 DEF HashSafe, Hashing, Matched
  <2>2. DOMAIN pc' = Threads /\ AllJoined' /\ LastSeen'
    BY <1>2, <1>7, <2>1, TimingStep DEF CountInv, Matched
  <2>3. HarnessNext
    BY <1>1, <1>7 DEF HarnessNext
  <2> QED
    BY <1>1, <1>4, <1>7, <2>2, <2>3 DEF CountInv
<1> QED
  BY <1>3, <1>5, <1>6, <1>7
  DEF HarnessNext, Advance, hvars, channel, counts, hashing, Counting

(* In QBandwidth::run, in the programs that count and in QTiming::run what *)
(* has been pushed has been popped or is still in the queue, the reports   *)
(* are the counts, and who has ended has done its part.                    *)
THEOREM CountSafety == ASSUME Matched PROVE HarnessSpec => []CountSafe
<1>1. HInit => CountSafe
  BY CountInit DEF HInit, CountSafe, Matched
<1>2. BInv /\ HashSafe /\ CountSafe /\ [HarnessNext]_hvars => CountSafe'
  BY CountStep
<1> QED
  BY <1>1, <1>2, BandwidthSafety, HashSafety, PTL DEF HarnessSpec

(* When main has joined the threads of QBandwidth::run, of a program that  *)
(* counts or of QTiming::run, the queue is empty, as many elements have    *)
(* been popped as pushed, and QBandwidth reports just that (total_push and *)
(* total_pop agree).                                                       *)
THEOREM NothingIsLeft == ASSUME Matched PROVE HarnessSpec => []NothingLeft
<1>1. CountSafe /\ BInv /\ HashSafe => NothingLeft
  <2> SUFFICES ASSUME CountSafe, BInv, HashSafe, pc[Main] = "done", program \in Counting
               PROVE  /\ queue = << >> /\ Total(sent) = Total(got)
                      /\ program = "bandwidth" => push_counter = sent /\ pop_counter = got
    BY DEF NothingLeft, Counting
  <2>1. /\ CountInv /\ Balanced /\ \A t \in Everyone : pc[t] = "done"
        /\ queue \in Seq(Sent) /\ Total(got) \in Nat
        /\ sent \in [Producers -> Nat] /\ got \in [Consumers -> Nat]
        /\ Total(sent) = Total(got) + Len(queue)
    BY DEF CountSafe, CountInv, AllJoined, Balanced
  <2>2. CASE program = "bandwidth"
    <3>1. PICK c \in Consumers : pc[c] = "done"
      BY <2>1, EveryThread DEF Matched
    <3>2. queue = << >>
      BY <2>2, <3>1 DEF BInv, Inv, Learnt
    <3>3. Reported
      BY <2>1, <2>2 DEF CountInv
    <3>4. /\ push_counter \in [Producers -> Nat] /\ pop_counter \in [Consumers -> Nat]
          /\ \A p \in Producers : push_counter[p] = sent[p]
          /\ \A d \in Consumers : pop_counter[d] = got[d]
      BY <2>1, <3>3, EveryThread DEF Reported
    <3> QED
      BY <2>1, <3>2, <3>4
  <2>3. CASE program = "counted"
    <3>1. /\ \A p \in Producers : sent[p] = Items
          /\ \A c \in Consumers : got[c] = Items
      BY <2>1, <2>3, EveryThread DEF CountInv, Portions
    <3>2. Items \in Nat /\ IsFiniteSet(Producers) /\ IsFiniteSet(Consumers)
      BY HarnessAssumption
    <3>3. /\ Total(sent) = Cardinality(Producers) * Items
          /\ Total(got) = Cardinality(Consumers) * Items
      BY <2>1, <3>1, <3>2, TotalEqual
    <3>4. Cardinality(Producers) = Cardinality(Consumers)
      BY <2>3 DEF CountSafe, Matched
    <3>5. Total(sent) = Total(got)
      BY <3>3, <3>4
    <3>6. Len(queue) = 0
      BY <2>1, <3>5
    <3> QED
      BY <2>1, <2>3, <3>5, <3>6
  <2>4. CASE program = "timing"
    <3> DEFINE writer == First(Producers)
               reader == First(Consumers)
    <3>1. writer \in Producers /\ reader \in Consumers
      BY DEF Matched, First
    <3>2. /\ Len(out[writer]) = Last
          /\ \A p \in Producers \ {writer} : sent[p] = 0
      BY <2>1, <2>4, <3>1, EveryThread DEF CountInv, LastSeen
    <3> HIDE DEF writer, reader
    <3>3. /\ HashInv /\ Quota = Last /\ Last \in Nat
      BY <2>4, HarnessAssumption DEF HashSafe, Hashing, Matched, Quota, Last
    <3>4. /\ HTypeOK /\ queue \in Seq(Elements) /\ sent \in [Producers -> 0 .. Last]
          /\ \A p \in Producers : InLine(p)
      BY <2>4, <3>3 DEF HashInv, HTypeOK, Ordered
    <3>5. \A p \in Producers : Popped(p) = Len(out[p])
      <4> TAKE p \in Producers
      <4>1. \A d \in Consumers : ~Holds(d, p)
        BY <2>4, <3>3 DEF HashInv, Ranges, Holds, Holding, Hands
      <4> QED
        BY <4>1, Zenon DEF Popped
    <3>6. ASSUME queue # << >> PROVE FALSE
      <4> DEFINE p == Head(queue).from
      <4>1. p \in Producers
        <5>1. Head(queue) \in Elements
          BY <3>4, <3>6
        <5> QED
          BY <5>1 DEF Elements
      <4> HIDE DEF p
      <4>2. /\ Popped(p) \in Nat /\ sent[p] \in 0 .. Last
            /\ Line(queue, p, Popped(p), sent[p])
        BY <3>4, <4>1, PoppedType DEF InLine
      <4>3. Popped(p) < sent[p]
        BY <3>4, <3>6, <4>1, <4>2, LineTail DEF p
      <4>4. p = writer
        BY <3>2, <4>1, <4>2, <4>3
      <4> QED
        BY <3>2, <3>3, <3>5, <4>1, <4>2, <4>3, <4>4
    <3>7. Len(queue) = 0
      BY <3>6
    <3> QED
      BY <2>1, <2>4, <3>6, <3>7
  <2> QED
    BY <2>2, <2>3, <2>4 DEF Counting
<1> QED
  BY <1>1, CountSafety, BandwidthSafety, HashSafety, PTL
==============================================================================
