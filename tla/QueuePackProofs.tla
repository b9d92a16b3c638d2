--------------------------- MODULE QueuePackProofs ---------------------------
(* What mpmc_queue_pack promises, for any number of producers, consumers   *)
(* and queues: order, no starvation of a queue, and no false "empty".      *)
EXTENDS QueuePack, ModularArithmetic

Elements == [from : Producers, n : Nat]

KTypeOK ==
  /\ queues \in [Queues -> Seq(Elements)]
  /\ writers_count \in Nat /\ readers_count \in Nat
  /\ write_queue \in [Producers -> Queues \cup {Unbound}]
  /\ read_queue \in [Consumers -> Queues \cup {Unbound}]
  /\ pop_count \in [Consumers -> 0 .. K - 1]
  /\ pc \in [Consumers -> {"new", "idle", "own", "scan"}]
  /\ k \in [Consumers -> Nat]
  /\ sent \in [Producers -> Nat] /\ taken \in [Producers -> Nat]
  /\ passed \in [Consumers -> [Queues -> Nat]]
  /\ full \in [Consumers -> SUBSET Queues]
  /\ \A c \in Consumers : pc[c] # "new" => read_queue[c] \in Queues

(* The elements of p: all in its queue, numbered on from the last taken.   *)
Line(p) ==
  LET g == write_queue[p] IN
  /\ taken[p] <= sent[p]
  /\ g = Unbound => sent[p] = 0
  /\ \A h \in Queues : \A i \in At(h, p) :
       h = g /\ taken[p] < queues[h][i].n /\ queues[h][i].n <= sent[p]
  /\ \A n \in taken[p] + 1 .. sent[p] :
       \E i \in DOMAIN queues[g] : queues[g][i] = [from |-> p, n |-> n]
  /\ \A h \in Queues : \A i, j \in At(h, p) : i < j => queues[h][i].n < queues[h][j].n

(* How far queue g is ahead of queue r, the way a consumer goes.           *)
Ahead(r, g) == IF g >= r THEN g - r ELSE g - r + G

(* The pops a consumer makes from the queues it leaves behind until queue  *)
(* g is d ahead of it, if it makes as many as it can.                      *)
Round(d) == (G - 1 - d) * (K + 1)

(* The histories are about queues that hold an element.                    *)
History ==
  /\ \A c \in Consumers : \A g \in full[c] : queues[g] # << >>
  /\ \A c \in Consumers : \A g \in Queues : queues[g] = << >> => passed[c][g] = 0

(* The last j queues a consumer at queue r came through, r among them.     *)
Behind(r, j, g) == Ahead(r, g) = 0 \/ G - Ahead(r, g) < j

(* A consumer that scans has found the last k queues empty, its own and    *)
(* those it went through since.                                            *)
Scanning(c) ==
  pc[c] = "scan" =>
    /\ 1 <= k[c] /\ k[c] < G /\ pop_count[c] = 0
    /\ \A g \in Queues : Behind(read_queue[c], k[c], g) =>
         g \notin full[c] /\ passed[c][g] = 0

(* The nearer a consumer is to a queue, the more pops it may have made     *)
(* since it was there; it makes at most K + 1 from each queue in between.  *)
Limit(r, n, place, g) ==
  LET d == Ahead(r, g) IN IF d = 0 THEN Round(0)
                          ELSE IF place = "scan" THEN Round(d) + K
                          ELSE Round(d) + n + 1

Bounded(c) ==
  \A g \in Queues :
    passed[c][g] <= IF pc[c] = "new" THEN 0
                    ELSE Limit(read_queue[c], pop_count[c], pc[c], g)

KInv == /\ KTypeOK /\ History
        /\ \A p \in Producers : Line(p)
        /\ \A c \in Consumers : Scanning(c) /\ Bounded(c)
------------------------------------------------------------------------------
(* Going round the pack. *)

LEMMA Sizes == G \in Nat \ {0} /\ K \in Nat \ {0} /\ Items \in Nat /\ N \in Nat \ {0}
BY PackAssumption

LEMMA NextBeside ==
  ASSUME NEW r \in Queues
  PROVE  Beside(r) \in Queues /\ Beside(r) = IF r = G - 1 THEN 0 ELSE r + 1
BY Sizes DEF Beside, Queues

LEMMA RoundRobin ==
  ASSUME NEW n \in Nat
  PROVE  n % G \in Queues
BY Sizes, Division DEF Queues

(* One step further brings a consumer one nearer to every other queue.     *)
LEMMA Nearer ==
  ASSUME NEW r \in Queues, NEW g \in Queues
  PROVE  /\ Ahead(r, g) \in 0 .. G - 1
         /\ Ahead(r, g) = 0 <=> g = r
         /\ Ahead(Beside(r), g) = IF g = r THEN G - 1 ELSE Ahead(r, g) - 1
<1>1. G \in Nat \ {0} /\ r \in Int /\ g \in Int /\ 0 <= r /\ r < G /\ 0 <= g /\ g < G
  BY Sizes DEF Queues
<1>2. Beside(r) = IF r = G - 1 THEN 0 ELSE r + 1
  BY NextBeside
<1> QED
  BY <1>1, <1>2 DEF Ahead

LEMMA Distributes ==
  ASSUME NEW x \in Int, NEW y \in Int, NEW z \in Int
  PROVE  (x + y) * z = x * z + y * z
OBVIOUS

LEMMA Rounds ==
  /\ Round(0) \in Nat /\ Round(G - 1) = 0
  /\ \A d \in 1 .. G - 1 : /\ Round(d) \in Nat
                           /\ Round(d - 1) = Round(d) + K + 1
                           /\ Round(d) + K + 1 <= Round(0)
<1>1. G \in Nat \ {0} /\ K \in Nat \ {0}
  BY Sizes
<1> DEFINE L == K + 1
<1>2. L \in Nat /\ 1 <= L /\ L = K + 1
  BY <1>1
<1> HIDE DEF L
<1>3. \A a \in Nat : a * L \in Nat
  BY <1>2
<1>4. Round(0) = (G - 1) * L /\ G - 1 \in Nat /\ Round(G - 1) = 0 * L
  BY <1>1, <1>2 DEF Round
<1>5. ASSUME NEW d \in 1 .. G - 1
      PROVE  /\ Round(d) \in Nat /\ Round(d - 1) = Round(d) + L
             /\ Round(d) + L <= Round(0)
  <2> DEFINE a == G - 1 - d
             b == d - 1
  <2>1. a \in Nat /\ b \in Nat /\ G - 1 - (d - 1) = a + 1 /\ G - 1 = (a + 1) + b
    BY <1>1
  <2>2. Round(d) = a * L /\ Round(d - 1) = (a + 1) * L /\ Round(0) = ((a + 1) + b) * L
    <3>1. Round(d) = a * L /\ Round(d - 1) = (G - 1 - (d - 1)) * L
      BY <1>2 DEF Round
    <3> HIDE DEF a, b
    <3>2. Round(d - 1) = (a + 1) * L
      BY <2>1, <3>1, Zenon
    <3>3. Round(0) = ((a + 1) + b) * L
      BY <1>4, <2>1, Zenon
    <3> QED
      BY <3>1, <3>2, <3>3
  <2> HIDE DEF a, b
  <2>3. (a + 1) * L = a * L + L /\ ((a + 1) + b) * L = (a * L + L) + b * L
    <3>1. a \in Int /\ b \in Int /\ L \in Int /\ 1 \in Int /\ a + 1 \in Int /\ 1 * L = L
      BY <1>2, <2>1
    <3>2. (a + 1) * L = a * L + 1 * L
      BY <3>1, Distributes, Zenon
    <3>3. ((a + 1) + b) * L = (a + 1) * L + b * L
      BY <3>1, Distributes, Zenon
    <3> QED
      BY <3>1, <3>2, <3>3, Zenon
  <2>4. a * L \in Nat /\ b * L \in Nat
    BY <1>3, <2>1
  <2> QED
    BY <1>2, <2>2, <2>3, <2>4
<1>6. Round(0) \in Nat /\ Round(G - 1) = 0
  BY <1>2, <1>3, <1>4
<1>7. \A d \in 1 .. G - 1, x \in Nat : x + L = x + K + 1
  BY <1>1, <1>2
<1> QED
  BY <1>5, <1>6, <1>7
------------------------------------------------------------------------------
(* The start. *)

LEMMA KInvInit == KInit => KInv
<1> SUFFICES ASSUME KInit PROVE KInv
  OBVIOUS
<1>1. KTypeOK
  BY Sizes DEF KInit, KTypeOK, Queues
<1>2. History
  BY DEF KInit, History
<1>3. ASSUME NEW p \in Producers
      PROVE  Line(p)
  BY DEF KInit, Line, At
<1>4. ASSUME NEW c \in Consumers
      PROVE  Scanning(c) /\ Bounded(c)
  BY DEF KInit, Scanning, Bounded
<1> QED
  BY <1>1, <1>2, <1>3, <1>4 DEF KInv
------------------------------------------------------------------------------
(* Types. *)

LEMMA HeadAndTail ==
  ASSUME KTypeOK, NEW g \in Queues, queues[g] # << >>
  PROVE  /\ queues[g] \in Seq(Elements) /\ Len(queues[g]) \in Nat \ {0}
         /\ Head(queues[g]) = queues[g][1] /\ queues[g][1] \in Elements
         /\ Tail(queues[g]) \in Seq(Elements)
         /\ Len(Tail(queues[g])) = Len(queues[g]) - 1
         /\ \A i \in 1 .. Len(queues[g]) - 1 : Tail(queues[g])[i] = queues[g][i + 1]
BY DEF KTypeOK

LEMMA TakeTypes ==
  ASSUME KTypeOK, NEW c \in Consumers, NEW g \in Queues, Take(c, g)
  PROVE  /\ queues' \in [Queues -> Seq(Elements)]
         /\ taken' \in [Producers -> Nat]
         /\ passed' \in [Consumers -> [Queues -> Nat]]
         /\ full' \in [Consumers -> SUBSET Queues]
         /\ pc' \in [Consumers -> {"new", "idle", "own", "scan"}]
<1>1. Tail(queues[g]) \in Seq(Elements) /\ Head(queues[g]) \in Elements
  BY HeadAndTail DEF Take
<1>2. queues' \in [Queues -> Seq(Elements)]
  BY <1>1 DEF Take, KTypeOK
<1>3. taken' \in [Producers -> Nat]
  BY <1>1 DEF Take, KTypeOK, Elements
<1>4. passed' \in [Consumers -> [Queues -> Nat]]
  BY DEF Take, Passed, KTypeOK
<1>5. full' \in [Consumers -> SUBSET Queues]
  BY DEF Take, StillFull, KTypeOK
<1> QED
  BY <1>2, <1>3, <1>4, <1>5 DEF Take, KTypeOK

LEMMA ScanTypes ==
  ASSUME KTypeOK, NEW c \in Consumers, NEW i \in Nat, Scan(c, i)
  PROVE  /\ k' \in [Consumers -> Nat]
         /\ pc' \in [Consumers -> {"new", "idle", "own", "scan"}]
BY DEF Scan, KTypeOK

(* What a step of consumer c does to its own variables and to the others'. *)
LEMMA OwnVariables ==
  ASSUME KTypeOK, NEW c \in Consumers, Consume(c)
  PROVE  /\ \A d \in Consumers \ {c} :
              /\ pc'[d] = pc[d] /\ read_queue'[d] = read_queue[d]
              /\ pop_count'[d] = pop_count[d] /\ k'[d] = k[d]
         /\ UNCHANGED <<write_queue, sent>>
BY DEF Consume, MakeConsumer, PopCall, PopOwn, OwnEmpty, ScanTake, ScanEmpty,
       Take, Scan, KTypeOK, objects

LEMMA ConsumeTypes == ASSUME KInv, NEW c \in Consumers, Consume(c) PROVE KTypeOK'
<1>1. KTypeOK /\ Scanning(c)
  BY DEF KInv
<1>2. pc[c] # "new" => read_queue[c] \in Queues /\ Beside(read_queue[c]) \in Queues
  BY <1>1, NextBeside DEF KTypeOK
<1>3. 0 \in 0 .. K - 1 /\ 1 \in Nat
  BY Sizes
<1>4. CASE MakeConsumer(c)
  <2>1. readers_count % G \in Queues /\ readers_count + 1 \in Nat
    BY <1>1, RoundRobin DEF KTypeOK
  <2> QED
    BY <1>1, <1>4, <2>1 DEF MakeConsumer, KTypeOK
<1>5. CASE PopCall(c)
  BY <1>1, <1>5 DEF PopCall, KTypeOK, objects
<1>6. CASE PopOwn(c)
  <2>1. Take(c, read_queue[c]) /\ read_queue[c] \in Queues
    BY <1>2, <1>6 DEF PopOwn
  <2>2. pop_count[c] \in 0 .. K - 1
    BY <1>1 DEF KTypeOK
  <2>3. ~Enough(pop_count[c] + 1) => pop_count[c] + 1 \in 0 .. K - 1
    BY <2>2, Sizes DEF Enough
  <2>4. pop_count' \in [Consumers -> 0 .. K - 1]
    BY <1>1, <1>3, <1>6, <2>3 DEF PopOwn, KTypeOK
  <2>5. /\ read_queue' \in [Consumers -> Queues \cup {Unbound}]
        /\ \A d \in Consumers : pc'[d] # "new" => read_queue'[d] \in Queues
    BY <1>1, <1>2, <1>6, OwnVariables DEF PopOwn, KTypeOK, Consume
  <2> QED
    BY <1>1, <1>6, <2>1, <2>4, <2>5, TakeTypes DEF PopOwn, KTypeOK, objects
<1>7. CASE OwnEmpty(c)
  <2>1. /\ k' \in [Consumers -> Nat]
        /\ pc' \in [Consumers -> {"new", "idle", "own", "scan"}]
    BY <1>1, <1>3, <1>7, ScanTypes DEF OwnEmpty
  <2>2. pop_count' \in [Consumers -> 0 .. K - 1]
    BY <1>1, <1>3, <1>7 DEF OwnEmpty, KTypeOK
  <2>3. \A d \in Consumers : pc'[d] # "new" => read_queue[d] \in Queues
    BY <1>1, <1>2, <1>7 DEF OwnEmpty, Scan, KTypeOK
  <2> QED
    BY <1>1, <1>7, <2>1, <2>2, <2>3 DEF OwnEmpty, KTypeOK, objects
<1>8. CASE ScanTake(c)
  <2>1. Take(c, Beside(read_queue[c])) /\ Beside(read_queue[c]) \in Queues
    BY <1>2, <1>8 DEF ScanTake
  <2>2. /\ read_queue' \in [Consumers -> Queues \cup {Unbound}]
        /\ \A d \in Consumers : pc'[d] # "new" => read_queue'[d] \in Queues
    BY <1>1, <1>2, <1>8, OwnVariables DEF ScanTake, KTypeOK, Consume
  <2> QED
    BY <1>1, <1>8, <2>1, <2>2, TakeTypes DEF ScanTake, KTypeOK, objects
<1>9. CASE ScanEmpty(c)
  <2>0. k[c] + 1 \in Nat
    BY <1>1 DEF KTypeOK
  <2>1. /\ k' \in [Consumers -> Nat]
        /\ pc' \in [Consumers -> {"new", "idle", "own", "scan"}]
    BY <1>1, <1>9, <2>0, ScanTypes DEF ScanEmpty
  <2>2. /\ read_queue' \in [Consumers -> Queues \cup {Unbound}]
        /\ \A d \in Consumers : pc'[d] # "new" => read_queue'[d] \in Queues
    BY <1>1, <1>2, <1>9, OwnVariables DEF ScanEmpty, KTypeOK, Consume
  <2> QED
    BY <1>1, <1>9, <2>1, <2>2 DEF ScanEmpty, KTypeOK, objects
<1> QED
  BY <1>4, <1>5, <1>6, <1>7, <1>8, <1>9 DEF Consume

LEMMA ProduceTypes == ASSUME KInv, NEW p \in Producers, Produce(p) PROVE KTypeOK'
<1>1. KTypeOK
  BY DEF KInv
<1>2. CASE MakeProducer(p)
  <2>1. writers_count % G \in Queues /\ writers_count + 1 \in Nat
    BY <1>1, RoundRobin DEF KTypeOK
  <2> QED
    BY <1>1, <1>2, <2>1 DEF MakeProducer, KTypeOK, reader
<1>3. CASE Push(p)
  <2>1. write_queue[p] \in Queues /\ sent[p] + 1 \in Nat
    BY <1>1, <1>3 DEF Push, KTypeOK
  <2>2. [from |-> p, n |-> sent[p] + 1] \in Elements
    BY <2>1 DEF Elements
  <2>3. queues' \in [Queues -> Seq(Elements)]
    BY <1>1, <1>3, <2>1, <2>2 DEF Push, Bound, KTypeOK
  <2> QED
    BY <1>1, <1>3, <2>1, <2>3 DEF Push, KTypeOK, objects, reader
<1> QED
  BY <1>2, <1>3 DEF Produce
------------------------------------------------------------------------------
(* Order. *)

(* The element at the front of a queue is the next one of its producer.    *)
LEMMA NextInLine ==
  ASSUME KInv, NEW g \in Queues, queues[g] # << >>,
         NEW e, e = Head(queues[g])
  PROVE  /\ e.from \in Producers /\ write_queue[e.from] = g
         /\ e.n = taken[e.from] + 1 /\ e.n <= sent[e.from]
<1> DEFINE p == e.from
<1>1. KTypeOK /\ p \in Producers /\ e = queues[g][1] /\ 1 \in DOMAIN queues[g]
  BY HeadAndTail DEF KInv, Elements
<1>2. Line(p) /\ taken[p] \in Nat /\ sent[p] \in Nat /\ e.n \in Nat
  BY <1>1, HeadAndTail DEF KInv, KTypeOK, Elements
<1>3. 1 \in At(g, p)
  BY <1>1 DEF At
<1>4. g = write_queue[p] /\ taken[p] < e.n /\ e.n <= sent[p]
  BY <1>1, <1>2, <1>3 DEF Line
<1> DEFINE m == e.n
           a == taken[p]
           b == sent[p]
<1>5. /\ m \in Nat /\ a \in Nat /\ b \in Nat /\ a < m /\ m <= b
      /\ queues[g][1].n = m /\ Line(p) /\ 1 \in At(g, p) /\ g = write_queue[p]
  BY <1>1, <1>2, <1>3, <1>4
<1> HIDE DEF p, m, a, b
<1>6. ASSUME a + 1 < m
      PROVE  FALSE
  <2>1. a + 1 \in a + 1 .. b
    BY <1>5, <1>6
  <2>2. PICK i \in DOMAIN queues[g] : queues[g][i] = [from |-> p, n |-> a + 1]
    BY <1>5, <2>1 DEF Line, a, b
  <2>3. i \in At(g, p) /\ queues[g][i].n = a + 1
    BY <2>2 DEF At
  <2>4. i \in 1 .. Len(queues[g])
    BY <1>1, HeadAndTail
  <2>5. i # 1
    BY <1>5, <1>6, <2>3
  <2>6. 1 < i
    BY <1>1, <2>4, <2>5, HeadAndTail
  <2>7. queues[g][1].n < queues[g][i].n
    BY <1>5, <2>3, <2>6 DEF Line
  <2> QED
    BY <1>5, <1>6, <2>3, <2>7
<1>7. m = a + 1
  BY <1>5, <1>6
<1> QED
  BY <1>1, <1>4, <1>7 DEF m, a, p

LEMMA LineTake ==
  ASSUME KInv, NEW c \in Consumers, NEW g \in Queues, Take(c, g),
         UNCHANGED <<write_queue, sent>>, NEW p \in Producers
  PROVE  Line(p)'
<1> DEFINE e == Head(queues[g])
           h == write_queue[p]
           t == IF p = e.from THEN taken[p] + 1 ELSE taken[p]
<1>1. /\ KTypeOK /\ Line(p) /\ queues[g] # << >>
      /\ h' = h /\ sent'[p] = sent[p] /\ taken[p] \in Nat /\ sent[p] \in Nat
  BY DEF KInv, KTypeOK, Take
<1>2. /\ e.from \in Producers /\ write_queue[e.from] = g
      /\ e.n = taken[e.from] + 1 /\ e.n <= sent[e.from]
      /\ e = queues[g][1]
  BY <1>1, NextInLine, HeadAndTail
<1> HIDE DEF e
<1>3. taken'[p] = t
  BY <1>1, <1>2 DEF Take, KTypeOK, e
<1>4. /\ \A f \in Queues \ {g} : queues'[f] = queues[f]
      /\ queues'[g] = Tail(queues[g])
  BY <1>1 DEF Take, KTypeOK
<1>5. /\ \A i \in DOMAIN queues'[g] :
           /\ i \in Int /\ i + 1 \in DOMAIN queues[g] /\ 1 < i + 1
           /\ queues'[g][i] = queues[g][i + 1]
      /\ \A j \in DOMAIN queues[g] : j # 1 =>
           j - 1 \in DOMAIN queues'[g] /\ queues'[g][j - 1] = queues[g][j]
  BY <1>1, <1>4, HeadAndTail
<1>6. /\ \A f \in Queues \ {g} : At(f, p)' = At(f, p)
      /\ \A i \in At(g, p)' : /\ i \in Int /\ i + 1 \in At(g, p) /\ 1 < i + 1
                              /\ queues'[g][i] = queues[g][i + 1]
  BY <1>4, <1>5 DEF At
<1>7. p = e.from => 1 \in At(g, p) /\ queues[g][1].n = taken[p] + 1
  BY <1>1, <1>2, HeadAndTail DEF At
<1>8. \A f \in Queues : \A i \in At(f, p)' :
        f = h /\ t < queues'[f][i].n /\ queues'[f][i].n <= sent[p]
  <2> SUFFICES ASSUME NEW f \in Queues, NEW i \in At(f, p)'
               PROVE  f = h /\ t < queues'[f][i].n /\ queues'[f][i].n <= sent[p]
    OBVIOUS
  <2>1. CASE f # g
    BY <1>1, <1>2, <1>4, <1>6, <2>1 DEF Line
  <2>2. CASE f = g
    <3>1. i + 1 \in At(g, p) /\ 1 < i + 1 /\ queues'[g][i] = queues[g][i + 1]
      BY <1>6, <2>2
    <3>2. g = h /\ taken[p] < queues[g][i + 1].n /\ queues[g][i + 1].n <= sent[p]
      BY <1>1, <3>1 DEF Line
    <3>3. p = e.from => queues[g][1].n < queues[g][i + 1].n
      BY <1>1, <1>7, <3>1 DEF Line
    <3> QED
      BY <1>7, <2>2, <3>1, <3>2, <3>3
  <2> QED
    BY <2>1, <2>2
<1>9. \A n \in t + 1 .. sent[p] :
        \E i \in DOMAIN queues'[h] : queues'[h][i] = [from |-> p, n |-> n]
  <2> SUFFICES ASSUME NEW n \in t + 1 .. sent[p]
               PROVE  \E i \in DOMAIN queues'[h] : queues'[h][i] = [from |-> p, n |-> n]
    OBVIOUS
  <2>1. n \in taken[p] + 1 .. sent[p] /\ (p = e.from => n # taken[p] + 1) /\ h # Unbound
    BY <1>1 DEF Line
  <2>2. PICK j \in DOMAIN queues[h] : queues[h][j] = [from |-> p, n |-> n]
    BY <1>1, <2>1 DEF Line
  <2>3. CASE h = g
    <3>1. j # 1
      BY <1>2, <1>7, <2>1, <2>2, <2>3
    <3> QED
      BY <1>5, <2>2, <2>3, <3>1
  <2>4. CASE h # g
    BY <1>1, <1>4, <2>1, <2>2, <2>4 DEF KTypeOK
  <2> QED
    BY <2>3, <2>4
<1>10. \A f \in Queues : \A i, j \in At(f, p)' :
         i < j => queues'[f][i].n < queues'[f][j].n
  <2> SUFFICES ASSUME NEW f \in Queues, NEW i \in At(f, p)', NEW j \in At(f, p)', i < j
               PROVE  queues'[f][i].n < queues'[f][j].n
    OBVIOUS
  <2>1. CASE f # g
    BY <1>1, <1>4, <1>6, <2>1 DEF Line
  <2>2. CASE f = g
    <3>1. /\ i + 1 \in At(g, p) /\ j + 1 \in At(g, p) /\ i + 1 < j + 1
          /\ queues'[g][i] = queues[g][i + 1] /\ queues'[g][j] = queues[g][j + 1]
      BY <1>6, <2>2
    <3> QED
      BY <1>1, <2>2, <3>1 DEF Line
  <2> QED
    BY <2>1, <2>2
<1>11. t <= sent[p] /\ (h = Unbound => sent[p] = 0)
  BY <1>1, <1>2 DEF Line
<1> QED
  BY <1>1, <1>3, <1>8, <1>9, <1>10, <1>11 DEF Line

LEMMA LinePush ==
  ASSUME KInv, NEW q \in Producers, Push(q), NEW p \in Producers,
         NEW g, g = write_queue[q]
  PROVE  Line(p)'
<1> DEFINE h == write_queue[p]
           l == Len(queues[g])
           a == taken[p]
           b == sent[p]
           s == IF p = q THEN b + 1 ELSE b
<1>1. /\ g \in Queues /\ queues[g] \in Seq(Elements) /\ l \in Nat
      /\ queues' = [queues EXCEPT ![g] = Append(@, [from |-> q, n |-> sent[q] + 1])]
      /\ DOMAIN queues = Queues /\ h \in Queues \cup {Unbound} /\ g # Unbound
  BY DEF KInv, KTypeOK, Push, Bound
<1>2. /\ Line(p) /\ a \in Nat /\ b \in Nat
      /\ h' = h /\ taken'[p] = a /\ sent'[p] = s
  BY DEF KInv, KTypeOK, Push, objects
<1>3. /\ s \in Nat /\ b <= s /\ (p # q => s = b) /\ (p = q => s = b + 1)
      /\ a <= b /\ a <= s
  BY <1>2 DEF Line
<1>4. /\ \A f \in Queues \ {g} : queues'[f] = queues[f]
      /\ queues'[g] = Append(queues[g], [from |-> q, n |-> sent[q] + 1])
  BY <1>1
<1>5. /\ DOMAIN queues[g] = 1 .. l /\ DOMAIN queues'[g] = 1 .. l + 1
      /\ l + 1 \in 1 .. l + 1 /\ \A i \in 1 .. l + 1 : i \in 1 .. l \/ i = l + 1
      /\ \A i \in 1 .. l : /\ queues'[g][i] = queues[g][i]
                           /\ i \in 1 .. l + 1 /\ i < l + 1 /\ ~(l + 1 < i)
      /\ queues'[g][l + 1] = [from |-> q, n |-> sent[q] + 1]
      /\ l \in Nat /\ ~(l + 1 < l + 1)
  BY <1>1, <1>4
<1>6. p = q => queues'[g][l + 1].n = s /\ b < s /\ h = g
  BY <1>2, <1>3, <1>5
<1>7. p = q => queues'[g][l + 1] = [from |-> p, n |-> b + 1]
  BY <1>5
<1>8. /\ \A f \in Queues : \A i \in At(f, p) :
           h = f /\ a < queues[f][i].n /\ queues[f][i].n <= b
      /\ \A n \in a + 1 .. b :
           \E i \in DOMAIN queues[h] : queues[h][i] = [from |-> p, n |-> n]
      /\ \A f \in Queues : \A i, j \in At(f, p) : i < j => queues[f][i].n < queues[f][j].n
      /\ h = Unbound => b = 0
  BY <1>2 DEF Line
<1> HIDE DEF l, s, a, b
<1>9. \A f \in Queues \ {g} : At(f, p)' = At(f, p)
  BY <1>4 DEF At
<1>10. \A i \in At(g, p)' : \/ /\ i \in At(g, p) /\ i \in 1 .. l
                               /\ queues'[g][i] = queues[g][i]
                            \/ i = l + 1 /\ p = q
  <2> SUFFICES ASSUME NEW i \in At(g, p)'
               PROVE  \/ /\ i \in At(g, p) /\ i \in 1 .. l
                         /\ queues'[g][i] = queues[g][i]
                      \/ i = l + 1 /\ p = q
    OBVIOUS
  <2>1. i \in DOMAIN queues'[g] /\ queues'[g][i].from = p
    BY DEF At
  <2>2. CASE i \in 1 .. l
    BY <1>5, <2>1, <2>2 DEF At
  <2>3. CASE i = l + 1
    BY <1>5, <2>1, <2>3
  <2> QED
    BY <1>5, <2>1, <2>2, <2>3
<1>11. \A f \in Queues : \A i \in At(f, p) : queues[f][i].n \in Nat
  <2> SUFFICES ASSUME NEW f \in Queues, NEW i \in At(f, p)
               PROVE  queues[f][i].n \in Nat
    OBVIOUS
  <2>1. queues[f] \in Seq(Elements) /\ i \in DOMAIN queues[f]
    BY DEF At, KInv, KTypeOK
  <2>2. queues[f][i] \in Elements
    BY <2>1
  <2> QED
    BY <2>2 DEF Elements
<1> HIDE DEF h
<1>12. \A f \in Queues : \A i \in At(f, p)' :
        f = h /\ a < queues'[f][i].n /\ queues'[f][i].n <= s
  <2> SUFFICES ASSUME NEW f \in Queues, NEW i \in At(f, p)'
               PROVE  f = h /\ a < queues'[f][i].n /\ queues'[f][i].n <= s
    OBVIOUS
  <2>1. CASE i \in At(f, p) /\ queues'[f][i] = queues[f][i]
    <3> DEFINE m == queues[f][i].n
    <3>1. f = h /\ a < m /\ m <= b /\ m \in Nat
      BY <1>8, <1>11, <2>1
    <3> HIDE DEF m
    <3>2. m <= s
      BY <1>2, <1>3, <3>1
    <3> QED
      BY <2>1, <3>1, <3>2 DEF m
  <2>2. CASE f = g /\ p = q /\ i = l + 1
    <3>1. a < s /\ s <= s
      BY <1>2, <1>3, <2>2
    <3> QED
      BY <1>6, <2>2, <3>1
  <2> QED
    BY <1>4, <1>9, <1>10, <2>1, <2>2
<1>13. \A n \in a + 1 .. s :
        \E i \in DOMAIN queues'[h] : queues'[h][i] = [from |-> p, n |-> n]
  <2> SUFFICES ASSUME NEW n \in a + 1 .. s
               PROVE  \E i \in DOMAIN queues'[h] : queues'[h][i] = [from |-> p, n |-> n]
    OBVIOUS
  <2>1. CASE n \in a + 1 .. b
    <3>1. PICK i \in DOMAIN queues[h] : queues[h][i] = [from |-> p, n |-> n]
      BY <1>8, <2>1
    <3>2. h \in Queues
      BY <1>1, <1>2, <1>3, <1>8, <2>1
    <3>3. i \in DOMAIN queues'[h] /\ queues'[h][i] = queues[h][i]
      BY <1>4, <1>5, <3>1, <3>2
    <3> QED
      BY <3>1, <3>3
  <2>2. CASE n \notin a + 1 .. b
    <3>1. p = q /\ n = b + 1
      BY <1>2, <1>3, <2>2
    <3> QED
      BY <1>5, <1>6, <1>7, <3>1
  <2> QED
    BY <2>1, <2>2
<1>14. \A f \in Queues : \A i, j \in At(f, p)' :
        i < j => queues'[f][i].n < queues'[f][j].n
  <2> SUFFICES ASSUME NEW f \in Queues, NEW i \in At(f, p)', NEW j \in At(f, p)', i < j
               PROVE  queues'[f][i].n < queues'[f][j].n
    OBVIOUS
  <2>1. CASE /\ i \in At(f, p) /\ queues'[f][i] = queues[f][i]
             /\ j \in At(f, p) /\ queues'[f][j] = queues[f][j]
    BY <1>8, <2>1
  <2>2. CASE /\ f = g /\ i \in At(g, p) /\ queues'[g][i] = queues[g][i]
             /\ p = q /\ j = l + 1
    <3> DEFINE m == queues[g][i].n
    <3>1. m <= b /\ m \in Nat
      BY <1>1, <1>8, <1>11, <2>2
    <3> HIDE DEF m
    <3>2. m < s
      BY <1>2, <1>3, <2>2, <3>1
    <3> QED
      BY <1>6, <2>2, <3>2 DEF m
  <2>3. ~(f = g /\ i = l + 1)
    BY <1>5, <1>10
  <2> QED
    BY <1>4, <1>9, <1>10, <2>1, <2>2, <2>3
<1>15. h = Unbound => s = 0
  BY <1>1, <1>3, <1>8 DEF h
<1> QED
  BY <1>2, <1>3, <1>12, <1>13, <1>14, <1>15 DEF Line, h

LEMMA LineMake ==
  ASSUME KInv, NEW q \in Producers, MakeProducer(q), NEW p \in Producers
  PROVE  Line(p)'
<1>1. /\ KTypeOK /\ Line(p) /\ UNCHANGED <<queues, sent, taken>>
      /\ p # q => write_queue'[p] = write_queue[p]
      /\ write_queue[q] = Unbound
  BY DEF KInv, KTypeOK, MakeProducer
<1>2. \A f \in Queues : At(f, p)' = At(f, p)
  BY <1>1 DEF At
<1>3. CASE p # q
  BY <1>1, <1>2, <1>3 DEF Line
<1>4. CASE p = q
  <2>1. /\ sent[p] = 0 /\ taken[p] = 0
        /\ sent'[p] = 0 /\ taken'[p] = 0 /\ ~(0 < 0)
    BY <1>1, <1>4 DEF Line, KTypeOK
  <2>2. Unbound \notin Queues
    BY DEF Unbound, Queues
  <2>3. \A f \in Queues : At(f, p) = {}
    BY <1>1, <1>4, <2>2 DEF Line
  <2>4. 0 + 1 .. 0 = {} /\ 0 <= 0
    OBVIOUS
  <2> QED
    BY <1>2, <2>1, <2>3, <2>4 DEF Line
<1> QED
  BY <1>3, <1>4

LEMMA LineStep == ASSUME KInv, [KNext]_kvars, NEW p \in Producers PROVE Line(p)'
<1>1. CASE UNCHANGED <<queues, write_queue, sent, taken>>
  BY <1>1 DEF KInv, Line, At
<1>2. ASSUME NEW q \in Producers, Produce(q)
      PROVE  Line(p)'
  BY <1>2, LineMake, LinePush DEF Produce
<1>3. ASSUME NEW c \in Consumers, Consume(c)
      PROVE  Line(p)'
  <2>1. KTypeOK /\ UNCHANGED <<write_queue, sent>>
    BY <1>3, OwnVariables DEF KInv
  <2>2. ASSUME NEW g \in Queues, Take(c, g)
        PROVE  Line(p)'
    BY <2>1, <2>2, LineTake
  <2>3. CASE PopOwn(c)
    BY <2>1, <2>2, <2>3 DEF PopOwn, KTypeOK
  <2>4. CASE ScanTake(c)
    <3>1. Beside(read_queue[c]) \in Queues
      BY <2>1, <2>4, NextBeside DEF ScanTake, KTypeOK
    <3> QED
      BY <2>2, <2>4, <3>1 DEF ScanTake
  <2> QED
    BY <1>1, <1>3, <2>3, <2>4
    DEF Consume, MakeConsumer, PopCall, OwnEmpty, ScanEmpty, objects
<1> QED
  BY <1>1, <1>2, <1>3 DEF KNext, kvars, objects
------------------------------------------------------------------------------
(* No queue starves, and "nothing there" is true. *)

LEMMA Limits ==
  ASSUME NEW r \in Queues, NEW n \in 0 .. K - 1, NEW g \in Queues
  PROVE  /\ \A place : Limit(r, n, place, g) \in Nat
         /\ Limit(r, n, "idle", g) = Limit(r, n, "own", g)
         /\ \A place : Limit(r, n, place, g) <= Round(0)
<1>1. /\ K \in Nat \ {0} /\ n \in Nat /\ n + 1 <= K
      /\ Ahead(r, g) \in 0 .. G - 1 /\ G \in Nat
  BY Sizes, Nearer
<1>2. Round(0) \in Nat /\ (Ahead(r, g) # 0 => /\ Round(Ahead(r, g)) \in Nat
                                              /\ Round(Ahead(r, g)) + K + 1 <= Round(0))
  BY <1>1, Rounds
<1> QED
  BY <1>1, <1>2 DEF Limit

LEMMA PopsHere ==
  ASSUME NEW r \in Queues, NEW n \in 0 .. K - 1, NEW g \in Queues, g # r,
         NEW x \in Nat, x <= Limit(r, n, "own", g)
  PROVE  /\ n + 1 <= K - 1 => x + 1 <= Limit(r, n + 1, "idle", g)
         /\ n + 1 >= K => x + 1 <= Limit(Beside(r), 0, "idle", g)
         /\ x <= Limit(r, 0, "scan", g)
<1> DEFINE d == Ahead(r, g)
           e == Ahead(Beside(r), g)
<1>1. /\ K \in Nat \ {0} /\ n \in Nat /\ n + 1 <= K
      /\ d \in 1 .. G - 1 /\ e = d - 1 /\ G \in Nat
  BY Sizes, Nearer
<1>2. /\ Round(d) \in Nat /\ Round(e) = Round(d) + K + 1 /\ Round(0) \in Nat
  BY <1>1, Rounds
<1>3. /\ Limit(r, n, "own", g) = Round(d) + n + 1
      /\ Limit(r, n + 1, "idle", g) = Round(d) + (n + 1) + 1
      /\ Limit(r, 0, "scan", g) = Round(d) + K
      /\ Limit(Beside(r), 0, "idle", g) = IF e = 0 THEN Round(e) ELSE Round(e) + 0 + 1
  BY <1>1 DEF Limit
<1> HIDE DEF d, e
<1> QED
  BY <1>1, <1>2, <1>3

LEMMA ScansOn ==
  ASSUME NEW r \in Queues, NEW g \in Queues, g # r,
         NEW x \in Nat, x <= Limit(r, 0, "scan", g)
  PROVE  /\ x + 1 <= Limit(Beside(r), 0, "idle", g)
         /\ x <= Limit(Beside(r), 0, "scan", g)
<1> DEFINE d == Ahead(r, g)
           e == Ahead(Beside(r), g)
<1>1. /\ K \in Nat \ {0} /\ d \in 1 .. G - 1 /\ e = d - 1 /\ G \in Nat
  BY Sizes, Nearer
<1>2. /\ Round(d) \in Nat /\ Round(e) = Round(d) + K + 1 /\ Round(0) \in Nat
  BY <1>1, Rounds
<1>3. /\ Limit(r, 0, "scan", g) = Round(d) + K
      /\ Limit(Beside(r), 0, "idle", g) = IF e = 0 THEN Round(e) ELSE Round(e) + 0 + 1
      /\ Limit(Beside(r), 0, "scan", g) = IF e = 0 THEN Round(e) ELSE Round(e) + K
  BY <1>1 DEF Limit
<1> HIDE DEF d, e
<1> QED
  BY <1>1, <1>2, <1>3

(* A queue just left has all the others to wait for.                       *)
LEMMA JustLeft ==
  ASSUME NEW r \in Queues, 1 < G
  PROVE  1 <= Limit(Beside(r), 0, "idle", r)
<1>1. Ahead(Beside(r), r) = G - 1 /\ G - 1 # 0 /\ Round(G - 1) = 0
  BY Sizes, Nearer, Rounds
<1> QED
  BY <1>1 DEF Limit

LEMMA Scans ==
  ASSUME NEW r \in Queues, NEW g \in Queues
  PROVE  /\ Behind(r, 1, g) => g = r
         /\ Behind(r, G, g)
         /\ \A j \in Nat \ {0} :
              Behind(Beside(r), j + 1, g) => g = Beside(r) \/ Behind(r, j, g)
         /\ \A j : Behind(r, j, r)
<1>1. /\ G \in Nat \ {0} /\ Ahead(r, g) \in 0 .. G - 1
      /\ Ahead(r, g) = 0 <=> g = r
      /\ Ahead(r, r) = 0
      /\ Ahead(Beside(r), g) = IF g = r THEN G - 1 ELSE Ahead(r, g) - 1
  BY Sizes, Nearer
<1>2. Ahead(Beside(r), g) = 0 <=> g = Beside(r)
  BY NextBeside, Nearer
<1> QED
  BY <1>1, <1>2 DEF Behind

(* What a pop does to the histories.                                       *)
LEMMA TakeHistory ==
  ASSUME KTypeOK, History, NEW c \in Consumers, NEW g \in Queues, Take(c, g)
  PROVE  /\ History'
         /\ \A d \in Consumers : full'[d] \subseteq full[d]
         /\ \A d \in Consumers \ {c} : \A h \in Queues :
              passed'[d][h] = 0 \/ passed'[d][h] = passed[d][h]
         /\ passed'[c][g] = 0
         /\ \A h \in Queues : passed'[c][h] = 0 \/ passed'[c][h] = passed[c][h] + 1
<1>1. /\ passed' = Passed(c, g) /\ full' = StillFull
  BY DEF Take
<1>2. \A d \in Consumers : full'[d] = { h \in full[d] : queues'[h] # << >> }
  BY <1>1 DEF StillFull
<1>3. \A d \in Consumers, h \in Queues :
        passed'[d][h] = IF queues'[h] = << >> \/ (d = c /\ h = g) THEN 0
                        ELSE IF d = c THEN passed[d][h] + 1 ELSE passed[d][h]
  BY <1>1 DEF Passed
<1>4. History'
  BY <1>2, <1>3 DEF History
<1> QED
  BY <1>2, <1>3, <1>4

(* A step that leaves the variables of a consumer alone, and only resets   *)
(* its histories, keeps what is known of it.                               *)
LEMMA Untouched ==
  ASSUME KInv, NEW d \in Consumers,
         pc'[d] = pc[d], read_queue'[d] = read_queue[d],
         pop_count'[d] = pop_count[d], k'[d] = k[d],
         full'[d] \subseteq full[d],
         \A h \in Queues : passed'[d][h] = 0 \/ passed'[d][h] = passed[d][h]
  PROVE  Scanning(d)' /\ Bounded(d)'
<1>1. Scanning(d) /\ Bounded(d) /\ KTypeOK
  BY DEF KInv
<1>2. Scanning(d)'
  BY <1>1 DEF Scanning
<1>3. ASSUME NEW h \in Queues
      PROVE  passed'[d][h] <= IF pc[d] = "new" THEN 0
                              ELSE Limit(read_queue[d], pop_count[d], pc[d], h)
  <2> DEFINE b == IF pc[d] = "new" THEN 0
                  ELSE Limit(read_queue[d], pop_count[d], pc[d], h)
             x == passed[d][h]
  <2>1. x \in Nat /\ x <= b
    BY <1>1 DEF Bounded, KTypeOK
  <2>2. b \in Nat
    BY <1>1, Limits DEF KTypeOK
  <2> HIDE DEF b, x
  <2>3. 0 <= b
    BY <2>2
  <2> QED
    BY <2>1, <2>3 DEF b, x
<1>4. Bounded(d)'
  BY <1>3 DEF Bounded
<1> QED
  BY <1>2, <1>4

LEMMA HistoryStep == ASSUME KInv, [KNext]_kvars PROVE History'
<1>1. KTypeOK /\ History
  BY DEF KInv
<1>2. CASE UNCHANGED <<queues, passed, full>>
  BY <1>1, <1>2 DEF History
<1>3. ASSUME NEW p \in Producers, Push(p)
      PROVE  History'
  <2>1. /\ write_queue[p] \in Queues
        /\ queues' = [queues EXCEPT ![write_queue[p]] =
                        Append(@, [from |-> p, n |-> sent[p] + 1])]
        /\ UNCHANGED <<passed, full>>
    BY <1>1, <1>3 DEF Push, Bound, KTypeOK
  <2>2. /\ \A g \in Queues : g # write_queue[p] => queues'[g] = queues[g]
        /\ queues'[write_queue[p]] =
             Append(queues[write_queue[p]], [from |-> p, n |-> sent[p] + 1])
        /\ queues[write_queue[p]] \in Seq(Elements)
    BY <1>1, <2>1 DEF KTypeOK
  <2>3. queues'[write_queue[p]] # << >>
    BY <2>2
  <2>4. \A c \in Consumers : full[c] \subseteq Queues
    BY <1>1 DEF KTypeOK
  <2> QED
    BY <1>1, <2>1, <2>2, <2>3, <2>4 DEF History
<1>4. ASSUME NEW c \in Consumers, PopCall(c)
      PROVE  History'
  <2>1. /\ UNCHANGED <<queues, passed>>
        /\ full' = [full EXCEPT ![c] = { g \in Queues : queues[g] # << >> }]
    BY <1>4 DEF PopCall
  <2>2. \A d \in Consumers : \A g \in full'[d] : queues[g] # << >>
    BY <1>1, <2>1 DEF KTypeOK, History
  <2> QED
    BY <1>1, <2>1, <2>2 DEF History
<1>5. ASSUME NEW c \in Consumers, PopOwn(c)
      PROVE  History'
  <2>1. Take(c, read_queue[c]) /\ read_queue[c] \in Queues
    BY <1>1, <1>5 DEF PopOwn, KTypeOK
  <2> QED
    BY <1>1, <2>1, TakeHistory
<1>6. ASSUME NEW c \in Consumers, ScanTake(c)
      PROVE  History'
  <2>1. Take(c, Beside(read_queue[c])) /\ Beside(read_queue[c]) \in Queues
    BY <1>1, <1>6, NextBeside DEF ScanTake, KTypeOK
  <2> QED
    BY <1>1, <2>1, TakeHistory
<1> QED
  BY <1>2, <1>3, <1>4, <1>5, <1>6
  DEF KNext, kvars, Produce, Consume, MakeProducer, MakeConsumer, OwnEmpty, ScanEmpty

(* The other consumers.                                                    *)
LEMMA OthersStep ==
  ASSUME KInv, NEW c \in Consumers, Consume(c), NEW d \in Consumers \ {c}
  PROVE  Scanning(d)' /\ Bounded(d)'
<1>1. KTypeOK /\ History
  BY DEF KInv
<1>2. /\ pc'[d] = pc[d] /\ read_queue'[d] = read_queue[d]
      /\ pop_count'[d] = pop_count[d] /\ k'[d] = k[d]
  BY <1>1, OwnVariables
<1>3. /\ full'[d] \subseteq full[d]
      /\ \A h \in Queues : passed'[d][h] = 0 \/ passed'[d][h] = passed[d][h]
  <2>1. CASE UNCHANGED <<passed, full>>
    BY <2>1
  <2>2. CASE PopCall(c)
    BY <1>1, <2>2 DEF PopCall, KTypeOK
  <2>3. ASSUME NEW g \in Queues, Take(c, g)
        PROVE  /\ full'[d] \subseteq full[d]
               /\ \A h \in Queues : passed'[d][h] = 0 \/ passed'[d][h] = passed[d][h]
    BY <1>1, <2>3, TakeHistory
  <2>4. CASE PopOwn(c)
    BY <1>1, <2>3, <2>4 DEF PopOwn, KTypeOK
  <2>5. CASE ScanTake(c)
    <3>1. Beside(read_queue[c]) \in Queues
      BY <1>1, <2>5, NextBeside DEF ScanTake, KTypeOK
    <3> QED
      BY <2>3, <2>5, <3>1 DEF ScanTake
  <2> QED
    BY <2>1, <2>2, <2>4, <2>5 DEF Consume, MakeConsumer, OwnEmpty, ScanEmpty
<1> QED
  BY <1>2, <1>3, Untouched

(* A consumer whose scan is through has seen every queue empty.            *)
LEMMA ScanThrough ==
  ASSUME KInv, NEW c \in Consumers, ScanEmpty(c)
  PROVE  /\ read_queue[c] \in Queues /\ Beside(read_queue[c]) \in Queues
         /\ \A g \in Queues : Behind(Beside(read_queue[c]), k[c] + 1, g) =>
              g \notin full[c] /\ passed[c][g] = 0
         /\ ScanEnds(k[c] + 1) => full[c] = {} /\ \A g \in Queues : passed[c][g] = 0
<1> DEFINE r == read_queue[c]
           r2 == Beside(r)
           j == k[c]
<1>1. /\ KTypeOK /\ History /\ pc[c] = "scan" /\ queues[r2] = << >>
      /\ r \in Queues /\ r2 \in Queues /\ j \in Nat \ {0} /\ j < G
      /\ \A g \in Queues : Behind(r, j, g) => g \notin full[c] /\ passed[c][g] = 0
  BY NextBeside DEF KInv, KTypeOK, ScanEmpty, Scanning
<1>2. r2 \notin full[c] /\ passed[c][r2] = 0
  BY <1>1 DEF History
<1>3. \A g \in Queues : Behind(r2, j + 1, g) => g = r2 \/ Behind(r, j, g)
  BY <1>1, Scans
<1>4. \A g \in Queues : Behind(r2, j + 1, g) => g \notin full[c] /\ passed[c][g] = 0
  BY <1>1, <1>2, <1>3
<1>5. ASSUME ScanEnds(j + 1)
      PROVE  full[c] = {} /\ \A g \in Queues : passed[c][g] = 0
  <2>1. j + 1 = G
    BY <1>1, <1>5, Sizes DEF ScanEnds
  <2>2. \A g \in Queues : Behind(r2, j + 1, g)
    BY <1>1, <2>1, Scans
  <2>3. full[c] \subseteq Queues
    BY <1>1 DEF KTypeOK
  <2> QED
    BY <1>4, <2>2, <2>3
<1> QED
  BY <1>1, <1>4, <1>5

LEMMA OwnThrough ==
  ASSUME KInv, NEW c \in Consumers, OwnEmpty(c)
  PROVE  /\ read_queue[c] \in Queues
         /\ \A g \in Queues : Behind(read_queue[c], 1, g) =>
              g \notin full[c] /\ passed[c][g] = 0
         /\ ScanEnds(1) => full[c] = {} /\ \A g \in Queues : passed[c][g] = 0
<1> DEFINE r == read_queue[c]
<1>1. /\ KTypeOK /\ History /\ queues[r] = << >> /\ r \in Queues
  BY DEF KInv, KTypeOK, OwnEmpty
<1>2. r \notin full[c] /\ passed[c][r] = 0
  BY <1>1 DEF History
<1>3. \A g \in Queues : Behind(r, 1, g) => g = r
  BY <1>1, Scans
<1>4. ASSUME ScanEnds(1)
      PROVE  full[c] = {} /\ \A g \in Queues : passed[c][g] = 0
  <2>1. G = 1
    BY <1>4, Sizes DEF ScanEnds
  <2>2. \A g \in Queues : g = r
    BY <1>1, <2>1 DEF Queues
  <2>3. full[c] \subseteq Queues
    BY <1>1 DEF KTypeOK
  <2> QED
    BY <1>2, <2>2, <2>3
<1> QED
  BY <1>1, <1>2, <1>3, <1>4

LEMMA OwnStep ==
  ASSUME KInv, NEW c \in Consumers, Consume(c)
  PROVE  Scanning(c)' /\ Bounded(c)'
<1> DEFINE r == read_queue[c]
           r2 == Beside(r)
           n == pop_count[c]
           j == k[c]
<1>1. /\ KTypeOK /\ History /\ Scanning(c) /\ Bounded(c) /\ G \in Nat \ {0}
      /\ n \in 0 .. K - 1 /\ 0 \in 0 .. K - 1 /\ j \in Nat
      /\ pc[c] # "new" => r \in Queues /\ r2 \in Queues
      /\ \A g \in Queues : passed[c][g] \in Nat
  BY Sizes, NextBeside DEF KInv, KTypeOK
<1>2. pc[c] # "new" => \A g \in Queues : passed[c][g] <= Limit(r, n, pc[c], g)
  BY <1>1 DEF Bounded
<1>3. CASE MakeConsumer(c)
  <2> DEFINE q == readers_count % G
  <2>1. /\ q \in Queues /\ pc[c] = "new" /\ pc'[c] = "idle" /\ read_queue'[c] = q
        /\ pop_count'[c] = n /\ passed' = passed
    BY <1>1, <1>3, RoundRobin DEF MakeConsumer, KTypeOK
  <2> HIDE DEF q
  <2>2. ASSUME NEW g \in Queues
        PROVE  passed[c][g] <= Limit(q, n, "idle", g)
    <3>1. passed[c][g] \in Nat /\ passed[c][g] <= 0 /\ Limit(q, n, "idle", g) \in Nat
      BY <1>1, <2>1, Limits DEF Bounded
    <3> QED
      BY <3>1
  <2> QED
    BY <2>1, <2>2 DEF Scanning, Bounded
<1>4. CASE PopCall(c)
  <2>1. /\ pc[c] = "idle" /\ pc'[c] = "own" /\ r \in Queues
        /\ UNCHANGED <<read_queue, pop_count, passed>>
    BY <1>1, <1>4 DEF PopCall, KTypeOK
  <2>2. \A g \in Queues : Limit(r, n, "idle", g) = Limit(r, n, "own", g)
    BY <1>1, <2>1, Limits
  <2> QED
    BY <1>2, <2>1, <2>2 DEF Scanning, Bounded
<1>5. CASE PopOwn(c)
  <2>1. pc[c] = "own" /\ pc'[c] = "idle" /\ r \in Queues /\ r2 \in Queues /\ Take(c, r)
    BY <1>1, <1>5 DEF PopOwn, Take, KTypeOK
  <2>2. /\ passed'[c][r] = 0
        /\ \A g \in Queues : passed'[c][g] = 0 \/ passed'[c][g] = passed[c][g] + 1
    BY <1>1, <2>1, TakeHistory
  <2> DEFINE q == IF Enough(n + 1) THEN r2 ELSE r
             m == IF Enough(n + 1) THEN 0 ELSE n + 1
  <2>3. read_queue'[c] = q /\ pop_count'[c] = m
    BY <1>1, <1>5 DEF PopOwn, KTypeOK
  <2>4. q \in Queues /\ m \in 0 .. K - 1
    BY <1>1, <2>1, Sizes DEF Enough
  <2>5. ASSUME NEW g \in Queues
        PROVE  0 <= Limit(q, m, "idle", g)
    <3>1. Limit(q, m, "idle", g) \in Nat
      BY <2>4, Limits
    <3> QED
      BY <3>1
  <2>6. ASSUME NEW g \in Queues, g # r
        PROVE  passed[c][g] + 1 <= Limit(q, m, "idle", g)
    <3>1. passed[c][g] \in Nat /\ passed[c][g] <= Limit(r, n, "own", g)
      BY <1>1, <1>2, <2>1
    <3>2. CASE Enough(n + 1)
      <4>1. passed[c][g] + 1 <= Limit(r2, 0, "idle", g)
        BY <1>1, <2>1, <2>6, <3>1, <3>2, PopsHere DEF Enough
      <4> QED
        BY <3>2, <4>1
    <3>3. CASE ~Enough(n + 1)
      <4>1. n + 1 <= K - 1
        BY <1>1, <3>3, Sizes DEF Enough
      <4>2. passed[c][g] + 1 <= Limit(r, n + 1, "idle", g)
        BY <1>1, <2>1, <2>6, <3>1, <4>1, PopsHere
      <4> QED
        BY <3>3, <4>2
    <3> QED
      BY <3>2, <3>3
  <2> HIDE DEF q, m
  <2>7. ASSUME NEW g \in Queues
        PROVE  passed'[c][g] <= Limit(q, m, "idle", g)
    BY <2>2, <2>5, <2>6
  <2> QED
    BY <2>1, <2>3, <2>7 DEF Scanning, Bounded
<1>6. CASE OwnEmpty(c)
  <2>1. /\ pc[c] = "own" /\ r \in Queues /\ UNCHANGED <<read_queue, passed, full>>
        /\ pop_count'[c] = 0 /\ k'[c] = 1
        /\ pc'[c] = IF ScanEnds(1) THEN "idle" ELSE "scan"
    BY <1>1, <1>6 DEF OwnEmpty, Scan, KTypeOK
  <2>2. /\ \A g \in Queues : Behind(r, 1, g) => g \notin full[c] /\ passed[c][g] = 0
        /\ ScanEnds(1) => \A g \in Queues : passed[c][g] = 0
    BY <1>6, OwnThrough
  <2>3. CASE ScanEnds(1)
    <3>1. ASSUME NEW g \in Queues
          PROVE  passed[c][g] <= Limit(r, 0, "idle", g)
      <4>1. passed[c][g] = 0 /\ Limit(r, 0, "idle", g) \in Nat
        BY <1>1, <2>1, <2>2, <2>3, Limits
      <4> QED
        BY <4>1
    <3> QED
      BY <2>1, <2>3, <3>1 DEF Scanning, Bounded
  <2>4. CASE ~ScanEnds(1)
    <3>1. 1 <= 1 /\ 1 < G
      BY <1>1, <2>4 DEF ScanEnds
    <3>2. ASSUME NEW g \in Queues
          PROVE  passed[c][g] <= Limit(r, 0, "scan", g)
      <4>1. CASE g = r
        <5>1. passed[c][g] = 0 /\ Limit(r, 0, "scan", g) \in Nat
          BY <1>1, <2>1, <2>2, <4>1, Limits, Scans
        <5> QED
          BY <5>1
      <4>2. CASE g # r
        BY <1>1, <1>2, <2>1, <4>2, PopsHere
      <4> QED
        BY <4>1, <4>2
    <3> QED
      BY <2>1, <2>2, <2>4, <3>1, <3>2 DEF Scanning, Bounded
  <2> QED
    BY <2>3, <2>4
<1>7. CASE ScanTake(c)
  <2>1. /\ pc[c] = "scan" /\ pc'[c] = "idle" /\ r \in Queues /\ r2 \in Queues
        /\ Take(c, r2) /\ read_queue'[c] = r2 /\ pop_count'[c] = 0 /\ n = 0 /\ 1 < G
        /\ Behind(r, j, r) /\ \A g \in Queues : Behind(r, j, g) => passed[c][g] = 0
    BY <1>1, <1>7, Scans DEF ScanTake, Take, KTypeOK, Scanning
  <2>2. /\ passed'[c][r2] = 0
        /\ \A g \in Queues : passed'[c][g] = 0 \/ passed'[c][g] = passed[c][g] + 1
    BY <1>1, <2>1, TakeHistory
  <2>3. ASSUME NEW g \in Queues
        PROVE  passed'[c][g] <= Limit(r2, 0, "idle", g)
    <3>1. passed[c][g] + 1 <= Limit(r2, 0, "idle", g)
      <4>1. CASE g = r
        BY <2>1, <4>1, JustLeft
      <4>2. CASE g # r
        BY <1>1, <1>2, <2>1, <4>2, ScansOn
      <4> QED
        BY <4>1, <4>2
    <3>2. 0 <= Limit(r2, 0, "idle", g)
      <4>1. Limit(r2, 0, "idle", g) \in Nat
        BY <1>1, <2>1, Limits
      <4> QED
        BY <4>1
    <3> QED
      BY <2>2, <3>1, <3>2
  <2> QED
    BY <2>1, <2>3 DEF Scanning, Bounded
<1>8. CASE ScanEmpty(c)
  <2>1. /\ pc[c] = "scan" /\ n = 0 /\ 1 <= j /\ j < G /\ UNCHANGED <<passed, full>>
        /\ read_queue'[c] = r2 /\ pop_count'[c] = 0 /\ k'[c] = j + 1
        /\ pc'[c] = IF ScanEnds(j + 1) THEN "idle" ELSE "scan"
        /\ Behind(r, j, r) /\ \A g \in Queues : Behind(r, j, g) => passed[c][g] = 0
    BY <1>1, <1>8, Scans DEF ScanEmpty, Scan, KTypeOK, Scanning
  <2>2. /\ r \in Queues /\ r2 \in Queues
        /\ \A g \in Queues : Behind(r2, j + 1, g) => g \notin full[c] /\ passed[c][g] = 0
        /\ ScanEnds(j + 1) => \A g \in Queues : passed[c][g] = 0
    BY <1>8, ScanThrough
  <2>3. CASE ScanEnds(j + 1)
    <3>1. ASSUME NEW g \in Queues
          PROVE  passed[c][g] <= Limit(r2, 0, "idle", g)
      <4>1. passed[c][g] = 0 /\ Limit(r2, 0, "idle", g) \in Nat
        BY <1>1, <2>2, <2>3, Limits
      <4> QED
        BY <4>1
    <3> QED
      BY <2>1, <2>3, <3>1 DEF Scanning, Bounded
  <2>4. CASE ~ScanEnds(j + 1)
    <3>1. 1 <= j + 1 /\ j + 1 < G
      BY <1>1, <2>4 DEF ScanEnds
    <3>2. ASSUME NEW g \in Queues
          PROVE  passed[c][g] <= Limit(r2, 0, "scan", g)
      <4>1. CASE g = r
        <5>1. passed[c][g] = 0 /\ Limit(r2, 0, "scan", g) \in Nat
          BY <1>1, <2>1, <2>2, <4>1, Limits
        <5> QED
          BY <5>1
      <4>2. CASE g # r
        BY <1>1, <1>2, <2>1, <2>2, <4>2, ScansOn
      <4> QED
        BY <4>1, <4>2
    <3> QED
      BY <2>1, <2>2, <2>4, <3>1, <3>2 DEF Scanning, Bounded
  <2> QED
    BY <2>3, <2>4
<1> QED
  BY <1>3, <1>4, <1>5, <1>6, <1>7, <1>8 DEF Consume

LEMMA KInvStep == ASSUME KInv, [KNext]_kvars PROVE KInv'
<1>1. KTypeOK'
  <2>1. CASE UNCHANGED kvars
    BY <2>1 DEF KInv, KTypeOK, kvars, objects, reader
  <2> QED
    BY <2>1, ProduceTypes, ConsumeTypes DEF KNext
<1>2. ASSUME NEW c \in Consumers
      PROVE  Scanning(c)' /\ Bounded(c)'
  <2>1. CASE UNCHANGED <<reader, passed, full>>
    BY <2>1 DEF KInv, Scanning, Bounded, reader
  <2>2. ASSUME NEW d \in Consumers, Consume(d)
        PROVE  Scanning(c)' /\ Bounded(c)'
    <3>1. CASE c = d
      BY <2>2, <3>1, OwnStep
    <3>2. CASE c # d
      BY <2>2, <3>2, OthersStep
    <3> QED
      BY <3>1, <3>2
  <2> QED
    BY <2>1, <2>2 DEF KNext, kvars, Produce, MakeProducer, Push
<1> QED
  BY <1>1, <1>2, HistoryStep, LineStep DEF KInv

(* A pack keeps its queues, indexes and histories as KInv says, for any    *)
(* number of queues, producers and consumers.                              *)
THEOREM PackSafety == KSpec => []KInv
<1>1. KInit => KInv
  BY KInvInit
<1>2. KInv /\ [KNext]_kvars => KInv'
  BY KInvStep
<1> QED
  BY <1>1, <1>2, PTL DEF KSpec

(* The elements of one producer leave the pack in the order in which it    *)
(* pushed them, whatever consumers pop from whichever queue.               *)
THEOREM PackInOrder == KSpec => []InOrder
<1>1. KInv => InOrder
  <2> SUFFICES ASSUME KInv, NEW p \in Producers
               PROVE  \E g \in Queues :
                        /\ \A h \in Queues \ {g} : At(h, p) = {}
                        /\ { queues[g][i].n : i \in At(g, p) } = taken[p] + 1 .. sent[p]
                        /\ \A i, j \in At(g, p) : i < j => queues[g][i].n < queues[g][j].n
    BY DEF InOrder
  <2>1. /\ KTypeOK /\ Line(p) /\ 0 \in Queues
        /\ taken[p] \in Nat /\ sent[p] \in Nat
    BY Sizes DEF KInv, KTypeOK, Queues
  <2> DEFINE g == IF write_queue[p] = Unbound THEN 0 ELSE write_queue[p]
  <2>2. g \in Queues /\ \A h \in Queues \ {g} : At(h, p) = {}
    <3>1. CASE write_queue[p] = Unbound
      <4>1. Unbound \notin Queues
        BY Sizes DEF Unbound, Queues
      <4>2. \A h \in Queues : At(h, p) = {}
        BY <2>1, <3>1, <4>1 DEF Line
      <4> QED
        BY <2>1, <3>1, <4>2
    <3>2. CASE write_queue[p] # Unbound
      <4>1. write_queue[p] \in Queues
        BY <2>1, <3>2 DEF KTypeOK
      <4>2. g = write_queue[p]
        BY <3>2
      <4> QED
        BY <2>1, <3>2, <4>1, <4>2 DEF Line
    <3> QED
      BY <3>1, <3>2
  <2>3. ASSUME NEW i \in At(g, p)
        PROVE  queues[g][i].n \in taken[p] + 1 .. sent[p]
    <3>1. taken[p] < queues[g][i].n /\ queues[g][i].n <= sent[p]
      BY <2>1, <2>2 DEF Line
    <3>2. queues[g] \in Seq(Elements) /\ i \in DOMAIN queues[g]
      BY <2>1, <2>2 DEF At, KTypeOK
    <3>3. queues[g][i] \in Elements
      BY <3>2
    <3>4. queues[g][i].n \in Nat
      BY <3>3 DEF Elements
    <3> QED
      BY <2>1, <3>1, <3>4
  <2>4. ASSUME NEW x \in taken[p] + 1 .. sent[p]
        PROVE  \E i \in At(g, p) : queues[g][i].n = x
    <3>1. write_queue[p] # Unbound
      BY <2>1 DEF Line
    <3>2. PICK i \in DOMAIN queues[g] : queues[g][i] = [from |-> p, n |-> x]
      BY <2>1, <3>1 DEF Line
    <3>3. i \in At(g, p) /\ queues[g][i].n = x
      BY <3>2 DEF At
    <3> QED
      BY <3>3
  <2>5. \A i, j \in At(g, p) : i < j => queues[g][i].n < queues[g][j].n
    BY <2>1, <2>2 DEF Line
  <2> HIDE DEF g
  <2>6. { queues[g][i].n : i \in At(g, p) } = taken[p] + 1 .. sent[p]
    BY <2>3, <2>4
  <2> QED
    BY <2>2, <2>5, <2>6
<1> QED
  BY <1>1, PackSafety, PTL

(* No queue starves: however many pops a consumer makes elsewhere, it is   *)
(* back at a queue that holds an element after K + 1 from each other one.  *)
THEOREM PackRotates == KSpec => []Rotates
<1>1. KInv => Rotates
  <2> SUFFICES ASSUME KInv, NEW c \in Consumers, NEW g \in Queues
               PROVE  passed[c][g] <= (G - 1) * (K + 1)
    BY DEF Rotates
  <2>1. KTypeOK /\ Bounded(c) /\ pop_count[c] \in 0 .. K - 1 /\ passed[c][g] \in Nat
    BY DEF KInv, KTypeOK
  <2>2. Round(0) \in Nat /\ Round(0) = (G - 1) * (K + 1)
    BY Rounds, Sizes DEF Round
  <2>3. CASE pc[c] = "new"
    BY <2>1, <2>2, <2>3 DEF Bounded
  <2>4. CASE pc[c] # "new"
    <3> DEFINE x == passed[c][g]
               l == Limit(read_queue[c], pop_count[c], pc[c], g)
    <3>1. x \in Nat /\ x <= l
      BY <2>1, <2>4 DEF Bounded
    <3>2. l \in Nat /\ l <= Round(0)
      BY <2>1, <2>4, Limits DEF KTypeOK
    <3> HIDE DEF x, l
    <3>3. x <= Round(0)
      BY <2>2, <3>1, <3>2
    <3> QED
      BY <2>2, <3>3 DEF x
  <2> QED
    BY <2>3, <2>4
<1> QED
  BY <1>1, PackSafety, PTL

(* pop of a consumer says "nothing there" only if each of the queues was   *)
(* empty at some moment of the call, for any number of queues.             *)
THEOREM PackEmptySeen == KSpec => EmptySeen
<1>1. KInv /\ [KNext]_kvars =>
        [\A c \in Consumers :
           pc[c] \in {"own", "scan"} /\ pc'[c] = "idle" /\ taken' = taken => full[c] = {}
        ]_kvars
  <2> SUFFICES ASSUME KInv, KNext, NEW c \in Consumers,
                      pc[c] \in {"own", "scan"}, pc'[c] = "idle", taken' = taken
               PROVE  full[c] = {}
    OBVIOUS
  <2>1. KTypeOK
    BY DEF KInv
  <2>2. PICK d \in Consumers : Consume(d)
    BY DEF KNext, Produce, MakeProducer, Push, reader
  <2>3. c = d
    BY <2>1, <2>2, OwnVariables
  <2>4. ASSUME NEW g \in Queues, Take(c, g)
        PROVE  FALSE
    <3>1. Head(queues[g]) \in Elements
      BY <2>1, <2>4, HeadAndTail DEF Take
    <3> DEFINE p == Head(queues[g]).from
    <3>2. p \in Producers
      BY <3>1 DEF Elements
    <3>3. taken' = [taken EXCEPT ![p] = @ + 1]
      BY <2>4 DEF Take
    <3> HIDE DEF p
    <3>4. taken'[p] = taken[p] + 1 /\ taken[p] \in Nat
      BY <2>1, <3>2, <3>3 DEF KTypeOK
    <3> QED
      BY <3>4
  <2>5. read_queue[c] \in Queues /\ Beside(read_queue[c]) \in Queues
    BY <2>1, NextBeside DEF KTypeOK
  <2>6. CASE OwnEmpty(c)
    <3>1. ScanEnds(1)
      BY <2>1, <2>6 DEF OwnEmpty, Scan, KTypeOK
    <3> QED
      BY <2>6, <3>1, OwnThrough
  <2>7. CASE ScanEmpty(c)
    <3>1. ScanEnds(k[c] + 1)
      BY <2>1, <2>7 DEF ScanEmpty, Scan, KTypeOK
    <3> QED
      BY <2>7, <3>1, ScanThrough
  <2> QED
    BY <2>2, <2>3, <2>4, <2>5, <2>6, <2>7
    DEF Consume, MakeConsumer, PopCall, PopOwn, ScanTake
<1> QED
  BY <1>1, PackSafety, PTL DEF KSpec, EmptySeen
==============================================================================
