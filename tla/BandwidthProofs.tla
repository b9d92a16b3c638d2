--------------------------- MODULE BandwidthProofs ---------------------------
(* QBandwidth::run empties the queue, for any number of threads.           *)
EXTENDS Harness, FiniteSetTheorems, TLAPS

ProducerPlaces == {"new", "start", "wait", "loop", "push", "report", "leave", "done"}
ConsumerPlaces == {"new", "start", "wait", "state", "count", "empty", "pop",
                   "report", "leave", "done"}
MainPlaces == {"main", "reset", "gather", "sleep", "producers", "consumers",
               "join", "aborted", "done"}

BTypeOK == /\ DOMAIN pc = Threads
           /\ \A p \in Producers : pc[p] \in ProducerPlaces
           /\ \A c \in Consumers : pc[c] \in ConsumerPlaces
           /\ pc[Main] \in MainPlaces

(* The flag is where main is.                                              *)
Flag == state = CASE pc[Main] \in {"main", "reset", "gather"} -> 0
                  [] pc[Main] = "sleep" -> 1
                  [] pc[Main] = "producers" -> 2
                  [] OTHER -> 4

(* The counters are the numbers of threads that have come and not left.    *)
Absent == {"new", "start", "done"}
Active(S) == { t \in S : pc[t] \notin Absent }

Counters == /\ producers_counter = Cardinality(Active(Producers))
            /\ consumers_counter = Cardinality(Active(Consumers))

(* Main sets the flag when everybody has come, and until then they wait.   *)
Barrier == /\ pc[Main] = "main" => \A t \in Everyone : pc[t] = "new"
           /\ state = 0 => \A t \in Everyone : pc[t] \in {"new", "start", "wait"}
           /\ state # 0 => \A t \in Everyone : pc[t] \notin {"new", "start"}

(* What a consumer has learnt from the tests it has passed.                *)
Learnt ==
  \A c \in Consumers :
    /\ pc[c] \in {"count", "empty", "report", "leave", "done"} => state = 4
    /\ pc[c] \in {"empty", "report", "leave", "done"} =>
         \A p \in Producers : pc[p] = "done"
    /\ pc[c] \in {"report", "leave", "done"} => queue = << >>

Inv == BTypeOK /\ Flag /\ Counters /\ Barrier /\ Learnt
BInv == program = "bandwidth" => Inv
------------------------------------------------------------------------------
(* Lemmas. *)

LEMMA Distinct == /\ \A p \in Producers, c \in Consumers : p # c
                  /\ \A t \in Everyone : t # Main
BY HarnessAssumption DEF Everyone

LEMMA ActiveFinite ==
  ASSUME NEW S, IsFiniteSet(S)
  PROVE  IsFiniteSet(Active(S)) /\ Cardinality(Active(S)) \in Nat
BY FS_Subset, FS_CardinalityType DEF Active

LEMMA Comes ==
  ASSUME NEW S, IsFiniteSet(S), NEW t \in S, pc[t] \in Absent, pc'[t] \notin Absent,
         \A u \in S \ {t} : pc'[u] = pc[u]
  PROVE  Cardinality(Active(S))' = Cardinality(Active(S)) + 1
<1>1. Active(S)' = Active(S) \cup {t} /\ t \notin Active(S)
  BY DEF Active
<1> QED
  BY <1>1, ActiveFinite, FS_AddElement

LEMMA Goes ==
  ASSUME NEW S, IsFiniteSet(S), NEW t \in S, pc[t] \notin Absent, pc'[t] \in Absent,
         \A u \in S \ {t} : pc'[u] = pc[u]
  PROVE  Cardinality(Active(S))' = Cardinality(Active(S)) - 1
<1>1. Active(S)' = Active(S) \ {t} /\ t \in Active(S)
  BY DEF Active
<1> QED
  BY <1>1, ActiveFinite, FS_RemoveElement

LEMMA Stays ==
  ASSUME NEW S, \A u \in S : pc'[u] \in Absent <=> pc[u] \in Absent
  PROVE  Cardinality(Active(S))' = Cardinality(Active(S))
<1>1. Active(S)' = Active(S)
  BY DEF Active
<1> QED
  BY <1>1

LEMMA BInitially == HInit => BInv
<1> SUFFICES ASSUME HInit, program = "bandwidth" PROVE Inv
  BY DEF BInv
<1>1. \A t \in Everyone : pc[t] = "new"
  BY HarnessAssumption DEF HInit, Team, Threads, Everyone
<1>2. pc[Main] = "main" /\ state = 0
  BY DEF HInit, Threads
<1>3. DOMAIN pc = Threads
  BY DEF HInit
<1>4. BTypeOK /\ Flag /\ Barrier /\ Learnt
  BY <1>1, <1>2, <1>3 DEF BTypeOK, Flag, Barrier, Learnt, Everyone,
                          ProducerPlaces, ConsumerPlaces, MainPlaces
<1>5. Active(Producers) = {} /\ Active(Consumers) = {}
  BY <1>1 DEF Active, Absent, Everyone
<1>6. Cardinality(Active(Producers)) = 0 /\ Cardinality(Active(Consumers)) = 0
  BY <1>5, FS_EmptySet
<1>7. Counters
  BY <1>6 DEF Counters, HInit
<1> QED
  BY <1>4, <1>7 DEF Inv

(* When the producers' counter is 0 after the start, all have left.        *)
LEMMA NobodyLeft ==
  ASSUME Inv, state # 0, ~(producers_counter > 0)
  PROVE  \A p \in Producers : pc[p] = "done"
<1>1. Cardinality(Active(Producers)) = 0
  BY ActiveFinite, HarnessAssumption DEF Inv, Counters
<1>2. Active(Producers) = {}
  BY <1>1, ActiveFinite, FS_EmptySet, HarnessAssumption
<1>3. \A p \in Producers : pc[p] \in Absent
  BY <1>2 DEF Active
<1> QED
  BY <1>3 DEF Inv, Barrier, Absent, Everyone

(* When main sees both counters full, all have come.                       *)
LEMMA AllHere ==
  ASSUME Inv, Gathered
  PROVE  \A t \in Everyone : pc[t] \notin Absent
<1>1. Active(Producers) \subseteq Producers /\ Active(Consumers) \subseteq Consumers
  BY DEF Active
<1>2. /\ Cardinality(Active(Producers)) <= Cardinality(Producers)
      /\ Cardinality(Active(Consumers)) <= Cardinality(Consumers)
      /\ Cardinality(Active(Producers)) = Cardinality(Producers) => Active(Producers) = Producers
      /\ Cardinality(Active(Consumers)) = Cardinality(Consumers) => Active(Consumers) = Consumers
  BY <1>1, FS_Subset, HarnessAssumption
<1>3. /\ Cardinality(Producers) \in Nat /\ Cardinality(Consumers) \in Nat
      /\ Cardinality(Active(Producers)) \in Nat /\ Cardinality(Active(Consumers)) \in Nat
  BY FS_CardinalityType, ActiveFinite, HarnessAssumption
<1>4. Active(Producers) = Producers /\ Active(Consumers) = Consumers
  BY <1>2, <1>3 DEF Inv, Counters, Gathered
<1> QED
  BY <1>4 DEF Active, Everyone

LEMMA GoFacts ==
  ASSUME BTypeOK, NEW t \in Threads, NEW from, NEW to, Go(t, from, to)
  PROVE  /\ DOMAIN pc' = Threads
         /\ pc[t] = from /\ pc'[t] = to
         /\ \A u \in Threads \ {t} : pc'[u] = pc[u]
BY DEF BTypeOK, Go

(* The steps of main, after the threads are created. *)
LEMMA MainStepInv ==
  ASSUME Inv, BReset \/ BStart \/ BStop \/ BProducersLeft \/ BGiveUp \/ BConsumersLeft
              \/ BAbort \/ BJoin
  PROVE  Inv'
<1> DEFINE Moves(from, to, s) == /\ DOMAIN pc' = Threads
                                 /\ pc[Main] = from /\ pc'[Main] = to /\ state' = s
                                 /\ \A t \in Everyone : pc'[t] = pc[t]
<1>1. UNCHANGED <<queue, producers_counter, consumers_counter>>
  BY DEF BReset, BStart, BStop, BProducersLeft, BGiveUp, BConsumersLeft, BAbort, BJoin,
         BSet, channel, flags
<1>2. \A from, to : Go(Main, from, to) =>
        /\ DOMAIN pc' = Threads /\ pc[Main] = from /\ pc'[Main] = to
        /\ \A t \in Everyone : pc'[t] = pc[t]
  BY GoFacts, HarnessAssumption DEF Inv, Threads, Everyone
<1>3. \/ Moves("reset", "gather", state)
      \/ Moves("gather", "sleep", 1) /\ Gathered
      \/ Moves("sleep", "producers", 2)
      \/ Moves("producers", "consumers", 4)
      \/ Moves("consumers", "join", state)
      \/ Moves("consumers", "aborted", state)
      \/ Moves("join", "done", state)
  <2>1. CASE BReset
    BY <2>1, <1>2 DEF BReset, flags
  <2>2. CASE BStart
    BY <2>2, <1>2 DEF BStart, BSet
  <2>3. CASE BStop
    BY <2>3, <1>2 DEF BStop, BSet
  <2>4. CASE BProducersLeft \/ BGiveUp
    BY <2>4, <1>2 DEF BProducersLeft, BGiveUp, BSet
  <2>5. CASE BConsumersLeft
    BY <2>5, <1>2 DEF BConsumersLeft, flags
  <2>6. CASE BAbort
    BY <2>6, <1>2 DEF BAbort, flags
  <2>7. CASE BJoin
    BY <2>7, <1>2 DEF BJoin, Join, flags
  <2> QED
    BY <2>1, <2>2, <2>3, <2>4, <2>5, <2>6, <2>7
<1>4. Gathered => \A t \in Everyone : pc[t] \notin Absent
  BY AllHere
<1>5. BTypeOK' /\ Flag'
  BY <1>3 DEF Inv, BTypeOK, Flag, MainPlaces, Everyone
<1>6. Barrier'
  BY <1>3, <1>4 DEF Inv, Barrier, Flag, Absent
<1>7. Learnt'
  BY <1>1, <1>3 DEF Inv, Learnt, Flag, Everyone
<1>8. Cardinality(Active(Producers))' = Cardinality(Active(Producers))
      /\ Cardinality(Active(Consumers))' = Cardinality(Active(Consumers))
  BY <1>3, Stays DEF Everyone
<1>9. Counters'
  BY <1>1, <1>8 DEF Inv, Counters
<1> QED
  BY <1>5, <1>6, <1>7, <1>9 DEF Inv

LEMMA SpawnInv == ASSUME Inv, BSpawn PROVE Inv'
<1>1. /\ pc[Main] = "main" /\ pc'[Main] = "reset" /\ DOMAIN pc' = Threads
      /\ \A t \in Everyone : pc[t] = "new" /\ pc'[t] = "start"
  BY HarnessAssumption DEF BSpawn, Spawn, Inv, Barrier, Everyone, Threads
<1>2. state' = 0 /\ producers_counter' = 0 /\ consumers_counter' = 0
  BY DEF BSpawn
<1>3. BTypeOK' /\ Flag' /\ Barrier' /\ Learnt'
  BY <1>1, <1>2 DEF BTypeOK, Flag, Barrier, Learnt, Everyone,
                    ProducerPlaces, ConsumerPlaces, MainPlaces
<1>4. Active(Producers)' = {} /\ Active(Consumers)' = {}
  BY <1>1 DEF Active, Absent, Everyone
<1>5. Counters'
  BY <1>2, <1>4, FS_EmptySet DEF Counters
<1> QED
  BY <1>3, <1>5 DEF Inv

(* Threads other than main. *)
LEMMA ProducerInv == ASSUME Inv, NEW p \in Producers, BProduce(p) PROVE Inv'
<1> DEFINE Moves(from, to) == /\ DOMAIN pc' = Threads
                              /\ pc[p] = from /\ pc'[p] = to
                              /\ pc'[Main] = pc[Main]
                              /\ \A q \in Producers \ {p} : pc'[q] = pc[q]
                              /\ \A c \in Consumers : pc'[c] = pc[c]
<1>1. ASSUME NEW from, NEW to, Go(p, from, to) PROVE Moves(from, to)
  <2>1. p \in Threads /\ Main \in Threads \ {p} /\ Consumers \subseteq Threads \ {p}
        /\ Producers \subseteq Threads
    BY Distinct DEF Threads, Everyone
  <2>2. /\ DOMAIN pc' = Threads /\ pc[p] = from /\ pc'[p] = to
        /\ \A u \in Threads \ {p} : pc'[u] = pc[u]
    BY <1>1, <2>1, GoFacts DEF Inv
  <2> QED
    BY <2>1, <2>2
<1> HIDE DEF Moves
<1>2. UNCHANGED <<state, consumers_counter>>
  BY DEF BProduce, BProducerIn, BBegin, BLoop, BPush, BPushed, BProducerOut, flags
<1>3. \/ Moves("start", "wait") /\ producers_counter' = producers_counter + 1 /\ UNCHANGED queue
      \/ /\ \/ Moves("wait", "loop") /\ state >= 1
            \/ Moves("loop", "push") \/ Moves("loop", "report")
            \/ Moves("report", "leave")
         /\ UNCHANGED <<queue, producers_counter>>
      \/ Moves("push", "loop") /\ UNCHANGED producers_counter
      \/ Moves("leave", "done") /\ producers_counter' = producers_counter - 1 /\ UNCHANGED queue
  <2>1. CASE BProducerIn(p)
    BY <2>1, <1>1 DEF BProducerIn, channel
  <2>2. CASE BBegin(p, "loop")
    BY <2>2, <1>1 DEF BBegin, channel, flags
  <2>3. CASE BLoop(p)
    BY <2>3, <1>1 DEF BLoop, channel, flags
  <2>4. CASE BPush(p)
    BY <2>4, <1>1 DEF BPush, flags
  <2>5. CASE BPushed(p)
    BY <2>5, <1>1 DEF BPushed, channel, flags
  <2>6. CASE BProducerOut(p)
    BY <2>6, <1>1 DEF BProducerOut, channel
  <2> QED
    BY <2>1, <2>2, <2>3, <2>4, <2>5, <2>6 DEF BProduce
<1>4. BTypeOK' /\ Flag'
  BY <1>2, <1>3 DEF Moves, Inv, BTypeOK, Flag, ProducerPlaces
<1>5. Barrier'
  BY <1>2, <1>3 DEF Moves, Inv, Barrier, Everyone
<1>6. Learnt'
  BY <1>2, <1>3 DEF Moves, Inv, Learnt
<1>7. Cardinality(Active(Consumers))' = Cardinality(Active(Consumers))
  BY <1>3, Stays DEF Moves
<1>8. Counters'
  <2>1. CASE Moves("start", "wait") /\ producers_counter' = producers_counter + 1
    <3>1. Cardinality(Active(Producers))' = Cardinality(Active(Producers)) + 1
      BY <2>1, Comes, HarnessAssumption DEF Moves, Absent
    <3> QED
      BY <3>1, <2>1, <1>2, <1>7 DEF Inv, Counters
  <2>2. CASE Moves("leave", "done") /\ producers_counter' = producers_counter - 1
    <3>1. Cardinality(Active(Producers))' = Cardinality(Active(Producers)) - 1
      BY <2>2, Goes, HarnessAssumption DEF Moves, Absent
    <3> QED
      BY <3>1, <2>2, <1>2, <1>7 DEF Inv, Counters
  <2>3. CASE /\ \/ Moves("wait", "loop") \/ Moves("loop", "push") \/ Moves("loop", "report")
                \/ Moves("report", "leave") \/ Moves("push", "loop")
             /\ UNCHANGED producers_counter
    <3>1. Cardinality(Active(Producers))' = Cardinality(Active(Producers))
      BY <2>3, Stays DEF Moves, Absent
    <3> QED
      BY <3>1, <2>3, <1>2, <1>7 DEF Inv, Counters
  <2> QED
    BY <1>3, <2>1, <2>2, <2>3
<1> QED
  BY <1>4, <1>5, <1>6, <1>8 DEF Inv

LEMMA ConsumerInv == ASSUME Inv, NEW c \in Consumers, BConsume(c) PROVE Inv'
<1> DEFINE Moves(from, to) == /\ DOMAIN pc' = Threads
                              /\ pc[c] = from /\ pc'[c] = to
                              /\ pc'[Main] = pc[Main]
                              /\ \A d \in Consumers \ {c} : pc'[d] = pc[d]
                              /\ \A p \in Producers : pc'[p] = pc[p]
<1>1. ASSUME NEW from, NEW to, Go(c, from, to) PROVE Moves(from, to)
  <2>1. c \in Threads /\ Main \in Threads \ {c} /\ Producers \subseteq Threads \ {c}
        /\ Consumers \subseteq Threads
    BY Distinct DEF Threads, Everyone
  <2>2. /\ DOMAIN pc' = Threads /\ pc[c] = from /\ pc'[c] = to
        /\ \A u \in Threads \ {c} : pc'[u] = pc[u]
    BY <1>1, <2>1, GoFacts DEF Inv
  <2> QED
    BY <2>1, <2>2
<1> HIDE DEF Moves
<1>2. UNCHANGED <<state, producers_counter>> /\ (queue = << >> => queue' = queue)
  BY DEF BConsume, BConsumerIn, BBegin, BTest, BPop, Pop, PopFails, BPopped, BConsumerOut,
         flags, channel
<1>3. \/ Moves("start", "wait") /\ consumers_counter' = consumers_counter + 1
      \/ /\ \/ Moves("wait", "state") /\ state >= 1
            \/ Moves("state", "pop") \/ Moves("count", "pop") \/ Moves("empty", "pop")
            \/ Moves("state", "count") /\ ~(state < 3)
            \/ Moves("count", "empty") /\ ~(producers_counter > 0)
            \/ Moves("empty", "report") /\ queue = << >>
            \/ pc' = pc
            \/ Moves("pop", "state") \/ Moves("report", "leave")
         /\ UNCHANGED consumers_counter
      \/ Moves("leave", "done") /\ consumers_counter' = consumers_counter - 1
  <2>1. CASE BConsumerIn(c)
    BY <2>1, <1>1 DEF BConsumerIn
  <2>2. CASE BBegin(c, "state")
    BY <2>2, <1>1 DEF BBegin, flags
  <2>3. CASE BTest(c, "state")
    BY <2>3, <1>1 DEF BTest, GoOn, NextTest, flags
  <2>4. CASE BTest(c, "count")
    BY <2>4, <1>1 DEF BTest, GoOn, NextTest, flags
  <2>5. CASE BTest(c, "empty")
    BY <2>5, <1>1 DEF BTest, GoOn, NextTest, SaysEmpty, flags
  <2>6. CASE BPop(c)
    BY <2>6, <1>1 DEF BPop, flags
  <2>7. CASE BPopped(c)
    BY <2>7, <1>1 DEF BPopped, flags
  <2>8. CASE BConsumerOut(c)
    BY <2>8, <1>1 DEF BConsumerOut
  <2> QED
    BY <2>1, <2>2, <2>3, <2>4, <2>5, <2>6, <2>7, <2>8 DEF BConsume
<1>4. BTypeOK' /\ Flag'
  BY <1>2, <1>3 DEF Moves, Inv, BTypeOK, Flag, ConsumerPlaces
<1>5. state \in 0 .. 4
  BY DEF Inv, Flag
<1>6. Barrier'
  BY <1>2, <1>3, <1>5 DEF Moves, Inv, Barrier, Everyone
<1>7. ~(state < 3) => state = 4
  BY DEF Inv, Flag
<1>8. Moves("count", "empty") /\ ~(producers_counter > 0) =>
        \A p \in Producers : pc[p] = "done"
  BY NobodyLeft DEF Moves, Inv, Learnt
<1>9. Learnt'
  BY <1>2, <1>3, <1>7, <1>8 DEF Moves, Inv, Learnt
<1>10. Cardinality(Active(Producers))' = Cardinality(Active(Producers))
  BY <1>3, Stays DEF Moves
<1>11. Counters'
  <2>1. CASE Moves("start", "wait") /\ consumers_counter' = consumers_counter + 1
    <3>1. Cardinality(Active(Consumers))' = Cardinality(Active(Consumers)) + 1
      BY <2>1, Comes, HarnessAssumption DEF Moves, Absent
    <3> QED
      BY <3>1, <2>1, <1>2, <1>10 DEF Inv, Counters
  <2>2. CASE Moves("leave", "done") /\ consumers_counter' = consumers_counter - 1
    <3>1. Cardinality(Active(Consumers))' = Cardinality(Active(Consumers)) - 1
      BY <2>2, Goes, HarnessAssumption DEF Moves, Absent
    <3> QED
      BY <3>1, <2>2, <1>2, <1>10 DEF Inv, Counters
  <2>3. CASE /\ \/ Moves("wait", "state") \/ Moves("state", "pop") \/ Moves("count", "pop")
                \/ Moves("empty", "pop") \/ Moves("state", "count")
                \/ Moves("count", "empty") \/ Moves("empty", "report")
                \/ pc' = pc \/ Moves("pop", "state") \/ Moves("report", "leave")
             /\ UNCHANGED consumers_counter
    <3>1. Cardinality(Active(Consumers))' = Cardinality(Active(Consumers))
      BY <2>3, Stays DEF Moves, Absent
    <3> QED
      BY <3>1, <2>3, <1>2, <1>10 DEF Inv, Counters
  <2> QED
    BY <1>3, <2>1, <2>2, <2>3
<1> QED
  BY <1>4, <1>6, <1>9, <1>11 DEF Inv

(* The other programs, the index and stuttering.                           *)
LEMMA IdleInv ==
  ASSUME Inv, UNCHANGED <<queue, pc, flags>>
  PROVE  Inv'
<1>1. BTypeOK' /\ Flag' /\ Barrier' /\ Learnt'
  BY DEF Inv, BTypeOK, Flag, Barrier, Learnt, flags
<1>2. Counters'
  BY DEF Inv, Counters, Active, flags
<1> QED
  BY <1>1, <1>2 DEF Inv
------------------------------------------------------------------------------
(* Theorems. *)

(* The invariant is inductive in QBandwidth::run.                          *)
THEOREM BandwidthSafety == HarnessSpec => []BInv
<1>1. BInv /\ [HarnessNext]_hvars => BInv'
  <2> SUFFICES ASSUME program = "bandwidth", program' = program, Inv, [HarnessNext]_hvars
               PROVE  Inv'
    <3>1. [HarnessNext]_hvars => program' = program
      BY DEF HarnessNext, Advance, hvars
    <3> QED
      BY <3>1 DEF BInv
  <2>1. CASE BNext
    <3>1. CASE BMain \/ BTimeout
      BY <3>1, MainStepInv, SpawnInv DEF BMain, BTimeout
    <3>2. CASE \E p \in Producers : BProduce(p)
      BY <3>2, ProducerInv
    <3>3. CASE \E c \in Consumers : BConsume(c)
      BY <3>3, ConsumerInv
    <3> QED
      BY <2>1, <3>1, <3>2, <3>3 DEF BNext
  <2>2. CASE Advance \/ UNCHANGED hvars
    BY <2>2, IdleInv DEF Advance, hvars, channel
  <2> QED
    BY <2>1, <2>2 DEF HarnessNext
<1> QED
  BY <1>1, BInitially, PTL DEF HarnessSpec

(* A consumer of QBandwidth::run leaves its loop only when the queue is    *)
(* empty and no producer will push any more: the three tests, in the order *)
(* in which they are made, are enough.                                     *)
THEOREM BandwidthDrained == HarnessSpec => []Drained
<1>1. BInv => Drained
  BY DEF BInv, Inv, Learnt, Drained
<1> QED
  BY <1>1, BandwidthSafety, PTL

(* Nobody begins to push or pop before every thread has reported in.       *)
THEOREM BandwidthTogether == HarnessSpec => []Together
<1>1. BInv => Together
  BY DEF BInv, Inv, Barrier, Together, Everyone
<1> QED
  BY <1>1, BandwidthSafety, PTL

==============================================================================
