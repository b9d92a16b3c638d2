---------------------------- MODULE PackBenchmark ----------------------------
(***************************************************************************)
(* bw_benchmark of pack_benchmark.cpp, for a queue without a pack.  Its    *)
(* producers wait "to start" while benchmark_state is set, and it is set   *)
(* when everybody has started: a producer that looks too late waits for    *)
(* ever, and so does main when a consumer has left before main has counted *)
(* them.  benchmark_state is state, active_producers and active_consumers  *)
(* are the two counters, the sums are the reported counts.                 *)
(***************************************************************************)
EXTENDS HarnessQueue

PkSpawnProducers == /\ Spawn(Producers, "main", "producers")
                    /\ UNCHANGED <<channel, flags, counts, reports, hashing>>

PkSpawnConsumers == /\ producers_counter = Cardinality(Producers)
                    /\ Spawn(Consumers, "producers", "consumers")
                    /\ UNCHANGED <<channel, flags, counts, reports, hashing>>

PkStart == /\ consumers_counter = Cardinality(Consumers)
           /\ Go(Main, "consumers", "drain")
           /\ state' = 1
           /\ UNCHANGED <<channel, producers_counter, consumers_counter,
                          counts, reports, hashing>>

PkDrained == /\ consumers_counter = 0
             /\ Go(Main, "drain", "join")
             /\ UNCHANGED <<channel, flags, counts, reports, hashing>>

PkJoin == Join("join") /\ UNCHANGED <<channel, flags, counts, reports, hashing>>
------------------------------------------------------------------------------
PkProducerIn(p) == /\ Go(p, "start", "wait")
                   /\ producers_counter' = producers_counter + 1
                   /\ UNCHANGED <<channel, state, consumers_counter, counts, reports, hashing>>

PkBegin(p) == /\ state = 0
              /\ Go(p, "wait", "push")
              /\ UNCHANGED <<channel, flags, counts, reports, hashing>>

PkPush(p) == /\ pc[p] = "push" /\ sent[p] < Items
             /\ Push(p, Element(p, sent[p] + 1))
             /\ UNCHANGED <<pc, flags, reports, hashing>>

PkPushed(p) == /\ sent[p] = Items
               /\ Go(p, "push", "leave")
               /\ push_counter' = [push_counter EXCEPT ![p] = sent[p]]
               /\ UNCHANGED <<channel, flags, counts, pop_counter, hashing>>

PkProducerOut(p) == /\ Go(p, "leave", "done")
                    /\ producers_counter' = producers_counter - 1
                    /\ UNCHANGED <<channel, state, consumers_counter, counts, reports, hashing>>
------------------------------------------------------------------------------
(* Consumers: do { while (pop) ... } while (active_producers). *)

PkConsumerIn(c) == /\ Go(c, "start", "pop")
                   /\ consumers_counter' = consumers_counter + 1
                   /\ UNCHANGED <<channel, state, producers_counter, counts, reports, hashing>>

PkPop(c) == /\ pc[c] = "pop"
            /\ \/ Pop(c) /\ UNCHANGED pc
               \/ PopFails /\ Go(c, "pop", "count") /\ UNCHANGED counts
            /\ UNCHANGED <<flags, reports, hashing>>

PkCount(c) == /\ Go(c, "count", IF producers_counter # 0 THEN "pop" ELSE "report")
              /\ UNCHANGED <<channel, flags, counts, reports, hashing>>

PkPopped(c) == /\ Go(c, "report", "leave")
               /\ pop_counter' = [pop_counter EXCEPT ![c] = got[c]]
               /\ UNCHANGED <<channel, flags, counts, push_counter, hashing>>

PkConsumerOut(c) == /\ Go(c, "leave", "done")
                    /\ consumers_counter' = consumers_counter - 1
                    /\ UNCHANGED <<channel, state, producers_counter, counts, reports, hashing>>
------------------------------------------------------------------------------
PkMain == PkSpawnProducers \/ PkSpawnConsumers \/ PkStart \/ PkDrained \/ PkJoin
PkProduce(p) == \/ PkProducerIn(p) \/ PkBegin(p) \/ PkPush(p)
                \/ PkPushed(p) \/ PkProducerOut(p)
PkConsume(c) == \/ PkConsumerIn(c) \/ PkPop(c) \/ PkCount(c)
                \/ PkPopped(c) \/ PkConsumerOut(c)

PkNext == PkMain \/ (\E p \in Producers : PkProduce(p))
                 \/ (\E c \in Consumers : PkConsume(c))
==============================================================================
