------------------------------ MODULE Bandwidth ------------------------------
(***************************************************************************)
(* QBandwidth::run of mpmc_queue_timing.h: start everybody, wait until all *)
(* have reported in, let them push and pop for a while, stop the           *)
(* producers, let the consumers empty the queue, compare the counts.       *)
(***************************************************************************)
EXTENDS HarnessQueue

Everyone == Producers \cup Consumers

(* Faults. *)
(* the queue is polled before the producers are counted, as in hash2 *)
NextTest_EmptyFirst(test) ==
  CASE test = "state" -> "empty" [] test = "empty" -> "count" [] test = "count" -> "report"
(* main waits for the producers only *)
Gathered_Producers == producers_counter >= Cardinality(Producers)
------------------------------------------------------------------------------
(* main *)

BSpawn == /\ Spawn(Everyone, "main", "reset")
          /\ state' = 0 /\ producers_counter' = 0 /\ consumers_counter' = 0
          /\ push_counter' = Zeros(Producers) /\ pop_counter' = Zeros(Consumers)
          /\ UNCHANGED <<channel, counts, hashing>>

(* The reports are cleared again while the threads already run.            *)
BReset == /\ Go(Main, "reset", "gather")
          /\ push_counter' = Zeros(Producers) /\ pop_counter' = Zeros(Consumers)
          /\ UNCHANGED <<channel, flags, counts, hashing>>

Gathered == /\ consumers_counter >= Cardinality(Consumers)
            /\ producers_counter >= Cardinality(Producers)

BSet(from, to, s) == /\ Go(Main, from, to)
                     /\ state' = s
                     /\ UNCHANGED <<channel, producers_counter, consumers_counter,
                                    counts, reports, hashing>>

BStart == Gathered /\ BSet("gather", "sleep", 1)
BStop == BSet("sleep", "producers", 2)
BProducersLeft == producers_counter = 0 /\ BSet("producers", "consumers", 4)
(* One second is over and some producer has not left: go on all the same.  *)
BGiveUp == BSet("producers", "consumers", 4)

BConsumersLeft == /\ consumers_counter = 0
                  /\ Go(Main, "consumers", "join")
                  /\ UNCHANGED <<channel, flags, counts, reports, hashing>>

(* The same for the consumers is abort().                                  *)
BAbort == /\ Go(Main, "consumers", "aborted")
          /\ UNCHANGED <<channel, flags, counts, reports, hashing>>

BJoin == Join("join") /\ UNCHANGED <<channel, flags, counts, reports, hashing>>
------------------------------------------------------------------------------
(* Producers. *)

BProducerIn(p) == /\ Go(p, "start", "wait")
                  /\ producers_counter' = producers_counter + 1
                  /\ UNCHANGED <<channel, state, consumers_counter, counts, reports, hashing>>

BBegin(t, to) == /\ state >= 1
                 /\ Go(t, "wait", to)
                 /\ UNCHANGED <<channel, flags, counts, reports, hashing>>

(* The bound on Items stands for the time they have.                       *)
BLoop(p) == /\ \/ state = 1 /\ sent[p] < Items /\ Go(p, "loop", "push")
               \/ state # 1 /\ Go(p, "loop", "report")
            /\ UNCHANGED <<channel, flags, counts, reports, hashing>>

BPush(p) == /\ Go(p, "push", "loop")
            /\ \/ Push(p, Element(p, sent[p] + 1))
               \/ Len(queue) = N /\ UNCHANGED <<channel, counts>>
            /\ UNCHANGED <<flags, reports, hashing>>

BPushed(p) == /\ Go(p, "report", "leave")
              /\ push_counter' = [push_counter EXCEPT ![p] = sent[p]]
              /\ UNCHANGED <<channel, flags, counts, pop_counter, hashing>>

BProducerOut(p) == /\ Go(p, "leave", "done")
                   /\ producers_counter' = producers_counter - 1
                   /\ UNCHANGED <<channel, state, consumers_counter, counts, reports, hashing>>
------------------------------------------------------------------------------
(* Consumers: while (_state < 3 || _producers_counter > 0 || !_q.empty()). *)

BConsumerIn(c) == /\ Go(c, "start", "wait")
                  /\ consumers_counter' = consumers_counter + 1
                  /\ UNCHANGED <<channel, state, producers_counter, counts, reports, hashing>>

NextTest(test) ==
  CASE test = "state" -> "count" [] test = "count" -> "empty" [] test = "empty" -> "report"

GoOn(test) == CASE test = "state" -> state < 3
                [] test = "count" -> producers_counter > 0
                [] test = "empty" -> ~SaysEmpty

BTest(c, test) == /\ Go(c, test, IF GoOn(test) THEN "pop" ELSE NextTest(test))
                  /\ UNCHANGED <<channel, flags, counts, reports, hashing>>

BPop(c) == /\ pc[c] = "pop"
           /\ \/ Pop(c) /\ UNCHANGED pc
              \/ PopFails /\ Go(c, "pop", "state") /\ UNCHANGED counts
           /\ UNCHANGED <<flags, reports, hashing>>

BPopped(c) == /\ Go(c, "report", "leave")
              /\ pop_counter' = [pop_counter EXCEPT ![c] = got[c]]
              /\ UNCHANGED <<channel, flags, counts, push_counter, hashing>>

BConsumerOut(c) == /\ Go(c, "leave", "done")
                   /\ consumers_counter' = consumers_counter - 1
                   /\ UNCHANGED <<channel, state, producers_counter, counts, reports, hashing>>
------------------------------------------------------------------------------
BMain == BSpawn \/ BReset \/ BStart \/ BStop \/ BProducersLeft \/ BConsumersLeft \/ BJoin
BTimeout == BGiveUp \/ BAbort

BProduce(p) == \/ BProducerIn(p) \/ BBegin(p, "loop") \/ BLoop(p) \/ BPush(p)
               \/ BPushed(p) \/ BProducerOut(p)

BConsume(c) == \/ BConsumerIn(c) \/ BBegin(c, "state")
               \/ (\E test \in {"state", "count", "empty"} : BTest(c, test))
               \/ BPop(c) \/ BPopped(c) \/ BConsumerOut(c)

(* The steps of the threads; abort() ends them all. *)
BNext == /\ pc[Main] # "aborted"
         /\ BMain \/ BTimeout \/ (\E p \in Producers : BProduce(p))
                  \/ (\E c \in Consumers : BConsume(c))
------------------------------------------------------------------------------
(* Nobody begins before everybody has reported in, so the counts are       *)
(* cleared before anyone reports and the measured time is everybody's.     *)
Together ==
  /\ program = "bandwidth"
  /\ \E t \in Everyone : pc[t] \notin {"new", "start", "wait"}
  => \A u \in Everyone : pc[u] \notin {"new", "start"}

(* A consumer that has left its loop can rely on it that nothing is in the *)
(* queue and that nobody is there any more to push something.              *)
Drained ==
  program = "bandwidth" =>
    \A c \in Consumers : pc[c] \in {"report", "leave", "done"} =>
      /\ queue = << >>
      /\ \A p \in Producers : pc[p] = "done"
==============================================================================
