------------------------------- MODULE Harness -------------------------------
(***************************************************************************)
(* All the programs, of which a behaviour runs one, and what they rely on: *)
(* when main has joined its threads, everything pushed has been popped.    *)
(***************************************************************************)
EXTENDS Bandwidth, PackBenchmark, CountedPrograms, HashTests

HarnessNext ==
  \/ /\ UNCHANGED program
     /\ \/ program = "bandwidth" /\ BNext
        \/ program = "pack" /\ PkNext
        \/ program \in {"counted", "timing"} /\ CNext
        \/ program \in {"hash2", "hash3"} /\ HNext
  \/ Advance

HarnessSpec == HInit /\ [][HarnessNext]_hvars

(* Every thread keeps running, and one that spins for a lock gets it       *)
(* sooner or later if it is free again and again.  Nothing makes a timeout *)
(* happen or the index of a lazy queue advance.                            *)
MainStep == /\ UNCHANGED program
            /\ \/ program = "bandwidth" /\ BMain
               \/ program \in {"counted", "timing"} /\ CMain
               \/ program \in {"hash2", "hash3"} /\ HMain

ProducerStep(p) == /\ UNCHANGED program
                   /\ \/ program = "bandwidth" /\ pc[Main] # "aborted" /\ BProduce(p)
                      \/ program \in {"counted", "timing"} /\ CProduce(p)
                      \/ program \in {"hash2", "hash3"} /\ HProduce(p)

ConsumerStep(c) == /\ UNCHANGED program
                   /\ \/ program = "bandwidth" /\ pc[Main] # "aborted" /\ BConsume(c)
                      \/ program \in {"counted", "timing"} /\ CConsume(c)
                      \/ program \in {"hash2", "hash3"} /\ HConsume(c)

LockStep(c) == program \in {"hash2", "hash3"} /\ HLock(c) /\ UNCHANGED program

HarnessFairSpec ==
  /\ HarnessSpec
  /\ WF_hvars(MainStep)
  /\ \A p \in Producers : WF_hvars(ProducerStep(p))
  /\ \A c \in Consumers : WF_hvars(ConsumerStep(c)) /\ SF_hvars(LockStep(c))
------------------------------------------------------------------------------
(* The sum of the counts in f: one pair for each thing counted.            *)
Total(f) == Cardinality(UNION { {t} \X (1 .. f[t]) : t \in DOMAIN f })

(* In the programs that count, wait or send a last element, the queue is   *)
(* empty when main has joined its threads, and the counts they report are  *)
(* those of the pushes and pops that took place (QBandwidth::run compares  *)
(* total_push and total_pop).                                              *)
NothingLeft ==
  pc[Main] = "done" /\ program \in {"bandwidth", "counted", "timing"} =>
    /\ queue = << >>
    /\ Total(sent) = Total(got)
    /\ program = "bandwidth" => push_counter = sent /\ pop_counter = got

(* The claim of pack_benchmark.cpp ("OK", or "ERROR" if the consumers' sum *)
(* is not the producers') and of the tests (EXPECT_TRUE(same)) that it is  *)
(* so in every program.                                                    *)
NothingLeftAnywhere == pc[Main] = "done" => queue = << >>

(* What is put into the hash or sum of a producer's output is what the     *)
(* producer pushed, in its order, although the consumers of hash3 come to  *)
(* the hash in any order: nobody overtakes, and no element is used twice.  *)
HashesAgree ==
  program \in {"timing", "hash2", "hash3"} =>
    \A p \in Producers : \A i \in 1 .. Len(out[p]) :
      out[p][i] = (IF i = Items + 1 THEN 0 ELSE i)

(* The threads join.  (bw_benchmark may hang, see PackBenchmark.)          *)
Terminates == program # "pack" => <>(pc[Main] \in {"done", "aborted"})
==============================================================================
