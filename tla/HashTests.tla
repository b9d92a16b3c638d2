------------------------------ MODULE HashTests ------------------------------
(***************************************************************************)
(* The tests hash2 and hash3 of gtest_mpmc_queue.cpp.  Consumers put what  *)
(* they pop into one hash per producer, under a spin lock per hash.  Its   *)
(* value depends on the order of what is put into it, so it stands for the *)
(* sequence out[p]; next to it the hash counts.  hash2 has one consumer,   *)
(* and leaves the order to the queue; in hash3 a consumer waits until it   *)
(* is the turn of its element, by the count.                               *)
(***************************************************************************)
EXTENDS HarnessQueue

(* Faults. *)
(* test_and_set, and go on whatever it answers *)
HLock_Blind(c) == /\ Go(c, "lock", "hash")
                  /\ lock' = [lock EXCEPT ![held[c].from] = c]
                  /\ UNCHANGED <<channel, flags, counts, reports, held, out, hash_count>>
(* a consumer that has to wait keeps the lock *)
Unlock_Never(p) == UNCHANGED lock

(* producers_count starts at its final value, before the threads do.       *)
HSpawnProducers == /\ Spawn(Producers, "main", "await")
                   /\ producers_counter' = Cardinality(Producers)
                   /\ UNCHANGED <<channel, state, consumers_counter, counts,
                                  reports, hashing>>

HSpawnConsumers == /\ ~SaysEmpty
                   /\ Spawn(Consumers, "await", "join")
                   /\ UNCHANGED <<channel, flags, counts, reports, hashing>>

HJoin == Join("join") /\ UNCHANGED <<channel, flags, counts, reports, hashing>>
------------------------------------------------------------------------------
HPush(p) == /\ pc[p] = "start" /\ sent[p] < Items
            /\ Push(p, Element(p, sent[p] + 1))
            /\ UNCHANGED <<pc, flags, reports, hashing>>

HPushed(p) == /\ sent[p] = Items
              /\ Go(p, "start", "done")
              /\ producers_counter' = producers_counter - 1
              /\ UNCHANGED <<channel, state, consumers_counter, counts, reports, hashing>>
------------------------------------------------------------------------------
(* Consumers: while (!qut.empty() || producers_count > 0). *)

HEmpty(c) == /\ Go(c, "start", IF SaysEmpty THEN "count" ELSE "pop")
             /\ UNCHANGED <<channel, flags, counts, reports, hashing>>

HCount(c) == /\ Go(c, "count", IF producers_counter > 0 THEN "pop" ELSE "done")
             /\ UNCHANGED <<channel, flags, counts, reports, hashing>>

HPop(c) == \/ /\ Pop(c)
              /\ held' = [held EXCEPT ![c] = Head(queue)]
              /\ Go(c, "pop", "lock")
              /\ UNCHANGED <<flags, reports, lock, out, hash_count>>
           \/ /\ PopFails
              /\ Go(c, "pop", "start")
              /\ UNCHANGED <<flags, counts, reports, hashing>>

HLock(c) == /\ Go(c, "lock", "hash")
            /\ lock[held[c].from] = None  \* test_and_set
            /\ lock' = [lock EXCEPT ![held[c].from] = c]
            /\ UNCHANGED <<channel, flags, counts, reports, held, out, hash_count>>

MyTurn(c) == \/ program = "hash2"
             \/ held[c].n = hash_count[held[c].from] + 1

(* Use the element, or give the lock back and wait (yield).                *)
HHash(c) == /\ Go(c, "hash", IF MyTurn(c) THEN "add" ELSE "yield")
            /\ UNCHANGED <<channel, flags, counts, reports, hashing>>

(* The hash's value and its count are plain variables, which the compiler  *)
(* may write in either order: it is the lock that keeps others out.        *)
HAddState(c) ==
  /\ Go(c, "add", "tally") \/ Go(c, "state", "unlock")
  /\ out' = [out EXCEPT ![held[c].from] = Append(@, held[c].n)]
  /\ UNCHANGED <<channel, flags, counts, reports, held, lock, hash_count>>

HAddCount(c) ==
  /\ Go(c, "add", "state") \/ Go(c, "tally", "unlock")
  /\ hash_count' = [hash_count EXCEPT ![held[c].from] = @ + 1]
  /\ UNCHANGED <<channel, flags, counts, reports, held, lock, out>>

Unlock(p) == lock' = [lock EXCEPT ![p] = None]

HYield(c) == /\ Go(c, "yield", "lock")
             /\ Unlock(held[c].from)
             /\ UNCHANGED <<channel, flags, counts, reports, held, out, hash_count>>

HUnlock(c) == /\ Go(c, "unlock", "start")
              /\ lock' = [lock EXCEPT ![held[c].from] = None]
              /\ held' = [held EXCEPT ![c] = None]
              /\ UNCHANGED <<channel, flags, counts, reports, out, hash_count>>
------------------------------------------------------------------------------
HMain == HSpawnProducers \/ HSpawnConsumers \/ HJoin
HProduce(p) == HPush(p) \/ HPushed(p)
HConsume(c) == \/ HEmpty(c) \/ HCount(c) \/ HPop(c) \/ HLock(c)
               \/ HHash(c) \/ HAddState(c) \/ HAddCount(c)
               \/ HYield(c) \/ HUnlock(c)

HNext == HMain \/ (\E p \in Producers : HProduce(p))
               \/ (\E c \in Consumers : HConsume(c))
==============================================================================
