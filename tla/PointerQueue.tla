----------------------------- MODULE PointerQueue -----------------------------
(***************************************************************************)
(* pointer_mpmc_queue.h: owning pointers passed through an mpmc_queue of   *)
(* raw pointers, composed with every access of MpmcQueue.  Values are the  *)
(* objects; Zero is the null pointer.  Each thread has one owning pointer, *)
(* hand[t], which it passes to push and pop by reference.                  *)
(***************************************************************************)
EXTENDS QueueSize, FiniteSets

CONSTANT Closer  \* the thread that destroys the queue in the end

ASSUME CloserAssumption == Closer \in Threads

VARIABLES
  hand,       \* hand[t]: what the thread's owning pointer points to
  stage,      \* stage[t]: the call of pointer_mpmc_queue it is in
  made,       \* the objects made so far
  destroyed   \* destroyed[o]: how often object o has been destroyed

owners == <<hand, stage, made, destroyed>>
pvars == <<vars, obs, owners>>

Objects == Values \ {Zero}

PInit == /\ Init
         /\ obs = NoCall
         /\ hand = [t \in Threads |-> Zero]
         /\ stage = [t \in Threads |-> "ready"]
         /\ made = {}
         /\ destroyed = [o \in Objects |-> 0]

Enter(t, s) == stage' = [stage EXCEPT ![t] = s]
Holds(t, o) == hand' = [hand EXCEPT ![t] = o]
Destroy(o) ==
  destroyed' = IF o = Zero THEN destroyed ELSE [destroyed EXCEPT ![o] = @ + 1]

Open == stage[Closer] \notin {"close_pop", "closing", "closed"}
Free(t) == Open /\ stage[t] = "ready"
Returned(t, s) == stage[t] = s /\ pc[t] = "idle"
Succeeded(t) == res[t].is = "true"

(* Faults. *)
(* v keeps the pointer it has given away *)
Release_Keeps(t) == UNCHANGED hand
(* release() and assignment where reset(nv) is needed *)
Reset_Leaks(t, o) == Holds(t, o) /\ UNCHANGED destroyed
(* the destructor pops once *)
CloseNext_Once(t) == Enter(t, "closed")
------------------------------------------------------------------------------
(* The caller. *)

(* std::make_unique, into an empty pointer. *)
Make(t) == /\ Free(t) /\ hand[t] = Zero
           /\ \E o \in Objects \ made : /\ \A x \in made : x < o
                                        /\ \A y \in Objects \ made : o <= y
                                        /\ Holds(t, o)
                                        /\ made' = made \cup {o}
           /\ UNCHANGED <<vars, obs, stage, destroyed>>

(* The caller's pointer goes out of scope, as the argument of a push that  *)
(* failed does at the end of its statement.                                *)
Drop(t) == /\ stage[t] \in {"ready", "closed"}
           /\ hand[t] # Zero
           /\ Destroy(hand[t])
           /\ Holds(t, Zero)
           /\ UNCHANGED <<vars, obs, stage, made>>

(* The last N + 1 calls of the closer are kept for the destructor.         *)
MayCall(t) == t = Closer => calls[t] + N + 1 < MaxCalls[t]

PushCall(t) == /\ Free(t) /\ hand[t] # Zero /\ MayCall(t)
               /\ Call(t)
               /\ req'[t].op = "push" /\ req'[t].data = hand[t]  \* v.get()
               /\ Enter(t, "push")
               /\ Watched /\ UNCHANGED <<hand, made, destroyed>>

PopCall(t) == /\ Free(t) /\ MayCall(t)
              /\ Call(t)
              /\ req'[t].op = "pop"
              /\ Enter(t, "pop")
              /\ Watched /\ UNCHANGED <<hand, made, destroyed>>

(* One access of the queue inside. *)
Inside(t) == Step(t) /\ Watched /\ UNCHANGED owners

(* v.release() after a push: from the compare-and-exchange until here the  *)
(* consumer may already have destroyed the object v still points to.       *)
Release(t) == Holds(t, Zero)

PushReturns(t) == /\ Returned(t, "push")
                  /\ IF Succeeded(t) THEN Release(t) ELSE UNCHANGED hand
                  /\ Enter(t, "ready")
                  /\ UNCHANGED <<vars, obs, made, destroyed>>

(* v.reset(nv) destroys what v owned before. *)
Reset(t, o) == Holds(t, o) /\ Destroy(hand[t])

PopReturns(t) == /\ Returned(t, "pop")
                 /\ IF Succeeded(t) THEN Reset(t, res[t].data)
                                    ELSE UNCHANGED <<hand, destroyed>>
                 /\ Enter(t, "ready")
                 /\ UNCHANGED <<vars, obs, made>>
------------------------------------------------------------------------------
(* The destructor pops and destroys until nothing is left.  Nobody else    *)
(* uses the queue any more.                                                *)

CloseNext(t) == Enter(t, "closing")

ClosePop(t) == /\ t = Closer
               /\ stage[t] = "closing" \/ \A u \in Threads : stage[u] = "ready"
               /\ obs.at = "idle"
               /\ Call(t) /\ req'[t].op = "pop"
               /\ Enter(t, "close_pop")
               /\ UNCHANGED <<obs, hand, made, destroyed>>

CloseDestroy(t) == /\ Returned(t, "close_pop") /\ Succeeded(t)
                   /\ Destroy(res[t].data)
                   /\ CloseNext(t)
                   /\ UNCHANGED <<vars, obs, hand, made>>

CloseEnd(t) == /\ Returned(t, "close_pop") /\ ~Succeeded(t)
               /\ Enter(t, "closed")
               /\ UNCHANGED <<vars, obs, hand, made, destroyed>>
------------------------------------------------------------------------------
Closed == /\ stage[Closer] = "closed" /\ \A t \in Threads : hand[t] = Zero
          /\ UNCHANGED pvars

PointerStep(t) ==
  \/ Make(t) \/ Drop(t) \/ PushCall(t) \/ PopCall(t) \/ Inside(t)
  \/ PushReturns(t) \/ PopReturns(t)
  \/ ClosePop(t) \/ CloseDestroy(t) \/ CloseEnd(t)

PNext == \/ \E t \in Threads : PointerStep(t)
         \/ (Open \/ obs.at # "idle") /\ Observe /\ UNCHANGED owners
         \/ Closed

PSpec == PInit /\ [][PNext]_pvars
------------------------------------------------------------------------------
(* How many owners object o has: pointers that will destroy it, the queue, *)
(* and a pop that has taken it but not yet handed it over.  The pointer of *)
(* a push that has taken effect no longer counts, the one of a push that   *)
(* has not still does.                                                     *)
Given(t) == stage[t] = "push" /\ Succeeded(t)
Taken(t) == stage[t] \in {"pop", "close_pop"} /\ Succeeded(t)

OwnerCount(o) ==
  Cardinality({ t \in Threads : hand[t] = o /\ ~Given(t) })
  + Cardinality({ t \in Threads : Taken(t) /\ res[t].data = o })
  + Cardinality({ k \in DOMAIN Contents : Contents[k] = o })

(* Every object made has exactly one owner, or was destroyed exactly once, *)
(* at every access of every interleaving: push hands ownership over at its *)
(* compare-and-exchange, not before and not at release(); a push that      *)
(* fails leaves it with the caller; pop destroys what the caller's pointer *)
(* held before; nothing leaks and nothing is destroyed twice.              *)
OneOwner == \A o \in made : OwnerCount(o) + destroyed[o] = 1

(* When the queue has been destroyed and no pointer holds anything, all    *)
(* objects have been destroyed: the destructor leaves none in the slots.   *)
AllDestroyed ==
  stage[Closer] = "closed" => \A o \in made :
    destroyed[o] = 1 \/ \E t \in Threads : hand[t] = o
==============================================================================
