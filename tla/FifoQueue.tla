------------------------------ MODULE FifoQueue ------------------------------
(***************************************************************************)
(* What mpmc_queue (mpmc_queue.h) promises its callers: a bounded FIFO     *)
(* queue whose operations each take effect at one instant between the call *)
(* and the return.  A call is made by Begin, takes effect in one of the    *)
(* other actions, which also fixes its result, and has its result in       *)
(* res[t] from then on.                                                    *)
(*                                                                         *)
(* Elements are numbered by the order of their pushes; popped is the       *)
(* number of elements taken so far, so it is also the number of the head.  *)
(* push(d, i) and pop(d, i) hand that number to the caller modulo the      *)
(* range R of index_type.                                                  *)
(***************************************************************************)
EXTENDS Integers, Sequences

CONSTANTS Threads,   \* the callers
          N,         \* capacity
          R,         \* range of index_type: 2^bits
          Zero,      \* the data of a result that carries none
          Requests,  \* Requests[t]: the calls thread t may make
          First      \* how many elements went through before the start

VARIABLES queue,     \* the elements, head first
          popped,    \* how many elements have been taken
          req,       \* req[t]: the arguments of t's current or last call
          res        \* res[t]: its result, or Pending

vars == <<queue, popped, req, res>>

NoRequest == [op |-> "none", data |-> Zero, old |-> Zero, index |-> 0]

Result(is, d, i) == [is |-> is, data |-> d, index |-> i]
Pending == Result("pending", Zero, 0)
False   == Result("false", Zero, 0)

Init == /\ queue = << >>
        /\ popped = First
        /\ req = [t \in Threads |-> NoRequest]
        /\ res = [t \in Threads |-> False]

Begin(t) == /\ res[t].is # "pending"
            /\ \E r \in Requests[t] : req' = [req EXCEPT ![t] = r]
            /\ res' = [res EXCEPT ![t] = Pending]
            /\ UNCHANGED <<queue, popped>>

InCall(t, ops) == res[t].is = "pending" /\ req[t].op \in ops

Returns(t, r) == res' = [res EXCEPT ![t] = r] /\ UNCHANGED req

(* push, and the push that ends push_keep_n: the element becomes the last. *)
Push(t) == /\ InCall(t, {"push", "push_keep_n"})
           /\ Len(queue) < N
           /\ queue' = Append(queue, req[t].data)
           /\ Returns(t, Result("true", Zero, (popped + Len(queue)) % R))
           /\ UNCHANGED popped

(* push may refuse only at an instant when the queue is full. *)
PushFull(t) == /\ InCall(t, {"push"})
               /\ Len(queue) = N
               /\ Returns(t, False)
               /\ UNCHANGED <<queue, popped>>

TakeHead == queue # << >> /\ queue' = Tail(queue) /\ popped' = popped + 1

(* push_keep_n may throw the head away, at any time before its own push. *)
Discard(t) == InCall(t, {"push_keep_n"}) /\ TakeHead /\ UNCHANGED <<req, res>>

Pop(t) == /\ InCall(t, {"pop"})
          /\ TakeHead
          /\ Returns(t, Result("true", Head(queue), popped % R))

(* pop_if: the callback has accepted some value; what is taken is the head. *)
PopIf(t) == /\ InCall(t, {"pop_if"})
            /\ TakeHead
            /\ Returns(t, Result("true", Head(queue), 0))

(* pop_if whose callback refused the head it was shown. *)
Refuse(t) == /\ InCall(t, {"pop_if"})
             /\ queue # << >>
             /\ Returns(t, False)
             /\ UNCHANGED <<queue, popped>>

(* consume hands one element after the other to its callback, until the    *)
(* callback asks to stop or nothing is left.                               *)
Hand(t) == /\ InCall(t, {"consume"})
           /\ TakeHead
           /\ Returns(t, Result("pending", Head(queue), popped % R))

Stop(t) == /\ InCall(t, {"consume"})
           /\ Returns(t, [res[t] EXCEPT !.is = "true"])
           /\ UNCHANGED <<queue, popped>>

(* pop, peek, pop_if and consume find nothing only when nothing is there.  *)
NothingThere(t) == /\ InCall(t, {"pop", "peek", "pop_if", "consume"})
                   /\ queue = << >>
                   /\ Returns(t, False)
                   /\ UNCHANGED <<queue, popped>>

(* peek returns the head and, as its index, the sequence word of the entry: *)
(* twice the number of the head, plus one.                                  *)
Peek(t) == /\ InCall(t, {"peek"})
           /\ queue # << >>
           /\ Returns(t, Result("true", Head(queue), (2 * popped + 1) % R))
           /\ UNCHANGED <<queue, popped>>

(* empty() is exact when it says yes.  A no promises nothing. *)
Empty(t) == /\ InCall(t, {"empty"})
            /\ \/ queue = << >> /\ Returns(t, Result("true", Zero, 0))
               \/ Returns(t, False)
            /\ UNCHANGED <<queue, popped>>

(* exchange replaces an element still in the queue, found by its number;   *)
(* a number is known to the queue modulo R \div 2.                         *)
Numbered(k, i) == (popped + k - 1 - i) % (R \div 2) = 0

Exchange(t) ==
  /\ InCall(t, {"exchange"})
  /\ LET found == { k \in DOMAIN queue : /\ Numbered(k, req[t].index)
                                         /\ queue[k] = req[t].old }
     IN \/ \E k \in found : /\ queue' = [queue EXCEPT ![k] = req[t].data]
                            /\ Returns(t, Result("true", Zero, 0))
        \/ found = {} /\ Returns(t, False) /\ UNCHANGED queue
  /\ UNCHANGED popped

Effect(t) == \/ Push(t) \/ PushFull(t) \/ Discard(t)
             \/ Pop(t) \/ PopIf(t) \/ Refuse(t) \/ Hand(t) \/ Stop(t) \/ NothingThere(t)
             \/ Peek(t) \/ Empty(t) \/ Exchange(t)

Next == \E t \in Threads : Begin(t) \/ Effect(t)

Spec == Init /\ [][Next]_vars
==============================================================================
