---------------------------- MODULE MCPointerQueue ----------------------------
(* One producer, one consumer who destroys the queue, and an observer who  *)
(* asks for the size.                                                      *)
EXTENDS PointerQueue, TLC

CONSTANTS t1, t2   \* threads

MCValues == {0, 1, 2, 3}

Req(op, v) == [op |-> op, data |-> v, old |-> 0, index |-> 0]

PairRequests == t1 :> { Req("push", o) : o \in Objects } @@ t2 :> {Req("pop", 0)}

(* t2 keeps three calls for the destructor.                                *)
PairCalls == t1 :> 3 @@ t2 :> 6
==============================================================================
