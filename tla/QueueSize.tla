------------------------------ MODULE QueueSize ------------------------------
(***************************************************************************)
(* size() of mpmc_queue, called by an observer while the threads of        *)
(* MpmcQueue go on.  It changes nothing.  It makes up to six loads: two in *)
(* empty(), two for a comparison and, should these have changed since, two *)
(* more for the subtraction.  C++ does not say which operand of the        *)
(* comparison, or of the subtraction, is loaded first.                     *)
(***************************************************************************)
EXTENDS MpmcQueue

VARIABLE obs  \* the observer: its call, its loads, what it could have seen

Unread == -1

(* at: the access it makes next; read: the index empty() loaded; w, r: the *)
(* operands loaded so far; order: what the comparison said; size: the last *)
(* result.  History of the call: the least and the greatest number of      *)
(* elements, and whether the read index stood still.                       *)
NoCall == [at |-> "idle", read |-> 0, w |-> Unread, r |-> Unread,
           order |-> TRUE, size |-> 0, least |-> 0, most |-> 0, still |-> TRUE]

Length == tail - head

Returns(n) == obs' = [NoCall EXCEPT !.size = n]

(* Faults.  The comparison is strict.                                      *)
InOrder_Strict(w, r) == w > r

(* _write_index >= _read_index, both reduced to the width of index_type.   *)
InOrder(w, r) == w >= r

(* The second pair of loads, in the unsigned type of the index, or of      *)
(* size_t when array.size() takes part: a negative number stands for one   *)
(* just below 2^64.                                                        *)
Difference(order, w, r) == IF order THEN Wrap(w - r) ELSE w + N - r

SizeCall == /\ obs.at = "idle"
            /\ obs' = [NoCall EXCEPT !.at = "index", !.least = Length, !.most = Length]

SizeIndex == /\ obs.at = "index"
             /\ obs' = [obs EXCEPT !.at = "entry", !.read = read_index]

SizeEntry ==
  /\ obs.at = "entry"
  /\ IF array[Slot(obs.read)].seq = EmptySeq(obs.read)
     THEN Returns(0) ELSE obs' = [obs EXCEPT !.at = "compare"]

(* Both operands are there: go on to the next pair, or return.             *)
Operands(w, r) ==
  IF obs.at = "compare"
  THEN obs' = [obs EXCEPT !.at = "subtract", !.order = InOrder(w, r),
                          !.w = Unread, !.r = Unread]
  ELSE Returns(Difference(obs.order, w, r))

SizeWrite ==
  /\ obs.at \in {"compare", "subtract"} /\ obs.w = Unread
  /\ IF obs.r = Unread THEN obs' = [obs EXCEPT !.w = write_index]
                       ELSE Operands(write_index, obs.r)

SizeRead ==
  /\ obs.at \in {"compare", "subtract"} /\ obs.r = Unread
  /\ IF obs.w = Unread THEN obs' = [obs EXCEPT !.r = read_index]
                       ELSE Operands(obs.w, read_index)

Observe == /\ SizeCall \/ SizeIndex \/ SizeEntry \/ SizeWrite \/ SizeRead
           /\ UNCHANGED vars

(* What a step of the queue adds to the history of the call.               *)
Watched ==
  obs' = IF obs.at = "idle" THEN obs ELSE
         LET n == tail' - head' IN
         [obs EXCEPT !.least = IF n < @ THEN n ELSE @,
                     !.most = IF n > @ THEN n ELSE @,
                     !.still = @ /\ read_index' = read_index]
------------------------------------------------------------------------------
(* README: size() is the number of elements, "not guaranteed" because the  *)
(* indexes lag.  How far off it can be as long as no consumer moves the    *)
(* read index during the call, whatever the producers do: by one from a    *)
(* length the queue had during the call.  At the end of the index range it *)
(* is too small by R - N, and so enormous as a size_t, if the write index  *)
(* has wrapped around and the read index has not.                          *)
SizeNear ==
  [][obs.at # "idle" /\ obs'.at = "idle" /\ obs.still =>
       LET Near(n) == obs.least - 1 <= n /\ n <= obs.most + 1
       IN \/ Near(obs'.size)
          \/ ~obs.order /\ write_index < read_index /\ Near(obs'.size + R - N)
    ]_obs
==============================================================================
