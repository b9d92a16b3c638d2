------------------------------ MODULE MpmcQueue ------------------------------
(***************************************************************************)
(* The lock-free queue of mpmc_queue.h, one action per access to shared    *)
(* memory.  Every access is a sequentially consistent atomic load or       *)
(* compare-and-exchange, except get_seq() in push, a plain load of one     *)
(* aligned word whose only writers are compare-and-exchanges.              *)
(*                                                                         *)
(* index_type arithmetic is modulo R.  An entry is a sequence word and its *)
(* data; an even word 2*i says "free for push number i", the odd word      *)
(* 2*i + 1 says "holds push number i".  Push number i uses slot i % N.     *)
(***************************************************************************)
EXTENDS Integers, Sequences

CONSTANTS
  Threads,      \* the threads (or processes) sharing the queue
  N,            \* capacity, a power of two in the code
  R,            \* range of index_type: 2^bits
  LazyPush,     \* template parameters: leave the own index advance
  LazyPop,      \*   to whoever comes next
  Values, Zero, \* what is pushed; the data of a cleared entry
  Requests,     \* Requests[t]: the calls thread t may make
  MaxCalls,     \* MaxCalls[t]: bound on the calls of t (for TLC)
  MaxLag,       \* how stale a loaded index may get, see Timely
  First,        \* pushes and pops that took place before the start
  LiveThreads   \* the threads the scheduler never abandons

(* The constructor and the static_asserts ask for a power of two and for   *)
(* one bit more than the size needs.  That implies what is assumed here.   *)
ASSUME QueueAssumption ==
  /\ N \in Nat \ {0}
  /\ R \in Nat /\ R >= 4 * N /\ R % (2 * N) = 0
  /\ LazyPush \in BOOLEAN /\ LazyPop \in BOOLEAN
  /\ Zero \in Values
  /\ MaxLag \in Nat \ {0} /\ First \in Nat
  /\ LiveThreads \subseteq Threads

Ops == {"none", "push", "push_keep_n", "pop", "peek", "pop_if", "consume",
        "empty", "exchange"}

Request == [op : Ops, data : Values, old : Values, index : 0 .. R - 1]

ASSUME RequestAssumption == \A t \in Threads : Requests[t] \subseteq Request

VARIABLES
  write_index, read_index,  \* the two shared indexes
  array,                    \* array[s]: the entry in slot s
  pc,                       \* pc[t]: the access thread t makes next
  reg,                      \* reg[t]: its local copies of index and data
  req, res,                 \* req[t], res[t]: the current call, its result
  calls,                    \* calls[t]: calls made
  head, tail                \* history: elements popped, elements pushed

shared == <<write_index, read_index, array>>
vars == <<write_index, read_index, array, pc, reg, req, res, calls, head, tail>>

------------------------------------------------------------------------------
(* Sequence words and slots. *)

Wrap(a) == a % R
EmptySeq(i) == Wrap(2 * i)
FullSeq(i) == Wrap(2 * i + 1)
Slot(i) == i % N

EmptyEntry(i) == [seq |-> EmptySeq(i), data |-> Zero]
FullEntry(i, d) == [seq |-> FullSeq(i), data |-> d]
------------------------------------------------------------------------------
(* Calls and results. *)

NoRequest == [op |-> "none", data |-> Zero, old |-> Zero, index |-> 0]
Result(is, d, i) == [is |-> is, data |-> d, index |-> i]
Pending == Result("pending", Zero, 0)
False   == Result("false", Zero, 0)

(* A thread's registers: the index it loaded, the data of the entry it     *)
(* loaded, and (history) the push or pop number the index stands for.      *)
Reg(i, d, b) == [idx |-> i, data |-> d, base |-> b]
NoReg == Reg(0, Zero, 0)

Goto(t, l) == pc' = [pc EXCEPT ![t] = l]
Sets(t, r) == res' = [res EXCEPT ![t] = r]
Leave(t) == Goto(t, "idle") /\ reg' = [reg EXCEPT ![t] = NoReg]

------------------------------------------------------------------------------
(* Faults.  Each definition below is the one without the suffix with a     *)
(* plausible mistake in it.  Nothing uses them: PROJECT.json pairs each    *)
(* with a property that fails when the mistake is made.                    *)

(* the next index is not reduced to the width of index_type *)
AdvanceWrite_NoWrap(i) ==
  write_index' = IF write_index = i THEN i + 1 ELSE write_index
(* a plain store instead of a compare-and-exchange *)
AdvanceWrite_Store(i) == write_index' = Wrap(i + 1)
AdvanceRead_Store(i) == read_index' = Wrap(i + 1)
(* the advance is forgotten *)
AdvanceWrite_Never(i) == UNCHANGED write_index

(* any element in the slot is taken for a finished push of index i *)
WriteView_AnyFullIsBehind(i, seq) ==
  CASE seq = EmptySeq(i) -> "ready"
    [] seq % 2 = 1 \/ seq = EmptySeq(i + N) -> "behind"
    [] OTHER -> "moved"
(* any element in the slot is taken for the previous round's *)
WriteView_AnyFullIsFull(i, seq) ==
  CASE seq = EmptySeq(i) -> "ready"
    [] seq % 2 = 1 -> "full"
    [] OTHER -> "moved"
(* nobody helps *)
PeekView_NoBehind(i, seq) ==
  CASE seq = EmptySeq(i) -> "empty"
    [] seq = FullSeq(i) -> "ready"
    [] OTHER -> "moved"

(* a slot that has moved on to the next round is taken for an empty queue *)
ReadView_BehindIsEmpty(i, seq) ==
  CASE seq = FullSeq(i) -> "ready"
    [] seq \in {EmptySeq(i), EmptySeq(i + N), FullSeq(i + N)} -> "empty"
    [] OTHER -> "moved"

(* a popped slot keeps the number of the finished round *)
Cleared_SameRound(i) == EmptyEntry(i)
(* only the sequence word is compared, not the data *)
Loaded_SeqOnly(t) == FullEntry(reg[t].idx, array[Slot(reg[t].idx)].data)
(* push_keep_n returns once it has made room *)
AfterPop_NoRetry(t) == IF req[t].op = "consume"
                       THEN Goto(t, "callback") /\ UNCHANGED reg ELSE Leave(t)
------------------------------------------------------------------------------
(* How an operation reads the sequence word it found. *)

(* What the sequence word found in its slot tells a push that loaded i. *)
WriteView(i, seq) ==
  CASE seq = EmptySeq(i) -> "ready"
    [] seq \in {FullSeq(i), EmptySeq(i + N)} -> "behind"
    [] Wrap(seq + 2 * N) = FullSeq(i) -> "full"
    [] OTHER -> "moved"

LowBitSet(seq) == 2 * (seq \div 2) + 1  \* seq | 1

(* The same for a pop. *)
ReadView(i, seq) ==
  CASE seq = FullSeq(i) -> "ready"
    [] LowBitSet(seq) = FullSeq(i + N) -> "behind"
    [] seq = EmptySeq(i) -> "empty"
    [] OTHER -> "moved"

(* peek and pop_if compare (seq >> 1), which has one bit less than an      *)
(* index, with the whole of index_type(rd_index + size).                   *)
PeekView(i, seq) ==
  CASE seq = EmptySeq(i) -> "empty"
    [] seq = FullSeq(i) -> "ready"
    [] seq \div 2 = Wrap(i + N) -> "behind"
    [] OTHER -> "moved"

View(op, i, seq) == IF op \in {"peek", "pop_if"} THEN PeekView(i, seq)
                                                 ELSE ReadView(i, seq)
------------------------------------------------------------------------------
(* The start, and the calls. *)

Start(op) == CASE op \in {"push", "push_keep_n"} -> "wr_load"
               [] op = "exchange" -> "exchange"
               [] OTHER -> "rd_load"

Init == /\ write_index = Wrap(First)
        /\ read_index = Wrap(First)
        /\ array = [s \in 0 .. N - 1 |-> EmptyEntry(First + ((s - First) % N))]
        /\ pc = [t \in Threads |-> "idle"]
        /\ reg = [t \in Threads |-> NoReg]
        /\ req = [t \in Threads |-> NoRequest]
        /\ res = [t \in Threads |-> False]
        /\ calls = [t \in Threads |-> 0]
        /\ head = First
        /\ tail = First

Call(t) == /\ pc[t] = "idle"
           /\ calls[t] < MaxCalls[t]
           /\ \E r \in Requests[t] : /\ req' = [req EXCEPT ![t] = r]
                                     /\ Goto(t, Start(r.op))
           /\ Sets(t, Pending)
           /\ calls' = [calls EXCEPT ![t] = @ + 1]
           /\ UNCHANGED <<shared, reg, head, tail>>
------------------------------------------------------------------------------
(* The two indexes only ever move by a compare-and-exchange from the       *)
(* loaded value to the next one.                                           *)

AdvanceWrite(i) ==
  write_index' = IF write_index = i THEN Wrap(i + 1) ELSE write_index

AdvanceRead(i) ==
  read_index' = IF read_index = i THEN Wrap(i + 1) ELSE read_index

(* The assumption on timing: no thread holds an index it loaded while more *)
(* than MaxLag further operations take effect on that side of the queue.   *)
WritePCs == {"wr_seq", "wr_cas", "wr_adv", "wr_help"}
ReadPCs == {"rd_entry", "rd_cas", "rd_adv", "rd_help"}

Timely(count, pcs) ==
  \A u \in Threads : pc[u] \in pcs => count - reg[u].base <= MaxLag
------------------------------------------------------------------------------
(* push and push_keep_n *)

WrLoad(t) ==
  /\ pc[t] = "wr_load"
  /\ reg' = [reg EXCEPT ![t] =
               Reg(write_index, Zero, tail - Wrap(tail - write_index))]
  /\ Goto(t, "wr_seq")
  /\ UNCHANGED <<shared, req, res, calls, head, tail>>

Sees(t, view) ==
  /\ pc[t] = "wr_seq"
  /\ WriteView(reg[t].idx, array[Slot(reg[t].idx)].seq) = view

WrReady(t) == /\ Sees(t, "ready")
              /\ Goto(t, "wr_cas")
              /\ UNCHANGED <<shared, reg, req, res, calls, head, tail>>

WrBehind(t) == /\ Sees(t, "behind")
               /\ Goto(t, "wr_help")
               /\ UNCHANGED <<shared, reg, req, res, calls, head, tail>>

WrMoved(t) == /\ Sees(t, "moved")
              /\ Goto(t, "wr_load")
              /\ UNCHANGED <<shared, reg, req, res, calls, head, tail>>

WrFull(t) == /\ Sees(t, "full")
             /\ req[t].op = "push"
             /\ Sets(t, False)
             /\ Leave(t)
             /\ UNCHANGED <<shared, req, calls, head, tail>>

(* push_keep_n goes on to pop(lost), then tries again. *)
KeepFull(t) == /\ Sees(t, "full")
               /\ req[t].op = "push_keep_n"
               /\ Goto(t, "rd_load")
               /\ UNCHANGED <<shared, reg, req, res, calls, head, tail>>

(* The compare-and-exchange that is the push: from the cleared entry to    *)
(* the full one.  The lazy variant returns at once.                        *)
WrCas(t) ==
  LET i == reg[t].idx IN
  /\ pc[t] = "wr_cas"
  /\ array[Slot(i)] = EmptyEntry(i)
  /\ Timely(tail + 1, WritePCs)
  /\ array' = [array EXCEPT ![Slot(i)] = FullEntry(i, req[t].data)]
  /\ tail' = tail + 1
  /\ Sets(t, Result("true", Zero, i))
  /\ IF LazyPush THEN Leave(t) ELSE Goto(t, "wr_adv") /\ UNCHANGED reg
  /\ UNCHANGED <<write_index, read_index, req, calls, head>>

WrCasFails(t) ==
  /\ pc[t] = "wr_cas"
  /\ array[Slot(reg[t].idx)] # EmptyEntry(reg[t].idx)
  /\ Goto(t, "wr_load")
  /\ UNCHANGED <<shared, reg, req, res, calls, head, tail>>

WrAdv(t) == /\ pc[t] = "wr_adv"
            /\ AdvanceWrite(reg[t].idx)
            /\ Leave(t)
            /\ UNCHANGED <<read_index, array, req, res, calls, head, tail>>

WrHelp(t) == /\ pc[t] = "wr_help"
             /\ AdvanceWrite(reg[t].idx)
             /\ Goto(t, "wr_load")
             /\ UNCHANGED <<read_index, array, reg, req, res, calls, head, tail>>
------------------------------------------------------------------------------
(* pop, and the pop inside push_keep_n; peek, pop_if and empty *)

RdLoad(t) ==
  /\ pc[t] = "rd_load"
  /\ reg' = [reg EXCEPT ![t] =
               Reg(read_index, Zero, head - Wrap(head - read_index))]
  /\ Goto(t, "rd_entry")
  /\ UNCHANGED <<shared, req, res, calls, head, tail>>

Finds(t, view, ops) ==
  /\ pc[t] = "rd_entry"
  /\ req[t].op \in ops
  /\ View(req[t].op, reg[t].idx, array[Slot(reg[t].idx)].seq) = view

Taking == {"pop", "push_keep_n", "pop_if", "consume"}

(* The entry is full: remember its data.  For pop_if, the callback has     *)
(* accepted it.                                                            *)
RdReady(t) ==
  /\ Finds(t, "ready", Taking)
  /\ reg' = [reg EXCEPT ![t].data = array[Slot(reg[t].idx)].data]
  /\ Goto(t, "rd_cas")
  /\ UNCHANGED <<shared, req, res, calls, head, tail>>

(* The callback of pop_if refuses the data it is shown. *)
Refuse(t) == /\ Finds(t, "ready", {"pop_if"})
             /\ Sets(t, False)
             /\ Leave(t)
             /\ UNCHANGED <<shared, req, calls, head, tail>>

(* peek hands out the sequence word of the entry, not the index. *)
Peek(t) ==
  LET e == array[Slot(reg[t].idx)] IN
  /\ Finds(t, "ready", {"peek"})
  /\ Sets(t, Result("true", e.data, e.seq))
  /\ Leave(t)
  /\ UNCHANGED <<shared, req, calls, head, tail>>

RdBehind(t) == /\ Finds(t, "behind", Taking \cup {"peek"})
               /\ Goto(t, "rd_help")
               /\ UNCHANGED <<shared, reg, req, res, calls, head, tail>>

RdMoved(t) == /\ Finds(t, "moved", Taking \cup {"peek"})
              /\ Goto(t, "rd_load")
              /\ UNCHANGED <<shared, reg, req, res, calls, head, tail>>

RdEmpty(t) == /\ Finds(t, "empty", {"pop", "peek", "pop_if", "consume"})
              /\ Sets(t, False)
              /\ Leave(t)
              /\ UNCHANGED <<shared, req, calls, head, tail>>

(* pop(lost) found nothing: push_keep_n ignores that and pushes again. *)
KeepEmpty(t) == /\ Finds(t, "empty", {"push_keep_n"})
                /\ Goto(t, "wr_load")
                /\ UNCHANGED <<shared, reg, req, res, calls, head, tail>>

(* empty() looks once and never moves the index. *)
EmptyTest(t) ==
  LET i == reg[t].idx IN
  /\ pc[t] = "rd_entry"
  /\ req[t].op = "empty"
  /\ Sets(t, IF array[Slot(i)].seq = EmptySeq(i) THEN Result("true", Zero, 0)
                                                 ELSE False)
  /\ Leave(t)
  /\ UNCHANGED <<shared, req, calls, head, tail>>

(* Where a thread goes when its inner pop is over. *)
AfterPop(t) ==
  CASE req[t].op = "push_keep_n" -> Goto(t, "wr_load") /\ UNCHANGED reg
    [] req[t].op = "consume" -> Goto(t, "callback") /\ UNCHANGED reg
    [] OTHER -> Leave(t)

(* The compare-and-exchange that is the pop: from the very entry that was  *)
(* loaded to the cleared entry of the next round.                          *)
Loaded(t) == FullEntry(reg[t].idx, reg[t].data)
Cleared(i) == EmptyEntry(i + N)

(* What the caller has then: consume, still running, its next element.     *)
Popped(t) ==
  CASE req[t].op = "push_keep_n" -> res[t]
    [] req[t].op = "pop" -> Result("true", reg[t].data, reg[t].idx)
    [] req[t].op = "consume" -> Result("pending", reg[t].data, reg[t].idx)
    [] OTHER -> Result("true", reg[t].data, 0)

RdCas(t) ==
  LET i == reg[t].idx IN
  /\ pc[t] = "rd_cas"
  /\ array[Slot(i)] = Loaded(t)
  /\ Timely(head + 1, ReadPCs)
  /\ array' = [array EXCEPT ![Slot(i)] = Cleared(i)]
  /\ head' = head + 1
  /\ Sets(t, Popped(t))
  /\ IF LazyPop THEN AfterPop(t) ELSE Goto(t, "rd_adv") /\ UNCHANGED reg
  /\ UNCHANGED <<write_index, read_index, req, calls, tail>>

RdCasFails(t) ==
  /\ pc[t] = "rd_cas"
  /\ array[Slot(reg[t].idx)] # Loaded(t)
  /\ Goto(t, "rd_load")
  /\ UNCHANGED <<shared, reg, req, res, calls, head, tail>>

RdAdv(t) == /\ pc[t] = "rd_adv"
            /\ AdvanceRead(reg[t].idx)
            /\ AfterPop(t)
            /\ UNCHANGED <<write_index, array, req, res, calls, head, tail>>

RdHelp(t) == /\ pc[t] = "rd_help"
             /\ AdvanceRead(reg[t].idx)
             /\ Goto(t, "rd_load")
             /\ UNCHANGED <<write_index, array, reg, req, res, calls, head, tail>>

(* The callback of consume asks to stop, or consume pops again. *)
Stop(t) == /\ pc[t] = "callback"
           /\ Sets(t, [res[t] EXCEPT !.is = "true"])
           /\ Leave(t)
           /\ UNCHANGED <<shared, req, calls, head, tail>>

Continue(t) == /\ pc[t] = "callback"
               /\ Goto(t, "rd_load")
               /\ UNCHANGED <<shared, reg, req, res, calls, head, tail>>
------------------------------------------------------------------------------
(* exchange: one compare-and-exchange on the entry the caller names. *)

Target(t) == FullEntry(req[t].index, req[t].old)

Exchange(t) ==
  LET i == req[t].index IN
  /\ pc[t] = "exchange"
  /\ array[Slot(i)] = Target(t)
  /\ array' = [array EXCEPT ![Slot(i)] = FullEntry(i, req[t].data)]
  /\ Sets(t, Result("true", Zero, 0))
  /\ Leave(t)
  /\ UNCHANGED <<write_index, read_index, req, calls, head, tail>>

ExchangeFails(t) ==
  /\ pc[t] = "exchange"
  /\ array[Slot(req[t].index)] # Target(t)
  /\ Sets(t, False)
  /\ Leave(t)
  /\ UNCHANGED <<shared, req, calls, head, tail>>
------------------------------------------------------------------------------
Pushing(t) == \/ WrLoad(t) \/ WrReady(t) \/ WrBehind(t) \/ WrMoved(t)
              \/ WrFull(t) \/ KeepFull(t) \/ WrCas(t) \/ WrCasFails(t)
              \/ WrAdv(t) \/ WrHelp(t)

Popping(t) == \/ RdLoad(t) \/ RdReady(t) \/ Refuse(t) \/ Peek(t)
              \/ RdBehind(t) \/ RdMoved(t) \/ RdEmpty(t) \/ KeepEmpty(t)
              \/ EmptyTest(t) \/ RdCas(t) \/ RdCasFails(t) \/ RdAdv(t)
              \/ RdHelp(t) \/ Stop(t) \/ Continue(t)

Step(t) == Pushing(t) \/ Popping(t) \/ Exchange(t) \/ ExchangeFails(t)

(* All calls of the bounded model have been made and have returned. *)
Done == /\ \A t \in Threads : pc[t] = "idle" /\ calls[t] >= MaxCalls[t]
        /\ UNCHANGED vars

Next == (\E t \in Threads : Call(t) \/ Step(t)) \/ Done

Spec == Init /\ [][Next]_vars

(* The scheduler runs every live thread again and again.  The others may   *)
(* be suspended, or die, between any two accesses.                         *)
FairSpec == Spec /\ \A t \in LiveThreads : WF_vars(Step(t))
------------------------------------------------------------------------------
(* Correctness. *)

Entry == [seq : 0 .. R - 1, data : Values]
PCs == WritePCs \cup ReadPCs \cup {"idle", "wr_load", "rd_load", "callback", "exchange"}
Results == [is : {"pending", "false", "true"}, data : Values, index : 0 .. R - 1]
Regs == [idx : 0 .. R - 1, data : Values, base : Nat]

(* Type correctness: indexes, sequence words and results stay within       *)
(* index_type, so every computed index has been reduced modulo R.          *)
TypeOK == /\ write_index \in 0 .. R - 1 /\ read_index \in 0 .. R - 1
          /\ array \in [0 .. N - 1 -> Entry]
          /\ pc \in [Threads -> PCs]
          /\ reg \in [Threads -> Regs]
          /\ req \in [Threads -> Request]
          /\ res \in [Threads -> Results]
          /\ calls \in [Threads -> Nat]
          /\ head \in Nat /\ tail \in Nat

(* The entry that slot Slot(j) holds, for j the push number it serves now: *)
(* full if push j has taken effect, cleared and waiting for it otherwise.  *)
Serves(j) == /\ array[Slot(j)].seq = IF j < tail THEN FullSeq(j) ELSE EmptySeq(j)
             /\ j >= tail => array[Slot(j)].data = Zero

(* The slots serve the N consecutive numbers from the head: no element is  *)
(* lost, overwritten, duplicated or stored out of order, whatever the      *)
(* interleaving of pushes, pops and helpers (push, pop, pop_if).           *)
Window == /\ head <= tail /\ tail <= head + N
          /\ \A j \in head .. head + N - 1 : Serves(j)

(* The cooperative advance never skips and never falls behind: each index  *)
(* is the number of completed operations on its side, or one less while    *)
(* the advance of the last one is outstanding (or was left to others).     *)
Current(index, count) == index = Wrap(count)
OneBehind(index, count) == count > First /\ index = Wrap(count - 1)

IndexLag == /\ Current(write_index, tail) \/ OneBehind(write_index, tail)
            /\ Current(read_index, head) \/ OneBehind(read_index, head)

(* What a thread may rely on about the index it loaded, however long ago:  *)
(* it is a past value of the shared index, never one still to come, and it *)
(* is really out of date when the thread is about to advance the shared    *)
(* index on the strength of it.                                            *)
WriteRegister(t) ==
  LET b == reg[t].base IN
  /\ reg[t].idx = Wrap(b)
  /\ b <= tail /\ tail - b <= MaxLag
  /\ b = tail => Current(write_index, tail)
  /\ pc[t] \in {"wr_adv", "wr_help"} => b < tail

ReadRegister(t) ==
  LET b == reg[t].base IN
  /\ reg[t].idx = Wrap(b)
  /\ b <= head /\ head - b <= MaxLag
  /\ b = head => Current(read_index, head)
  /\ pc[t] \in {"rd_adv", "rd_help"} => b < head

Registers ==
  \A t \in Threads : /\ pc[t] \in WritePCs => WriteRegister(t)
                     /\ pc[t] \in ReadPCs => ReadRegister(t)

(* The queue is a linearizable bounded FIFO: every call takes effect, and  *)
(* gets the result FifoQueue gives it, at one of its own accesses.         *)
Contents == [k \in 1 .. tail - head |-> array[Slot(head + k - 1)].data]
Fifo == INSTANCE FifoQueue WITH queue <- Contents, popped <- head
Implements == Fifo!Spec

(* Non-blocking: a call of a thread that keeps running returns, wherever   *)
(* the other threads stopped (README: no operation must be completed by a  *)
(* particular producer or consumer).                                       *)
Completes == \A t \in LiveThreads : pc[t] # "idle" ~> pc[t] = "idle"

(* One producer and one consumer never retry (README: wait-free): a call   *)
(* goes back to its load only in the lazy variants, and then with the      *)
(* index brought up to date, so that it goes back once.                    *)
WaitFree ==
  [][\A t \in Threads : pc'[t] # pc[t] =>
       /\ pc[t] = "wr_help" => LazyPush /\ write_index' = Wrap(tail')
       /\ pc[t] = "rd_help" => LazyPop /\ read_index' = Wrap(head')
       /\ pc'[t] \in {"wr_load", "rd_load"} => pc[t] \in {"idle", "wr_help", "rd_help"}
    ]_<<pc, write_index, read_index, head, tail>>

(* push_keep_n keeps the last N elements: if nobody else removes elements, *)
(* a queue that has been full is full again whenever no call is running.   *)
KeepsLastN ==
  (\A t \in Threads : pc[t] = "idle") /\ tail - First >= N => tail - head = N

(* README: "empty() - true if queue is empty". *)
EmptyIsExact ==
  [][\A t \in Threads :
       res'[t] = False /\ res[t] = Pending /\ req[t].op = "empty" => head # tail]_vars
==============================================================================
